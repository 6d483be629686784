------------------------------ MODULE PaneProofs ------------------------------
(* What the panes guarantee for any items, recordings and bounds: of          *)
(* Selecting, Recordings and Reading, that what is shown is what it says it   *)
(* is; of Panel and Writing, that what the reader types stays where it is of. *)
EXTENDS Selecting, Sequences, FiniteSetTheorems, TLAPS

CONSTANTS Recording, MaxReads
VARIABLES open, filtered, held, page, reads, begun, alive, cut, taken
Recordings == INSTANCE Recordings

CONSTANTS Listed, MaxDrafts, MaxTurns
VARIABLES app, drafts, marks, flagged, written, turns, closed, moved
Reading == INSTANCE Reading WITH Pull <- Listed

CONSTANTS Source, Destination, Waiting, MaxAsks, MaxWords
VARIABLES visible, listed, gone, stored, setup, settingsSelection, call, asks, words, owed, chosen, late, swept
P == INSTANCE Panel WITH Call <- Waiting, crossed <- late

CONSTANTS Piece, Approved, MaxRedrafts, MaxNews, MaxEdits, MaxWritings, MaxLooks
VARIABLES
  proposal, unfinished, news, reviewed, loading, looks, box, leaving, comment, edits, recorded, sent, typed, givenUp,
  met, carried, under
T == INSTANCE Writing WITH
  Item <- Piece, MaxDrafts <- MaxRedrafts, MaxWords <- MaxWritings, MaxOpens <- MaxLooks,
  posted <- reviewed, calls <- loading, opens <- looks, card <- comment, kept <- recorded, cut <- givenUp,
  crossed <- met, draft <- proposal

-------------------------------------------------------------------------------
(* The pane of an item (Selecting).                                          *)

\* Every opening under way is of the item that is selected.
OneOpening == \A c, d \in calls : c = d /\ c.item = selected

\* Nothing on the pane is another item's.
OfSelected == selected # "none" => \A f \in Field : pane[f] \in {"none", selected}

\* Once everything was asked for, each field is there or said to be missing.
Complete == \A f \in Wanted(selected) : pane[f] = selected \/ Troubled(f)

CompleteAfterAsk ==
  selected # "none" /\ (\A c \in calls : c.step = "drift") => Complete

\* What is under way, and what is on the pane, is of items that met.
AmongThoseThatMet ==
  /\ \A c \in calls : c.item \in crossed
  /\ \A f \in Field : pane[f] \in {"none"} \cup crossed

\* A review names its own item's commit, or that of an item that met another.
NamesItsOwn == \A p \in posted : p.at \in {p.of} \cup p.over

OpeningInv ==
  /\ TypeOK /\ NamesItsOwn
  /\ crossed = {} => OneOpening /\ OfSelected /\ CompleteAfterAsk
  /\ crossed # {} => AmongThoseThatMet

\* What an opening may be refused can be counted.
LEMMA RefusedCount ==
  ASSUME NEW item, NEW refused \in SUBSET Wanted(item)
  PROVE  Cardinality(refused) \in Nat
<1>1. IsFiniteSet({"files", "head"} \cup {"issue"})
  <2>1. IsFiniteSet({}) /\ IsFiniteSet({"files"}) /\ IsFiniteSet({"head"}) /\ IsFiniteSet({"issue"})
    BY FS_EmptySet, FS_Singleton
  <2>2. {"files", "head"} = {"files"} \cup {"head"}
    OBVIOUS
  <2> QED BY <2>1, <2>2, FS_Union
<1>2. refused \subseteq {"files", "head"} \cup {"issue"}
  BY DEF Wanted
<1> QED BY <1>1, <1>2, FS_Subset, FS_CardinalityType

\* What an opening fills the pane with is of its item or of none.
LEMMA FilledType ==
  ASSUME TypeOK, Bounds, NEW item \in Item, NEW refused \in SUBSET Wanted(item)
  PROVE  Filled(item, refused) \in [Field -> Some] /\ Told(refused) \subseteq {"diff", "body"}
<1>1. pane \in [Field -> Some] /\ item \in Some /\ "none" \in Some
  BY DEF TypeOK, Some
<1>2. \A f \in Field : pane[f] \in Some
  BY <1>1
<1>3. Filled(item, refused) \in [Field -> Some]
  BY <1>1, <1>2 DEF Filled
<1>4. Told(refused) \subseteq {"diff", "body"}
  BY DEF Told
<1> QED BY <1>3, <1>4

\* No step leaves the types.
LEMMA PaneTypeStep ==
  ASSUME Bounds, TypeOK, Next
  PROVE  TypeOK'
<1> USE DEF TypeOK, Bounds
<1>0. ASSUME NEW item \in Item, Started(item) PROVE opens' \in 0..MaxOpens /\ crossed' \subseteq Item
  <2>1. \A c \in calls : c.item \in Item
    BY DEF Call
  <2>2. opens' \in 0..MaxOpens
    BY <1>0 DEF Started
  <2>3. crossed' \subseteq Item
    BY <1>0, <2>1 DEF Started
  <2> QED BY <2>2, <2>3
<1>1. CASE PutAway
  <2>1. selected \in Item
    BY <1>1 DEF PutAway, Some
  <2>2. opens' \in 0..MaxOpens /\ crossed' \subseteq Item
    BY <1>0, <1>1, <2>1 DEF PutAway
  <2> QED BY <1>1, <2>2 DEF PutAway, Some
<1>2. CASE Post
  BY <1>2 DEF Post, Some, Field
<1>3. ASSUME NEW item \in Item, Select(item) PROVE TypeOK'
  <2>1. opens' \in 0..MaxOpens /\ crossed' \subseteq Item
    BY <1>0, <1>3 DEF Select
  <2>2. [id |-> opens + 1, item |-> item, step |-> "load"] \in Call
    BY <1>3 DEF Select, Started, Call
  <2> QED BY <1>3, <2>1, <2>2 DEF Select, Some, Emptied, Empty, Field
<1>4. ASSUME NEW c \in calls, Loaded(c) PROVE TypeOK'
  <2>1. c \in Call /\ c.item \in Item /\ [c EXCEPT !.step = "ask"] \in Call
    BY DEF Call
  <2> QED BY <1>4, <2>1 DEF Loaded, Moved, Some
<1>5. ASSUME NEW c \in calls, Answered(c) PROVE TypeOK'
  <2>1. c \in Call /\ c.item \in Item /\ [c EXCEPT !.step = "drift"] \in Call
    BY DEF Call
  <2>2. PICK refused \in SUBSET Wanted(c.item) :
          /\ refusals + Cardinality(refused) <= MaxRefusals
          /\ refusals' = refusals + Cardinality(refused)
          /\ pane' = Filled(c.item, refused)
          /\ trouble' = Told(refused)
          /\ \/ selected # "none" /\ Moved(c, "drift")
             \/ calls' = calls \ {c}
          /\ UNCHANGED <<selected, opens, posted, crossed>>
    BY <1>5 DEF Answered
  <2>3. refusals' \in 0..MaxRefusals
    BY <2>2, RefusedCount
  <2>4. pane' \in [Field -> Some] /\ trouble' \subseteq {"diff", "body"}
    BY <2>1, <2>2, FilledType
  <2>5. calls' \subseteq Call
    BY <2>1, <2>2 DEF Moved
  <2> QED BY <2>2, <2>3, <2>4, <2>5
<1>6. ASSUME NEW c \in calls, Drifted(c) PROVE TypeOK'
  <2>1. c \in Call /\ c.item \in Item
    BY DEF Call
  <2> QED BY <1>6, <2>1 DEF Drifted, Some, Field
<1> QED BY <1>1, <1>2, <1>3, <1>4, <1>5, <1>6 DEF Next

\* Whatever is opened or put away over what, a review names what it may.
LEMMA PaneNamesStep ==
  ASSUME Bounds, OpeningInv, Next
  PROVE  NamesItsOwn'
<1>0. TypeOK /\ NamesItsOwn
  BY DEF OpeningInv
<1>1. CASE Post
  <2>1. pane["head"] \in {selected} \cup crossed
    BY <1>1 DEF Post, OpeningInv, AmongThoseThatMet, OfSelected, Field, TypeOK, Bounds, Item
  <2>2. posted' = posted \cup {[of |-> selected, at |-> pane["head"], over |-> crossed]}
    BY <1>1 DEF Post
  <2> QED BY <1>0, <2>1, <2>2 DEF NamesItsOwn
<1>2. CASE ~Post
  <2>1. posted' = posted
    BY <1>2 DEF Next, PutAway, Select, Started, Loaded, Answered, Drifted
  <2> QED BY <1>0, <2>1 DEF NamesItsOwn
<1> QED BY <1>1, <1>2

\* While openings meet, no step brings anything of an item that met none.
LEMMA PaneMetStep ==
  ASSUME Bounds, OpeningInv, Next, crossed' # {}
  PROVE  AmongThoseThatMet'
<1>0. TypeOK /\ TypeOK'
  BY PaneTypeStep DEF OpeningInv
<1>1. ASSUME NEW item \in Item, Started(item), calls' \subseteq calls \/ (\A c \in calls' \ calls : c.item = item),
             pane' = Empty \/ (pane' = pane /\ item = selected)
     PROVE  AmongThoseThatMet'
  <2>1. calls # {} /\ crossed' = crossed \cup {item} \cup {c.item : c \in calls}
    BY <1>1 DEF Started
  <2>2. \A c \in calls' : c.item \in crossed'
    BY <1>1, <2>1
  <2>3. CASE pane' = Empty
    BY <2>2, <2>3 DEF AmongThoseThatMet, Empty
  <2>4. CASE pane' = pane /\ item = selected
    <3>1. \A f \in Field : pane[f] \in {"none", selected} \cup crossed
      BY <1>1, <2>4 DEF OpeningInv, AmongThoseThatMet, OfSelected, Bounds, Item
    <3> QED BY <2>1, <2>2, <2>4, <3>1 DEF AmongThoseThatMet
  <2> QED BY <1>1, <2>3, <2>4
<1>2. CASE PutAway
  <2>1. selected \in Item /\ Started(selected) /\ calls' = calls /\ pane' = pane
    BY <1>0, <1>2 DEF PutAway, TypeOK, Some
  <2> QED BY <1>1, <2>1
<1>3. ASSUME NEW item \in Item, Select(item) PROVE AmongThoseThatMet'
  <2>1. Started(item) /\ pane' = Empty
    BY <1>3 DEF Select, Emptied
  <2>2. \A c \in calls' \ calls : c.item = item
    BY <1>3 DEF Select
  <2> QED BY <1>1, <2>1, <2>2
<1>4. ASSUME crossed' = crossed PROVE AmongThoseThatMet
  BY <1>4 DEF OpeningInv
<1>5. CASE Post
  <2>1. crossed' = crossed /\ calls' = calls /\ pane' = pane
    BY <1>5 DEF Post
  <2> QED BY <1>4, <2>1 DEF AmongThoseThatMet
<1>6. ASSUME NEW c \in calls, Loaded(c) PROVE AmongThoseThatMet'
  <2>1. crossed' = crossed /\ pane' = pane /\ calls' = (calls \ {c}) \cup {[c EXCEPT !.step = "ask"]}
    BY <1>6 DEF Loaded, Moved
  <2>2. [c EXCEPT !.step = "ask"].item = c.item
    BY <1>0 DEF TypeOK, Call
  <2> QED BY <1>4, <2>1, <2>2 DEF AmongThoseThatMet
<1>7. ASSUME NEW c \in calls, Answered(c) PROVE AmongThoseThatMet'
  <2>1. crossed' = crossed /\ calls' \subseteq (calls \ {c}) \cup {[c EXCEPT !.step = "drift"]}
    BY <1>7 DEF Answered, Moved
  <2>2. [c EXCEPT !.step = "drift"].item = c.item
    BY <1>0 DEF TypeOK, Call
  <2>3. \E refused \in SUBSET Wanted(c.item) : pane' = Filled(c.item, refused)
    BY <1>7 DEF Answered
  <2>4. \A f \in Field : pane'[f] \in {"none", c.item, pane[f]}
    BY <2>3 DEF Filled
  <2> QED BY <1>4, <2>1, <2>2, <2>4 DEF AmongThoseThatMet
<1>8. ASSUME NEW c \in calls, Drifted(c) PROVE AmongThoseThatMet'
  <2>1. crossed' = crossed /\ calls' = calls \ {c}
    BY <1>8 DEF Drifted
  <2>2. \E x \in {"none", c.item} : pane' = [pane EXCEPT !["drift"] = x]
    BY <1>8 DEF Drifted
  <2>3. \A f \in Field : pane'[f] \in {"none", c.item, pane[f]}
    BY <1>0, <2>2 DEF TypeOK
  <2> QED BY <1>4, <2>1, <2>3 DEF AmongThoseThatMet
<1> QED BY <1>2, <1>3, <1>5, <1>6, <1>7, <1>8 DEF Next

\* An opening that runs alone leaves the pane and what is under way the selected
\* item's, whatever met before it.
LEMMA PaneAloneStep ==
  ASSUME Bounds, OpeningInv, Next, crossed' = {}
  PROVE  OneOpening' /\ OfSelected' /\ CompleteAfterAsk'
<1>0. TypeOK /\ TypeOK'
  BY PaneTypeStep DEF OpeningInv
<1>1. ASSUME crossed = {} PROVE OneOpening /\ OfSelected /\ CompleteAfterAsk
  BY <1>1 DEF OpeningInv
<1>2. CASE PutAway
  <2>1. calls' = {} /\ selected' = "none"
    BY <1>2 DEF PutAway, Started
  <2> QED BY <2>1 DEF OneOpening, OfSelected, CompleteAfterAsk
<1>3. CASE Post
  <2>1. crossed = {} /\ UNCHANGED <<selected, pane, trouble, calls>>
    BY <1>3 DEF Post
  <2> QED BY <1>1, <2>1 DEF OneOpening, OfSelected, CompleteAfterAsk, Complete, Troubled
<1>4. ASSUME NEW item \in Item, Select(item)
     PROVE  OneOpening' /\ OfSelected' /\ CompleteAfterAsk'
  <2>1. calls' = {[id |-> opens + 1, item |-> item, step |-> "load"]}
    BY <1>4 DEF Select, Started
  <2>2. selected' = item /\ pane' = Empty
    BY <1>4 DEF Select, Emptied
  <2> QED BY <2>1, <2>2 DEF Empty, OneOpening, OfSelected, CompleteAfterAsk
<1>5. ASSUME crossed = {}, NEW c \in calls
     PROVE  c \in Call /\ c.item = selected /\ calls = {c} /\ selected \in Item /\ selected # "none"
  BY <1>0, <1>1, <1>5 DEF OneOpening, TypeOK, Call, Bounds
<1>6. ASSUME NEW c \in calls, Loaded(c)
     PROVE  OneOpening' /\ OfSelected' /\ CompleteAfterAsk'
  <2>0. crossed = {} /\ pane' = pane
    BY <1>6 DEF Loaded
  <2>1. calls' = {[c EXCEPT !.step = "ask"]} /\ selected' = selected
    BY <1>5, <1>6, <2>0 DEF Loaded, Moved
  <2>2. [c EXCEPT !.step = "ask"].item = selected /\ [c EXCEPT !.step = "ask"].step = "ask"
    BY <1>5, <2>0 DEF Call
  <2> QED BY <1>1, <2>0, <2>1, <2>2 DEF OneOpening, OfSelected, CompleteAfterAsk
<1>7. ASSUME NEW c \in calls, Answered(c)
     PROVE  OneOpening' /\ OfSelected' /\ CompleteAfterAsk'
  <2>0. crossed = {}
    BY <1>7 DEF Answered
  <2>1. PICK refused \in SUBSET Wanted(selected) :
          /\ pane' = Filled(selected, refused)
          /\ trouble' = Told(refused)
          /\ selected' = selected
    BY <1>5, <1>7, <2>0 DEF Answered
  <2>2. calls' \subseteq {[c EXCEPT !.step = "drift"]}
    BY <1>5, <1>7, <2>0 DEF Answered, Moved
  <2>3. [c EXCEPT !.step = "drift"].item = selected
    BY <1>5, <2>0 DEF Call
  <2>4. OneOpening'
    BY <2>1, <2>2, <2>3 DEF OneOpening
  <2>5. OfSelected'
    BY <1>1, <1>5, <2>0, <2>1 DEF OfSelected, Filled
  <2>6. Complete'
    BY <2>1 DEF Complete, Wanted, Filled, Told, Troubled, Field
  <2> QED BY <2>4, <2>5, <2>6 DEF CompleteAfterAsk
<1>8. ASSUME NEW c \in calls, Drifted(c)
     PROVE  OneOpening' /\ OfSelected' /\ CompleteAfterAsk'
  <2>0. crossed = {}
    BY <1>8 DEF Drifted
  <2>1. calls' = {} /\ selected' = selected /\ trouble' = trouble
    BY <1>5, <1>8, <2>0 DEF Drifted
  <2>2. pane \in [Field -> Some]
    BY <1>0 DEF TypeOK
  <2>3. \E x \in {"none", selected} : pane' = [pane EXCEPT !["drift"] = x]
    BY <1>5, <1>8, <2>0 DEF Drifted
  <2>4. Complete
    BY <1>1, <1>5, <1>8, <2>0 DEF CompleteAfterAsk, Drifted
  <2>5. Complete'
    BY <2>1, <2>2, <2>3, <2>4 DEF Complete, Wanted, Troubled, Field
  <2> QED BY <1>1, <2>0, <2>1, <2>2, <2>3, <2>5 DEF OneOpening, OfSelected, CompleteAfterAsk
<1> QED BY <1>2, <1>3, <1>4, <1>6, <1>7, <1>8 DEF Next

\* Alone or met, every step leaves the pane as it should be.
LEMMA PaneInvStep ==
  ASSUME Bounds, OpeningInv, Next
  PROVE  OpeningInv'
<1>1. TypeOK'
  BY PaneTypeStep DEF OpeningInv
<1> QED BY <1>1, PaneNamesStep, PaneMetStep, PaneAloneStep DEF OpeningInv

\* A page starts with nothing selected.
LEMMA PaneInvInit ==
  ASSUME Bounds, Init PROVE OpeningInv
<1>1. TypeOK
  <2>1. 0 \in 0..MaxOpens /\ 0 \in 0..MaxRefusals
    BY DEF Bounds
  <2>2. Empty \in [Field -> Some]
    BY DEF Empty, Some
  <2>3. calls \subseteq Call /\ posted \subseteq [of : Pull, at : Some, over : SUBSET Item] /\ crossed \subseteq Item
    BY DEF Init
  <2> QED BY <2>1, <2>2, <2>3 DEF Init, TypeOK, Some
<1>2. crossed = {} /\ OneOpening /\ OfSelected /\ CompleteAfterAsk /\ NamesItsOwn
  BY DEF Init, OneOpening, OfSelected, CompleteAfterAsk, NamesItsOwn
<1> QED BY <1>1, <1>2 DEF OpeningInv

\* What holds of the pane is about its variables alone.
LEMMA PaneInvStutter ==
  ASSUME OpeningInv, UNCHANGED vars PROVE OpeningInv'
BY DEF vars, OpeningInv, TypeOK, OneOpening, OfSelected, CompleteAfterAsk, NamesItsOwn,
   AmongThoseThatMet, Complete, Troubled

\* The invariant says what the pane promises.
LEMMA PaneInvMeans == OpeningInv => PaneIsOfSelected
BY DEF OpeningInv, PaneIsOfSelected, OneOpening, OfSelected, CompleteAfterAsk, NamesItsOwn,
   AmongThoseThatMet, Complete

\* The pane shows nothing of an item but the one selected, a review names that
\* one's commit, and what is missing is said to be; where openings met, what is
\* shown and named is of one of those that did, until the next that runs alone;
\* for any items and any bounds (app.js select, _loadDrift).
THEOREM PaneOfSelectedAlways == ASSUME Bounds PROVE Spec => []PaneIsOfSelected
<1>1. Init => OpeningInv
  BY PaneInvInit
<1>2. OpeningInv /\ [Next]_vars => OpeningInv'
  BY PaneInvStep, PaneInvStutter
<1> QED BY <1>1, <1>2, PaneInvMeans, PTL DEF Spec

-------------------------------------------------------------------------------
(* The recordings on a page (Recordings).                                    *)

\* Reads are numbered as they begin.
Numbered ==
  /\ begun \in 0..MaxReads /\ alive \subseteq 1..MaxReads
  /\ \A read \in reads : read.id \in 1..begun
  /\ \A read, other \in reads : read.id = other.id => read = other

\* An entry is one read's; its URL is that read's, a link, or yet to come.
OneOwner ==
  /\ \A r \in Recording :
       /\ held[r].read \in 0..begun
       /\ held[r].url \in {0, held[r].read, Recordings!Link}
       /\ held[r].read = 0 => held[r].url = 0
  /\ \A r, s \in Recording : held[r].read = held[s].read /\ held[r].read # 0 => r = s

\* A read under way is its entry's, which has no URL yet, unless the entry was
\* let go.
Awaited ==
  \A read \in reads :
    /\ held[read.of].read = read.id => held[read.of].url = 0
    /\ held[read.of].read = read.id \/ read.id \in cut \cup taken

\* What an entry holds has not been given back.
NoneHeldGone == \A r \in Recording : held[r].url \in alive \cup {0, Recordings!Link}

RecordingsInv ==
  /\ Recordings!TypeOK
  /\ Numbered /\ OneOwner /\ Awaited /\ NoneHeldGone
  /\ Recordings!GivenBack /\ Recordings!NoneShownGone /\ Recordings!NoneStaysEmpty

Entry == [read : Recordings!Id, url : Recordings!Url, used : BOOLEAN]
Read == [id : Recordings!Id, of : Recording, on : Recordings!Pane \cup {Recordings!Gone}]
Shown == [of : Recording \cup {Recordings!None}, url : Recordings!Url,
          says : {Recordings!None, "missing", "unread"}, late : BOOLEAN]

\* What TypeOK says of one entry and of the numbers.
LEMMA EntryType ==
  ASSUME Recordings!Bounds, Recordings!TypeOK, NEW r \in Recording
  PROVE  /\ held[r] \in [read : Recordings!Id, url : Recordings!Url, used : BOOLEAN]
         /\ held[r].read \in Recordings!Id /\ held[r].url \in Recordings!Url /\ held[r].used \in BOOLEAN
         /\ MaxReads \in Nat /\ Recordings!Id = 0..MaxReads /\ Recordings!Url = 0..(MaxReads + 1)
BY DEF Recordings!Bounds, Recordings!TypeOK, Recordings!Id, Recordings!Url, Recordings!Link

\* What a redraw did not use is not held any more, the rest as it was.
LEMMA Released ==
  ASSUME Recordings!Bounds, Recordings!TypeOK, NEW r \in Recording
  PROVE  /\ held[r].used => /\ Recordings!releaseMedia[r].read = held[r].read
                            /\ Recordings!releaseMedia[r].url = held[r].url
         /\ ~held[r].used => /\ Recordings!releaseMedia[r].read = 0
                             /\ Recordings!releaseMedia[r].url = 0
         /\ Recordings!releaseMedia[r] \in [read : Recordings!Id, url : Recordings!Url, used : BOOLEAN]
<1>1. CASE held[r].used
  <2>1. Recordings!releaseMedia[r] = [held[r] EXCEPT !.used = FALSE]
    BY <1>1 DEF Recordings!releaseMedia, Recordings!Keeps
  <2> QED BY <1>1, <2>1, EntryType
<1>2. CASE ~held[r].used
  <2>1. Recordings!releaseMedia[r] = [read |-> 0, url |-> 0, used |-> FALSE]
    BY <1>2 DEF Recordings!releaseMedia, Recordings!Keeps, Recordings!NotHeld
  <2> QED BY <1>2, <2>1, EntryType
<1> QED BY <1>1, <1>2, EntryType

\* What a redraw leaves of each entry: what it held if it was in use, nothing
\* if it was not, and a read that begins now for the recording that is drawn.
LEMMA Redrawn ==
  ASSUME Recordings!Bounds, Recordings!TypeOK,
         NEW r \in Recording \cup {Recordings!None}, NEW lens,
         Recordings!recording(r, lens)
  PROVE  /\ held' \in [Recording -> [read : Recordings!Id, url : Recordings!Url, used : BOOLEAN]]
         /\ begun' \in {begun, begun + 1} /\ begun' \in Recordings!Id
         /\ \A s \in Recording :
              \/ /\ held[s].used
                 /\ held'[s].read = held[s].read /\ held'[s].url = held[s].url
              \/ ~held[s].used /\ held'[s].read = 0 /\ held'[s].url = 0
              \/ /\ s = r /\ begun' = begun + 1
                 /\ held'[s].read = begun' /\ held'[s].url = 0
                 /\ held[s].used => held[s].read = 0
<1> DEFINE kept == Recordings!releaseMedia
           fresh == r # Recordings!None /\ kept[r].read = 0
<1> USE DEF Entry
<1>1. /\ fresh => begun < MaxReads
      /\ held' = IF r = Recordings!None THEN kept
                 ELSE [kept EXCEPT ![r] = IF fresh THEN [read |-> begun + 1, url |-> 0, used |-> TRUE]
                                                   ELSE [@ EXCEPT !.used = TRUE]]
      /\ begun' = IF fresh THEN begun + 1 ELSE begun
  BY DEF Recordings!recording
<1>2. begun \in Recordings!Id /\ MaxReads \in Nat /\ Recordings!Id = 0..MaxReads /\ 0 \in Recordings!Url
  <2>1. MaxReads \in Nat /\ Recordings!Url = 0..(MaxReads + 1)
    BY DEF Recordings!Bounds, Recordings!Url, Recordings!Link
  <2>2. begun \in Recordings!Id
    BY DEF Recordings!TypeOK
  <2>3. Recordings!Id = 0..MaxReads
    BY DEF Recordings!Id
  <2> QED BY <2>1, <2>2, <2>3
<1>3. begun' \in {begun, begun + 1} /\ begun' \in Recordings!Id /\ (fresh => begun' = begun + 1)
  BY <1>1, <1>2
<1>4. kept = [s \in Recording |-> kept[s]] /\ \A s \in Recording : kept[s] \in Entry
  BY Released DEF Recordings!releaseMedia
<1> HIDE DEF kept, fresh
<1>5. ASSUME NEW s \in Recording
      PROVE  /\ held'[s] = kept[s]
                \/ (s = r /\ ~fresh /\ held'[s] = [kept[s] EXCEPT !.used = TRUE])
                \/ (s = r /\ fresh /\ held'[s] = [read |-> begun + 1, url |-> 0, used |-> TRUE])
             /\ held'[s] \in Entry
  <2>1. held'[s] = kept[s]
                \/ (s = r /\ ~fresh /\ held'[s] = [kept[s] EXCEPT !.used = TRUE])
                \/ (s = r /\ fresh /\ held'[s] = [read |-> begun + 1, url |-> 0, used |-> TRUE])
    BY <1>1, <1>4
  <2> QED BY <2>1, <1>1, <1>2, <1>3, <1>4
<1>6. held' \in [Recording -> Entry]
  BY <1>1, <1>4, <1>5
<1>7. ASSUME NEW s \in Recording
      PROVE  \/ /\ held[s].used
                /\ held'[s].read = held[s].read /\ held'[s].url = held[s].url
             \/ ~held[s].used /\ held'[s].read = 0 /\ held'[s].url = 0
             \/ /\ s = r /\ begun' = begun + 1
                /\ held'[s].read = begun' /\ held'[s].url = 0
                /\ held[s].used => held[s].read = 0
  <2>1. CASE held'[s].read = kept[s].read /\ held'[s].url = kept[s].url
    BY <2>1, Released DEF kept
  <2>2. CASE s = r /\ fresh /\ held'[s] = [read |-> begun + 1, url |-> 0, used |-> TRUE]
    BY <2>2, <1>3, Released DEF fresh, kept
  <2> QED BY <1>4, <1>5, <2>1, <2>2
<1> QED BY <1>3, <1>6, <1>7


\* A redraw leaves every read without its element, but for the one it begins.
LEMMA ReadsRedrawn ==
  ASSUME Recordings!Bounds, Recordings!TypeOK,
         NEW r \in Recording \cup {Recordings!None}, NEW lens,
         Recordings!recording(r, lens)
  PROVE  /\ reads' \subseteq Read
         /\ \A read \in reads' :
              \/ /\ read.on = Recordings!Gone
                 /\ \E old \in reads : read = [old EXCEPT !.on = Recordings!Gone]
              \/ /\ begun' = begun + 1 /\ r \in Recording /\ ~(held[r].used /\ held[r].read # 0)
                 /\ held'[r].read = begun' /\ held'[r].url = 0
                 /\ read = [id |-> begun', of |-> r, on |-> IF lens THEN "qa" ELSE "summary"]
<1> DEFINE kept == Recordings!releaseMedia
           fresh == r # Recordings!None /\ kept[r].read = 0
           first == IF lens THEN "qa" ELSE "summary"
           new == [id |-> begun + 1, of |-> r, on |-> first]
<1>1. /\ reads' = {[read EXCEPT !.on = Recordings!Gone] : read \in reads} \cup (IF fresh THEN {new} ELSE {})
      /\ begun' = IF fresh THEN begun + 1 ELSE begun
      /\ held' = IF r = Recordings!None THEN kept
                 ELSE [kept EXCEPT ![r] = IF fresh THEN [read |-> begun + 1, url |-> 0, used |-> TRUE]
                                                   ELSE [@ EXCEPT !.used = TRUE]]
  BY DEF Recordings!recording
<1>2. reads \subseteq Read /\ begun' \in Recordings!Id
  BY Redrawn DEF Recordings!TypeOK, Read
<1>3. first \in Recordings!Pane
  BY DEF Recordings!Pane
<1>4. \A old \in reads : [old EXCEPT !.on = Recordings!Gone] \in Read
                         /\ [old EXCEPT !.on = Recordings!Gone].on = Recordings!Gone
  BY <1>2 DEF Read
<1>5. CASE fresh
  <2>1. r \in Recording /\ ~(held[r].used /\ held[r].read # 0)
    BY <1>5, Released
  <2>2. held'[r] = [read |-> begun + 1, url |-> 0, used |-> TRUE]
    BY <1>1, <1>5, <2>1 DEF Recordings!releaseMedia
  <2>3. new \in Read
    BY <1>1, <1>2, <1>3, <1>5, <2>1 DEF Read
  <2>4. held'[r].read = begun' /\ held'[r].url = 0 /\ begun' = begun + 1
    BY <1>1, <1>5, <2>2
  <2>5. new = [id |-> begun', of |-> r, on |-> first]
    BY <2>4
  <2>6. reads' = {[read EXCEPT !.on = Recordings!Gone] : read \in reads} \cup {new}
    BY <1>1, <1>5
  <2> HIDE DEF fresh, kept, new
  <2> QED BY <1>4, <2>1, <2>3, <2>4, <2>5, <2>6
<1>6. CASE ~fresh
  <2> HIDE DEF fresh, kept, new
  <2> QED BY <1>1, <1>4, <1>6
<1> QED BY <1>5, <1>6

\* What a redraw puts on a pane: nothing, or the recording with what is held of
\* it; an empty one was only just begun, or is drawn over another's read.
LEMMA PageRedrawn ==
  ASSUME Recordings!Bounds, Recordings!TypeOK,
         NEW r \in Recording \cup {Recordings!None}, NEW lens,
         Recordings!recording(r, lens)
  PROVE  /\ page' \in [Recordings!Pane -> Shown]
         /\ \A x \in Recordings!Pane :
              \/ page'[x].of = Recordings!None /\ page'[x].url = 0
              \/ /\ r \in Recording
                 /\ page'[x].url = 0 \/ (held[r].used /\ page'[x].url = held[r].url)
                 /\ page'[x].url = 0 /\ ~page'[x].late => \E read \in reads' : read.on = x
<1> DEFINE kept == Recordings!releaseMedia
           fresh == r # Recordings!None /\ kept[r].read = 0
           first == IF lens THEN "qa" ELSE "summary"
<1>1. fresh => \E read \in reads' : read.on = first
  <2>1. fresh => [id |-> begun + 1, of |-> r, on |-> first] \in reads'
    BY DEF Recordings!recording
  <2> QED BY <2>1
<1>2. 0 \in Recordings!Url
  BY DEF Recordings!Bounds, Recordings!Url, Recordings!Link
<1>3. ASSUME NEW x \in Recordings!Pane, x \notin Recordings!Drawn(r, lens)
      PROVE  page'[x] = [of |-> Recordings!None, url |-> 0, says |-> Recordings!None, late |-> FALSE]
  BY <1>3 DEF Recordings!Blank, Recordings!recording
<1>4. ASSUME NEW x \in Recordings!Pane, x \in Recordings!Drawn(r, lens)
      PROVE  r \in Recording
  BY <1>4 DEF Recordings!Drawn
<1>5. ASSUME r \in Recording
      PROVE  kept[r].url \in Recordings!Url /\ (kept[r].url = 0 \/ (held[r].used /\ kept[r].url = held[r].url))
  BY <1>5, Released
<1>6. ASSUME NEW x \in Recordings!Pane, x \in Recordings!Drawn(r, lens)
      PROVE  \/ page'[x] = [of |-> r, url |-> kept[r].url, says |-> Recordings!None, late |-> TRUE]
             \/ /\ page'[x] = [of |-> r, url |-> kept[r].url, says |-> Recordings!None, late |-> FALSE]
                /\ (fresh /\ x = first) \/ kept[r].url # 0
  <2>1. page'[x] = [of |-> r, url |-> kept[r].url, says |-> Recordings!None,
                    late |-> ~(fresh /\ x = first) /\ kept[r].url = 0]
    BY <1>6, Zenon DEF Recordings!recording
  <2> HIDE DEF kept, fresh, first
  <2>2. CASE (fresh /\ x = first) \/ kept[r].url # 0
    <3>1. (~(fresh /\ x = first) /\ kept[r].url = 0) = FALSE
      BY <2>2
    <3> QED BY <2>1, <2>2, <3>1, Zenon
  <2>3. CASE ~(fresh /\ x = first) /\ kept[r].url = 0
    <3>1. (~(fresh /\ x = first) /\ kept[r].url = 0) = TRUE
      BY <2>3
    <3> QED BY <2>1, <3>1, Zenon
  <2> QED BY <2>2, <2>3
<1>9. page' = [x \in Recordings!Pane |-> page'[x]]
  BY DEF Recordings!recording
<1> HIDE DEF kept, fresh, first
<1>7. ASSUME NEW x \in Recordings!Pane
      PROVE  /\ page'[x] \in Shown
             /\ \/ page'[x].of = Recordings!None /\ page'[x].url = 0
                \/ /\ r \in Recording /\ page'[x].url = kept[r].url
                   /\ page'[x].late \/ (fresh /\ x = first) \/ page'[x].url # 0
  <2>1. CASE x \notin Recordings!Drawn(r, lens)
    <3>1. page'[x] = [of |-> Recordings!None, url |-> 0, says |-> Recordings!None, late |-> FALSE]
      BY <1>3, <2>1, Zenon
    <3>2. Recordings!None \in Recording \cup {Recordings!None}
      OBVIOUS
    <3>3. page'[x] \in Shown /\ page'[x].of = Recordings!None /\ page'[x].url = 0
      BY <1>2, <3>1, <3>2 DEF Shown
    <3> QED BY <3>3, Zenon
  <2>2. CASE x \in Recordings!Drawn(r, lens)
    <3>1. r \in Recording /\ kept[r].url \in Recordings!Url
      BY <1>4, <1>5, <2>2
    <3>2. CASE page'[x] = [of |-> r, url |-> kept[r].url, says |-> Recordings!None, late |-> TRUE]
      <4>1. page'[x] \in Shown /\ page'[x].url = kept[r].url /\ page'[x].late
        BY <3>1, <3>2 DEF Shown
      <4> QED BY <3>1, <4>1, Zenon
    <3>3. CASE /\ page'[x] = [of |-> r, url |-> kept[r].url, says |-> Recordings!None, late |-> FALSE]
               /\ (fresh /\ x = first) \/ kept[r].url # 0
      <4>1. page'[x] \in Shown /\ page'[x].url = kept[r].url
        BY <3>1, <3>3 DEF Shown
      <4> QED BY <3>1, <3>3, <4>1, Zenon
    <3> QED BY <1>6, <2>2, <3>2, <3>3, Zenon
  <2> QED BY <2>1, <2>2, Zenon
<1>8. ASSUME NEW x \in Recordings!Pane
      PROVE  \/ page'[x].of = Recordings!None /\ page'[x].url = 0
             \/ /\ r \in Recording
                /\ page'[x].url = 0 \/ (held[r].used /\ page'[x].url = held[r].url)
                /\ page'[x].url = 0 /\ ~page'[x].late => \E read \in reads' : read.on = x
  BY <1>1, <1>5, <1>7, Zenon
<1> QED
  <2>1. \A x \in Recordings!Pane : page'[x] \in Shown
    BY <1>7
  <2>2. page' \in [Recordings!Pane -> Shown]
    BY <1>9, <2>1
  <2> QED BY <1>8, <2>2

\* A redraw begins the reads it lacks, each of its own number, and gives back
\* what is no longer on the page.
LEMMA DrawKeeps ==
  ASSUME Recordings!Bounds, RecordingsInv,
         NEW r \in Recording \cup {Recordings!None}, NEW lens \in BOOLEAN,
         Recordings!Draw(r, lens)
  PROVE  RecordingsInv'
<1>0. Recordings!TypeOK /\ Recordings!recording(r, lens)
  BY DEF RecordingsInv, Recordings!Draw
<1>1. /\ MaxReads \in Nat /\ Recordings!Id = 0..MaxReads /\ Recordings!Link = MaxReads + 1
      /\ Recordings!Url = 0..(MaxReads + 1)
  BY DEF Recordings!Bounds, Recordings!Id, Recordings!Link, Recordings!Url
<1>2. /\ held' \in [Recording -> Entry]
      /\ begun \in 0..MaxReads /\ begun' \in {begun, begun + 1} /\ begun' \in 0..MaxReads
      /\ \A s \in Recording :
           \/ held[s].used /\ held'[s].read = held[s].read /\ held'[s].url = held[s].url
           \/ ~held[s].used /\ held'[s].read = 0 /\ held'[s].url = 0
           \/ /\ s = r /\ begun' = begun + 1 /\ held'[s].read = begun' /\ held'[s].url = 0
              /\ held[s].used => held[s].read = 0
  BY <1>0, <1>1, Redrawn DEF Entry, RecordingsInv, Numbered
<1>3. reads' \subseteq Read
  BY <1>0, ReadsRedrawn
<1>4. page' \in [Recordings!Pane -> Shown]
  BY <1>0, PageRedrawn
<1>5. alive' \subseteq alive /\ taken' = taken /\ cut \subseteq cut'
  BY DEF Recordings!Draw
<1>6. \A s \in Recording : ~held[s].used /\ held[s].read # 0 =>
        /\ held[s].url # 0 => held[s].url \notin alive'
        /\ held[s].url = 0 => held[s].read \in cut'
  BY DEF Recordings!Draw, Recordings!Released, Recordings!Keeps, Recordings!IsHeld
<1>7. \A a \in alive : a \in alive' \/ \E s \in Recording : ~held[s].used /\ held[s].read # 0 /\ a = held[s].url
  BY DEF Recordings!Draw, Recordings!Released, Recordings!Keeps, Recordings!IsHeld
<1>8. Recordings!TypeOK'
  <2>1. cut' \subseteq Recordings!Id
    <3>1. \A s \in Recording : held[s].read \in Recordings!Id
      BY <1>0, EntryType
    <3> QED BY <3>1, <1>0 DEF Recordings!Draw, Recordings!TypeOK
  <2>2. alive' \subseteq Recordings!Id /\ taken' \subseteq Recordings!Id
    BY <1>0, <1>5 DEF Recordings!TypeOK
  <2>3. open' \in Recording \cup {Recordings!None} /\ filtered' \in BOOLEAN
    BY DEF Recordings!Draw
  <2> QED BY <1>1, <1>2, <1>3, <1>4, <2>1, <2>2, <2>3 DEF Recordings!TypeOK, Entry, Read, Shown
<1>9. Numbered /\ OneOwner /\ Awaited /\ NoneHeldGone /\ Recordings!GivenBack
  BY DEF RecordingsInv
<1>10. Numbered'
  <2>1. \A read \in reads : read \in Read
    BY <1>0 DEF Recordings!TypeOK, Read
  <2>2. \A read \in reads' :
           \/ \E old \in reads : read = [old EXCEPT !.on = Recordings!Gone]
           \/ begun' = begun + 1 /\ read = [id |-> begun', of |-> r, on |-> IF lens THEN "qa" ELSE "summary"]
    BY <1>0, ReadsRedrawn
  <2> QED BY <1>2, <1>5, <1>9, <2>1, <2>2 DEF Numbered, Read
<1>11. OneOwner'
  BY <1>1, <1>2, <1>9 DEF OneOwner
<1>12. NoneHeldGone'
  BY <1>1, <1>2, <1>7, <1>9 DEF OneOwner, NoneHeldGone, Numbered
<1>13. Awaited'
  <2>1. ASSUME NEW old \in reads
        PROVE  /\ held'[old.of].read = old.id => held'[old.of].url = 0
               /\ held'[old.of].read = old.id \/ old.id \in cut' \cup taken'
    <3>1. old.of \in Recording /\ old.id \in 1..begun
      BY <1>0, <1>9 DEF Recordings!TypeOK, Numbered
    <3>2. /\ held[old.of].read = old.id => held[old.of].url = 0
          /\ held[old.of].read = old.id \/ old.id \in cut \cup taken
      BY <1>9 DEF Awaited
    <3> QED BY <1>1, <1>2, <1>5, <1>6, <3>1, <3>2
  <2>2. ASSUME NEW read \in reads'
        PROVE  \/ \E old \in reads : read.of = old.of /\ read.id = old.id
               \/ held'[read.of].read = read.id /\ held'[read.of].url = 0
    <3>1. CASE \E old \in reads : read = [old EXCEPT !.on = Recordings!Gone]
      BY <1>0, <3>1 DEF Recordings!TypeOK
    <3>2. CASE /\ held'[r].read = begun' /\ held'[r].url = 0
               /\ read = [id |-> begun', of |-> r, on |-> IF lens THEN "qa" ELSE "summary"]
      BY <3>2
    <3> QED BY <1>0, <3>1, <3>2, ReadsRedrawn
  <2> QED BY <2>1, <2>2 DEF Awaited
<1>14. Recordings!GivenBack'
  <2>1. ASSUME NEW a \in alive', a \notin cut' \cup taken'
        PROVE  \E s \in Recording : held'[s].url = a
    <3>1. a \in alive /\ a \in 1..MaxReads
      BY <1>5, <1>9 DEF Numbered
    <3>2. PICK s \in Recording : held[s].url = a
      BY <1>5, <1>9, <2>1, <3>1 DEF Recordings!GivenBack
    <3>3. held[s].read # 0
      BY <1>9, <3>1, <3>2 DEF OneOwner
    <3>4. held[s].used
      BY <1>6, <2>1, <3>1, <3>2, <3>3
    <3> QED BY <1>2, <3>2, <3>3, <3>4
  <2> QED BY <2>1 DEF Recordings!GivenBack
<1>15. Recordings!NoneShownGone'
  <2>1. ASSUME NEW x \in Recordings!Pane
        PROVE  page'[x].url \in alive' \cup {0, Recordings!Link}
    <3>1. CASE page'[x].url # 0
      <4>1. r \in Recording /\ held[r].used /\ page'[x].url = held[r].url
        BY <1>0, <3>1, PageRedrawn
      <4>2. held[r].url \in alive \cup {0, Recordings!Link}
        BY <1>9, <4>1 DEF NoneHeldGone
      <4>3. ASSUME NEW s \in Recording, held[s].url = held[r].url, held[r].url \in 1..MaxReads
            PROVE  s = r
        BY <1>1, <1>9, <4>1, <4>3 DEF OneOwner
      <4>4. held[r].url \in alive => held[r].url \in alive'
        BY <1>7, <1>9, <4>1, <4>3 DEF Numbered
      <4> QED BY <4>1, <4>2, <4>4
    <3> QED BY <3>1
  <2> QED BY <2>1 DEF Recordings!NoneShownGone, Recordings!Link
<1>16. Recordings!NoneStaysEmpty'
  BY <1>0, PageRedrawn DEF Recordings!NoneStaysEmpty
<1> QED BY <1>8, <1>10, <1>11, <1>12, <1>13, <1>14, <1>15, <1>16 DEF RecordingsInv

\* A recording that comes, through a URL or as a link.
LEMMA ComesKeeps ==
  ASSUME Recordings!Bounds, RecordingsInv, NEW read \in reads,
         NEW url \in {read.id, Recordings!Link}, Recordings!Comes(read, url),
         alive' = IF url = read.id THEN alive \cup {read.id} ELSE alive
  PROVE  RecordingsInv'
<1>0. Recordings!TypeOK /\ Numbered /\ OneOwner /\ Awaited /\ NoneHeldGone
      /\ Recordings!GivenBack /\ Recordings!NoneShownGone /\ Recordings!NoneStaysEmpty
  BY DEF RecordingsInv
<1>1. /\ MaxReads \in Nat /\ Recordings!Id = 0..MaxReads /\ Recordings!Link = MaxReads + 1
      /\ Recordings!Url = 0..(MaxReads + 1)
  BY DEF Recordings!Bounds, Recordings!Id, Recordings!Link, Recordings!Url
<1>2. /\ read \in Read /\ read.of \in Recording /\ read.id \in 1..begun /\ read.id \in 1..MaxReads
      /\ begun \in 0..MaxReads /\ read.on \in Recordings!Pane \cup {Recordings!Gone}
  BY <1>0, <1>1 DEF Recordings!TypeOK, Numbered, Read
<1>3. /\ reads' = reads \ {read}
      /\ held' = IF Recordings!Owns(read) THEN [held EXCEPT ![read.of].url = url] ELSE held
      /\ page' = Recordings!Shows(read, [page[read.on] EXCEPT !.url = url])
      /\ open' = open /\ filtered' = filtered /\ begun' = begun /\ cut' = cut /\ taken' = taken
  BY DEF Recordings!Comes
<1>4. held \in [Recording -> Entry] /\ page \in [Recordings!Pane -> Shown]
  BY <1>0 DEF Recordings!TypeOK, Entry, Shown
<1>5. url \in Recordings!Url /\ url # 0
  BY <1>1, <1>2
<1>6. /\ held' \in [Recording -> Entry]
      /\ \A s \in Recording : held'[s].read = held[s].read
      /\ \A s \in Recording : held'[s].url = held[s].url
           \/ (s = read.of /\ held[s].read = read.id /\ held[s].url = 0 /\ held'[s].url = url)
      /\ held[read.of].read = read.id => held'[read.of].url = url
  BY <1>0, <1>2, <1>3, <1>4, <1>5 DEF Recordings!Owns, Entry, Awaited
<1>7. /\ page' \in [Recordings!Pane -> Shown]
      /\ \A x \in Recordings!Pane : (page'[x] = page[x] /\ x # read.on) \/ page'[x].url = url
  BY <1>2, <1>3, <1>4, <1>5 DEF Recordings!Shows, Recordings!Gone, Recordings!Pane, Shown
<1>8. Recordings!TypeOK'
  <2>1. alive' \subseteq Recordings!Id
    BY <1>0, <1>1, <1>2 DEF Recordings!TypeOK
  <2> QED BY <1>0, <1>3, <1>6, <1>7, <2>1 DEF Recordings!TypeOK, Entry, Shown
<1>9. Numbered'
  BY <1>0, <1>2, <1>3 DEF Numbered
<1>10. OneOwner'
  BY <1>0, <1>1, <1>2, <1>3, <1>6 DEF OneOwner
<1>11. Awaited'
  <2>1. ASSUME NEW other \in reads, other # read
        PROVE  /\ held'[other.of].read = other.id => held'[other.of].url = 0
               /\ held'[other.of].read = other.id \/ other.id \in cut \cup taken
    <3>1. other.of \in Recording /\ other.id # read.id
      BY <1>0, <2>1 DEF Recordings!TypeOK, Numbered
    <3> QED BY <1>0, <1>6, <3>1 DEF Awaited
  <2> QED BY <1>3, <2>1 DEF Awaited
<1>12. NoneHeldGone'
  BY <1>0, <1>6 DEF NoneHeldGone
<1>13. Recordings!GivenBack'
  <2>1. ASSUME NEW a \in alive', a \notin cut \cup taken
        PROVE  \E s \in Recording : held'[s].url = a
    <3>1. CASE a \in alive
      <4>1. PICK s \in Recording : held[s].url = a
        BY <1>0, <2>1, <3>1 DEF Recordings!GivenBack
      <4>2. a # 0
        BY <1>0, <3>1 DEF Numbered
      <4> QED BY <1>6, <4>1, <4>2
    <3>2. CASE a = read.id /\ url = read.id
      BY <1>0, <1>2, <1>6, <2>1, <3>2 DEF Awaited
    <3> QED BY <2>1, <3>1, <3>2
  <2> QED BY <1>3, <2>1 DEF Recordings!GivenBack
<1>14. Recordings!NoneShownGone'
  BY <1>0, <1>1, <1>7 DEF Recordings!NoneShownGone, Recordings!Link
<1>15. Recordings!NoneStaysEmpty'
  BY <1>0, <1>3, <1>5, <1>7 DEF Recordings!NoneStaysEmpty
<1> QED BY <1>8, <1>9, <1>10, <1>11, <1>12, <1>13, <1>14, <1>15 DEF RecordingsInv

\* A read that ends in nothing takes the entry under its name along.
LEMMA FailsKeeps ==
  ASSUME Recordings!Bounds, RecordingsInv, Recordings!Fails
  PROVE  RecordingsInv'
<1>0. Recordings!TypeOK /\ Numbered /\ OneOwner /\ Awaited /\ NoneHeldGone
      /\ Recordings!GivenBack /\ Recordings!NoneShownGone /\ Recordings!NoneStaysEmpty
  BY DEF RecordingsInv
<1>1. /\ MaxReads \in Nat /\ Recordings!Id = 0..MaxReads /\ Recordings!Link = MaxReads + 1
      /\ Recordings!Url = 0..(MaxReads + 1)
  BY DEF Recordings!Bounds, Recordings!Id, Recordings!Link, Recordings!Url
<1>2. PICK read \in reads, says \in {"missing", "unread"} :
        /\ reads' = reads \ {read}
        /\ held' = [held EXCEPT ![read.of] = Recordings!NotHeld]
        /\ taken' = taken \cup (IF Recordings!Owns(read) THEN {} ELSE {held[read.of].read} \ {0})
        /\ page' = Recordings!Shows(read, [of |-> read.of, url |-> 0, says |-> says, late |-> FALSE])
        /\ UNCHANGED <<open, filtered, begun, alive, cut>>
  BY DEF Recordings!Fails
<1>3. /\ read \in Read /\ read.of \in Recording /\ read.id \in 1..begun
      /\ begun \in 0..MaxReads /\ read.on \in Recordings!Pane \cup {Recordings!Gone}
  BY <1>0, <1>1 DEF Recordings!TypeOK, Numbered, Read
<1>4. held \in [Recording -> Entry] /\ page \in [Recordings!Pane -> Shown]
  BY <1>0 DEF Recordings!TypeOK, Entry, Shown
<1>5. /\ held' \in [Recording -> Entry]
      /\ \A s \in Recording : s # read.of => held'[s] = held[s]
      /\ held'[read.of].read = 0 /\ held'[read.of].url = 0
  BY <1>1, <1>2, <1>3, <1>4 DEF Recordings!NotHeld, Entry
<1>6. /\ page' \in [Recordings!Pane -> Shown]
      /\ \A x \in Recordings!Pane :
           \/ page'[x] = page[x] /\ x # read.on
           \/ page'[x].url = 0 /\ page'[x].says # Recordings!None
  <2>1. says # Recordings!None
    BY DEF Recordings!None
  <2> QED BY <1>1, <1>2, <1>3, <1>4, <2>1 DEF Recordings!Shows, Recordings!Gone, Recordings!Pane, Shown
<1>7. read.id \in taken' \cup cut' \/ held[read.of].read = read.id
  BY <1>0, <1>2 DEF Awaited
<1>8. Recordings!TypeOK'
  <2>1. held[read.of].read \in Recordings!Id
    BY <1>0, <1>3, EntryType
  <2>2. taken' \subseteq Recordings!Id
    BY <1>0, <1>2, <2>1 DEF Recordings!TypeOK
  <2> QED BY <1>0, <1>2, <1>5, <1>6, <2>2 DEF Recordings!TypeOK, Entry, Shown
<1>9. Numbered'
  BY <1>0, <1>2 DEF Numbered
<1>10. OneOwner'
  BY <1>0, <1>1, <1>2, <1>3, <1>5 DEF OneOwner
<1>11. Awaited'
  <2>1. ASSUME NEW other \in reads, other # read
        PROVE  /\ held'[other.of].read = other.id => held'[other.of].url = 0
               /\ held'[other.of].read = other.id \/ other.id \in cut' \cup taken'
    <3>1. other.of \in Recording /\ other.id # read.id /\ other.id \in 1..begun
      BY <1>0, <2>1 DEF Recordings!TypeOK, Numbered
    <3>2. CASE other.of # read.of
      BY <1>0, <1>2, <1>5, <3>1, <3>2 DEF Awaited
    <3>3. CASE other.of = read.of
      BY <1>0, <1>2, <1>3, <1>5, <3>1, <3>3 DEF Awaited, Recordings!Owns
    <3> QED BY <3>2, <3>3
  <2> QED BY <1>2, <2>1 DEF Awaited
<1>12. NoneHeldGone'
  BY <1>0, <1>2, <1>5 DEF NoneHeldGone, Recordings!Link
<1>13. Recordings!GivenBack'
  <2>1. ASSUME NEW a \in alive, a \notin cut \cup taken'
        PROVE  \E s \in Recording : held'[s].url = a
    <3>1. PICK s \in Recording : held[s].url = a
      BY <1>0, <1>2, <2>1 DEF Recordings!GivenBack
    <3>2. a # 0 /\ a \in 1..MaxReads /\ held[s].read = a
      BY <1>0, <1>1, <3>1 DEF Numbered, OneOwner
    <3>3. s # read.of
      BY <1>0, <1>2, <2>1, <3>1, <3>2 DEF Awaited, Recordings!Owns
    <3> QED BY <1>5, <3>1, <3>3
  <2> QED BY <1>2, <2>1 DEF Recordings!GivenBack
<1>14. Recordings!NoneShownGone'
  BY <1>0, <1>2, <1>6 DEF Recordings!NoneShownGone, Recordings!Link
<1>15. Recordings!NoneStaysEmpty'
  BY <1>0, <1>2, <1>6 DEF Recordings!NoneStaysEmpty
<1> QED BY <1>8, <1>9, <1>10, <1>11, <1>12, <1>13, <1>14, <1>15 DEF RecordingsInv

\* A redraw, an answer, a failure and a way out, one after another.
LEMMA RecordingsInvStep ==
  ASSUME Recordings!Bounds, RecordingsInv, Recordings!Next
  PROVE  RecordingsInv'
<1>0. open \in Recording \cup {Recordings!None} /\ filtered \in BOOLEAN
  BY DEF RecordingsInv, Recordings!TypeOK
<1>1. CASE Recordings!Redraw
  BY <1>0, <1>1, DrawKeeps DEF Recordings!Redraw
<1>2. CASE Recordings!Open
  BY <1>2, DrawKeeps DEF Recordings!Open
<1>3. CASE Recordings!ToggleFilter
  BY <1>0, <1>3, DrawKeeps DEF Recordings!ToggleFilter
<1>4. CASE Recordings!Media
  BY <1>4, ComesKeeps DEF Recordings!Media
<1>5. CASE Recordings!Streamed
  <2>1. PICK read \in reads : Recordings!Comes(read, Recordings!Link) /\ UNCHANGED alive
    BY <1>5 DEF Recordings!Streamed
  <2>2. read.id # Recordings!Link
    BY DEF RecordingsInv, Numbered, Recordings!Link, Recordings!Bounds
  <2> QED BY <2>1, <2>2, ComesKeeps
<1>6. CASE Recordings!Fails
  BY <1>6, FailsKeeps
<1> QED BY <1>1, <1>2, <1>3, <1>4, <1>5, <1>6 DEF Recordings!Next

\* A page starts with nothing read.
LEMMA RecordingsInvInit ==
  ASSUME Recordings!Bounds, Recordings!Init PROVE RecordingsInv
<1>1. 0 \in Recordings!Id /\ 0 \in Recordings!Url /\ MaxReads \in Nat
  <2>1. MaxReads \in Nat /\ Recordings!Id = 0..MaxReads /\ Recordings!Url = 0..(MaxReads + 1)
    BY DEF Recordings!Bounds, Recordings!Id, Recordings!Url, Recordings!Link
  <2> QED BY <2>1
<1>2. Recordings!TypeOK
  BY <1>1 DEF Recordings!Init, Recordings!TypeOK, Recordings!NotHeld, Recordings!Blank
<1>3. Numbered /\ OneOwner /\ Awaited /\ NoneHeldGone
  BY <1>1 DEF Recordings!Init, Numbered, OneOwner, Awaited, NoneHeldGone, Recordings!NotHeld
<1>4. Recordings!GivenBack /\ Recordings!NoneShownGone /\ Recordings!NoneStaysEmpty
  BY DEF Recordings!Init, Recordings!GivenBack, Recordings!NoneShownGone, Recordings!NoneStaysEmpty,
     Recordings!Blank
<1> QED BY <1>2, <1>3, <1>4 DEF RecordingsInv

\* What holds of the recordings is about their variables alone.
LEMMA RecordingsInvStutter ==
  ASSUME RecordingsInv, UNCHANGED Recordings!vars PROVE RecordingsInv'
BY DEF Recordings!vars, RecordingsInv, Recordings!TypeOK, Numbered, OneOwner, Awaited, NoneHeldGone,
   Recordings!GivenBack, Recordings!NoneShownGone, Recordings!NoneStaysEmpty

\* The invariant says what recordings promise.
LEMMA RecordingsInvMeans ==
  RecordingsInv => Recordings!GivenBack /\ Recordings!NoneShownGone /\ Recordings!NoneStaysEmpty
BY DEF RecordingsInv

\* The recordings on a page are held, read and given back, for any recordings
\* and any number of reads: an object URL that holds its bytes has an owner
\* that will give it back or was let go too early, nothing on the page was
\* given back, and an empty recording is being read (qa.js).
THEOREM RecordingsAreHeld ==
  ASSUME Recordings!Bounds
  PROVE  Recordings!Spec =>
           [](Recordings!GivenBack /\ Recordings!NoneShownGone /\ Recordings!NoneStaysEmpty)
<1>1. Recordings!Init => RecordingsInv
  BY RecordingsInvInit
<1>2. RecordingsInv /\ [Recordings!Next]_Recordings!vars => RecordingsInv'
  BY RecordingsInvStep, RecordingsInvStutter
<1> QED BY <1>1, <1>2, RecordingsInvMeans, PTL DEF Recordings!Spec

-------------------------------------------------------------------------------
(* The screen (Reading).                                                     *)

\* A filter, and what the application is looking at.
Filter == {Reading!None, "lens", "clean", "theme"} \cup Reading!Path
Looking ==
  [source : {"here", "away", Reading!None}, destination : {"open", "refused", "none"},
   problem : BOOLEAN, selected : Listed \cup {Reading!None},
   tab : {"summary", "diff", "description", "qa"}, filter : Filter,
   files : SUBSET Reading!Path, refused : BOOLEAN, opened : BOOLEAN]
Draft == [is : {Reading!None, "unread", "held"}, done : BOOLEAN, full : BOOLEAN, stamp : 0..MaxDrafts]

ScreenTypes ==
  /\ app \in Looking
  /\ drafts \in [Listed -> Draft]
  /\ marks \in [Listed -> Reading!Marks]
  /\ flagged \in BOOLEAN /\ closed \in BOOLEAN /\ moved \in BOOLEAN
  /\ written \in 1..MaxDrafts /\ turns \in 0..MaxTurns

\* What a pane shows is there: the files were asked for with the item, and a
\* filter or a tab of the draft was pressed where the draft had it.
ShowsWhatIs(a, d, c, m) ==
  /\ a.selected = Reading!None /\ a.tab # "summary" => c
  /\ a.selected # Reading!None /\ a.destination = "open" /\ ~a.refused => "g" \in a.files
  /\ a.selected # Reading!None /\ a.destination # "open" => a.files = {}
  /\ a.selected # Reading!None /\ a.tab = "diff" => a.destination = "open"
  /\ a.tab = "summary" => a.filter \notin Reading!Path
  /\ \/ m
     \/ a.selected = Reading!None
     \/ d[a.selected].is = "held" /\ d[a.selected].full
     \/ a.tab = "diff"
     \/ a.tab = "summary" /\ a.filter \notin {"lens", "theme"}

ScreenInv == ScreenTypes /\ ShowsWhatIs(app, drafts, closed, moved)

\* What an item opens onto is all its own, whatever was kept so far.
LEMMA OpenedShows ==
  ASSUME Reading!Bounds, NEW a \in Looking, NEW p \in Listed, NEW b \in Reading!Opened(a, p),
         NEW d, NEW c \in BOOLEAN, NEW m \in BOOLEAN, NEW o \in BOOLEAN
  PROVE  /\ b \in Looking /\ ShowsWhatIs(b, d, c, m)
         /\ [b EXCEPT !.opened = o] \in Looking /\ ShowsWhatIs([b EXCEPT !.opened = o], d, c, m)
<1>1. PICK answer \in (IF a.destination = "open" THEN Reading!Answer ELSE {Reading!NoFiles(FALSE)}) :
        b = [a EXCEPT !.selected = p, !.files = answer.files, !.refused = answer.refused,
                      !.filter = Reading!None, !.tab = "summary"]
  BY Zenon DEF Reading!Opened
<1>2. /\ answer.files \in SUBSET Reading!Path /\ answer.refused \in BOOLEAN
      /\ a.destination = "open" /\ ~answer.refused => "g" \in answer.files
      /\ a.destination # "open" => answer.files = {}
  <2>1. CASE a.destination = "open"
    <3>1. answer \in Reading!Answer
      BY <1>1, <2>1
    <3>2. CASE answer = [files |-> {}, refused |-> TRUE]
      BY <2>1, <3>2
    <3>3. ASSUME NEW files \in {{"g"}, Reading!Path}, answer = [files |-> files, refused |-> FALSE]
          PROVE  answer.files \in SUBSET Reading!Path /\ answer.refused \in BOOLEAN /\ "g" \in answer.files
      BY <3>3 DEF Reading!Path
    <3> QED BY <2>1, <3>1, <3>2, <3>3 DEF Reading!Answer, Reading!NoFiles
  <2>2. CASE a.destination # "open"
    <3>1. answer = [files |-> {}, refused |-> FALSE]
      BY <1>1, <2>2, Zenon DEF Reading!NoFiles
    <3> QED BY <2>2, <3>1
  <2> QED BY <2>1, <2>2
<1>3. DEFINE b1 == [a EXCEPT !.selected = p]
             b2 == [b1 EXCEPT !.files = answer.files]
             b3 == [b2 EXCEPT !.refused = answer.refused]
             b4 == [b3 EXCEPT !.filter = Reading!None]
             b5 == [b4 EXCEPT !.tab = "summary"]
             b6 == [b EXCEPT !.opened = o]
<1>4. b1 \in Looking /\ b1.selected = p /\ b1.destination = a.destination
  BY DEF Looking
<1>. HIDE DEF b1
<1>5. b2 \in Looking /\ b2.selected = p /\ b2.destination = a.destination /\ b2.files = answer.files
  BY <1>2, <1>4 DEF Looking
<1>. HIDE DEF b2
<1>6. /\ b3 \in Looking /\ b3.selected = p /\ b3.destination = a.destination
      /\ b3.files = answer.files /\ b3.refused = answer.refused
  BY <1>2, <1>5 DEF Looking
<1>. HIDE DEF b3
<1>7. /\ b4 \in Looking /\ b4.selected = p /\ b4.destination = a.destination
      /\ b4.files = answer.files /\ b4.refused = answer.refused /\ b4.filter = Reading!None
  BY <1>6 DEF Looking, Filter
<1>. HIDE DEF b4
<1>8. /\ b5 \in Looking /\ b5.selected = p /\ b5.destination = a.destination
      /\ b5.files = answer.files /\ b5.refused = answer.refused /\ b5.filter = Reading!None
      /\ b5.tab = "summary"
  BY <1>7 DEF Looking
<1>. HIDE DEF b5
<1>9. b = b5
  BY <1>1 DEF b1, b2, b3, b4, b5
<1>10. /\ b6 \in Looking /\ b6.selected = p /\ b6.destination = a.destination
       /\ b6.files = answer.files /\ b6.refused = answer.refused /\ b6.filter = Reading!None
       /\ b6.tab = "summary"
  BY <1>8, <1>9 DEF Looking
<1>. HIDE DEF b6
<1>11. p # Reading!None /\ Reading!None \notin Reading!Path /\ Reading!None \notin {"lens", "theme"}
  BY DEF Reading!Bounds, Reading!None, Reading!Path
<1>12. ShowsWhatIs(b, d, c, m)
  BY <1>2, <1>8, <1>9, <1>11 DEF ShowsWhatIs
<1>13. ShowsWhatIs(b6, d, c, m)
  BY <1>2, <1>10, <1>11 DEF ShowsWhatIs
<1> QED BY <1>8, <1>9, <1>10, <1>12, <1>13 DEF b6

\* A redraw leaves what is shown as it is, or opens an item over nothing.
LEMMA RedrawShows ==
  ASSUME Reading!Bounds, NEW a \in Looking, Reading!Redraw(a),
         closed' \in BOOLEAN, moved' \in BOOLEAN, ShowsWhatIs(a, drafts', closed', moved')
  PROVE  app' \in Looking /\ ShowsWhatIs(app', drafts', closed', moved')
<1>1. CASE app' = a
  BY <1>1
<1>2. CASE app' # a
  <2>1. PICK p \in Reading!ready' :
          \E b \in Reading!Opened(a, p) : app' = [b EXCEPT !.opened = TRUE]
    BY <1>2 DEF Reading!Redraw
  <2>2. p \in Listed
    BY <2>1 DEF Reading!ready, Reading!Waiting
  <2>3. PICK b \in Reading!Opened(a, p) : app' = [b EXCEPT !.opened = TRUE]
    BY <2>1
  <2> QED BY <2>2, <2>3, OpenedShows, Zenon
<1> QED BY <1>1, <1>2

\* A mark of the log is changed one field at a time.
LEMMA MarksType ==
  ASSUME NEW m \in [Listed -> Reading!Marks], NEW p \in Listed
  PROVE  /\ \A b \in BOOLEAN : [m EXCEPT ![p].posted = b] \in [Listed -> Reading!Marks]
         /\ \A b \in BOOLEAN : [m EXCEPT ![p].dismissed = b] \in [Listed -> Reading!Marks]
         /\ \A n \in 0..MaxDrafts : [m EXCEPT ![p].seen = n] \in [Listed -> Reading!Marks]
<1>1. m[p] \in Reading!Marks
  OBVIOUS
<1>2. \A b \in BOOLEAN : [m[p] EXCEPT !.posted = b] \in Reading!Marks
  BY <1>1 DEF Reading!Marks
<1>3. \A b \in BOOLEAN : [m[p] EXCEPT !.dismissed = b] \in Reading!Marks
  BY <1>1 DEF Reading!Marks
<1>4. \A n \in 0..MaxDrafts : [m[p] EXCEPT !.seen = n] \in Reading!Marks
  BY <1>1 DEF Reading!Marks
<1> QED BY <1>2, <1>3, <1>4

\* What the agent writes is a draft.
LEMMA WrittenType ==
  ASSUME NEW kind \in Reading!Kind, NEW stamp \in 0..MaxDrafts
  PROVE  Reading!Written(kind[1], kind[2], stamp) \in Draft
<1>1. kind[1] \in BOOLEAN /\ kind[2] \in BOOLEAN
  <2>1. kind = <<FALSE, FALSE>> \/ kind = <<TRUE, FALSE>> \/ kind = <<TRUE, TRUE>>
    BY DEF Reading!Kind
  <2>2. ASSUME NEW done \in BOOLEAN, NEW full \in BOOLEAN, kind = <<done, full>>
        PROVE  kind[1] \in BOOLEAN /\ kind[2] \in BOOLEAN
    <3>1. kind[1] = done /\ kind[2] = full
      BY <2>2
    <3> QED BY <3>1, Zenon
  <2> QED BY <2>1, <2>2, Zenon
<1> QED BY <1>1 DEF Reading!Written, Draft

\* A dismissal, and one of what was posted, are marks.
LEMMA DismissesType ==
  ASSUME marks \in [Listed -> Reading!Marks], drafts \in [Listed -> Draft], NEW p \in Listed
  PROVE  /\ Reading!Dismisses(p) \in [Listed -> Reading!Marks]
         /\ [Reading!Dismisses(p) EXCEPT ![p].posted = TRUE] \in [Listed -> Reading!Marks]
<1> DEFINE m1 == [marks EXCEPT ![p].dismissed = TRUE]
           m2 == [m1 EXCEPT ![p].seen = drafts[p].stamp]
<1>1. m1 \in [Listed -> Reading!Marks]
  BY MarksType
<1>2. drafts[p].stamp \in 0..MaxDrafts
  BY DEF Draft
<1>3. Reading!Dismisses(p) = m2
  BY DEF Reading!Dismisses
<1> HIDE DEF m1
<1>4. m2 \in [Listed -> Reading!Marks]
  BY <1>1, <1>2, MarksType
<1> HIDE DEF m2
<1>5. [m2 EXCEPT ![p].posted = TRUE] \in [Listed -> Reading!Marks]
  BY <1>4, MarksType
<1> QED BY <1>3, <1>4, <1>5

\* The screen a step leaves is a redraw of what it leaves, and shows what is.
Goal ==
  \E a \in Looking :
    /\ Reading!Redraw(a) /\ ShowsWhatIs(a, drafts', closed', moved')
    /\ drafts' \in [Listed -> Draft] /\ marks' \in [Listed -> Reading!Marks]
    /\ flagged' \in BOOLEAN /\ closed' \in BOOLEAN /\ moved' \in BOOLEAN
    /\ written' \in 1..MaxDrafts /\ turns' \in 0..MaxTurns

\* Every step is a redraw of what shows what is.
LEMMA EveryStepDraws ==
  ASSUME Reading!Bounds, ScreenInv, Reading!Next
  PROVE  Goal
<1>0. /\ app \in Looking /\ drafts \in [Listed -> Draft] /\ marks \in [Listed -> Reading!Marks]
      /\ flagged \in BOOLEAN /\ closed \in BOOLEAN /\ moved \in BOOLEAN
      /\ written \in 1..MaxDrafts /\ turns \in 0..MaxTurns
      /\ ShowsWhatIs(app, drafts, closed, moved)
      /\ MaxDrafts \in Nat \ {0} /\ MaxTurns \in Nat /\ Reading!None \notin Listed
  BY DEF ScreenInv, ScreenTypes, Reading!Bounds
<1>a. app.selected \in Listed \cup {Reading!None} /\ app.tab \in {"summary", "diff", "description", "qa"}
      /\ app.filter \in Filter /\ app.files \in SUBSET Reading!Path
  BY <1>0 DEF Looking
<1>b. Reading!None \notin Reading!Path /\ Reading!None \notin {"lens", "theme"}
  BY DEF Reading!None, Reading!Path
<1>1. ASSUME NEW p \in Listed, Reading!Open(p) PROVE Goal
  <2>1. PICK a \in Reading!Opened(app, p) : Reading!Redraw(a)
    BY <1>1 DEF Reading!Open
  <2>2. /\ UNCHANGED <<marks, flagged, drafts, written, turns>>
        /\ closed' = FALSE /\ moved' = FALSE
    BY <1>1 DEF Reading!Open, Reading!log, Reading!outside
  <2>3. a \in Looking /\ ShowsWhatIs(a, drafts', closed', moved')
    BY <1>0, <2>2, OpenedShows, Zenon
  <2> QED BY <1>0, <2>1, <2>2, <2>3 DEF Goal
<1>2. CASE Reading!PressRow
  <2>1. PICK row \in Reading!QueueRows : Reading!Open(row[1])
    BY <1>2 DEF Reading!PressRow
  <2>2. row[1] \in Listed
    BY <2>1 DEF Reading!QueueRows, Reading!queue, Reading!Here, Reading!Waiting
  <2> QED BY <1>1, <2>1, <2>2
<1>3. CASE Reading!Choose
  <2>1. PICK card \in Reading!Board : Reading!Open(card[1])
    BY <1>3 DEF Reading!Choose
  <2>2. card[1] \in Listed
    BY <2>1 DEF Reading!Board, Reading!dismissed, Reading!queue, Reading!Here, Reading!Waiting
  <2> QED BY <1>1, <2>1, <2>2
<1>4. CASE Reading!Arrive
  <2>1. Reading!Redraw(app) /\ UNCHANGED <<marks, flagged, drafts, written, turns, closed, moved>>
    BY <1>4 DEF Reading!Arrive, Reading!log, Reading!outside, Reading!excuses
  <2> QED BY <1>0, <2>1 DEF Goal
<1>5. CASE Reading!Show
  <2>1. PICK row \in Reading!Rail :
          Reading!Redraw([app EXCEPT !.tab = row.tab, !.filter = Reading!Picks(row.filter)])
    BY <1>5, Zenon DEF Reading!Show
  <2>2. UNCHANGED <<marks, flagged, drafts, written, turns, closed>> /\ moved' = FALSE
    BY <1>5 DEF Reading!Show, Reading!log, Reading!outside
  <2>3. /\ app.selected \in Listed
        /\ \/ row = [tab |-> "summary", filter |-> Reading!None]
           \/ /\ Reading!Full(app.selected)
              /\ \/ row \in {[tab |-> "summary", filter |-> l] : l \in {"lens", "clean", "theme"}}
                 \/ row \in {[tab |-> t, filter |-> Reading!None] : t \in {"description", "qa"}}
           \/ \E f \in app.files : row = [tab |-> "diff", filter |-> f]
    BY <1>a, <2>1 DEF Reading!Rail, Reading!Sections, Reading!Kinds, Reading!Files, Reading!Row
  <2>4. row.tab \in {"summary", "diff", "description", "qa"} /\ row.filter \in Filter
    BY <1>a, <2>3 DEF Filter
  <2>5. Reading!Picks(row.filter) \in {row.filter, Reading!None} /\ Reading!Picks(row.filter) \in Filter
    BY <2>4 DEF Reading!Picks, Filter
  <2> DEFINE a1 == [app EXCEPT !.tab = row.tab]
             a2 == [a1 EXCEPT !.filter = Reading!Picks(row.filter)]
  <2>6. /\ a1 \in Looking /\ a1.tab = row.tab /\ a1.selected = app.selected
        /\ a1.destination = app.destination /\ a1.files = app.files /\ a1.refused = app.refused
    BY <1>0, <2>4 DEF Looking
  <2> HIDE DEF a1
  <2>7. /\ a2 \in Looking /\ a2.tab = row.tab /\ a2.selected = app.selected
        /\ a2.destination = app.destination /\ a2.files = app.files /\ a2.refused = app.refused
        /\ a2.filter \in {row.filter, Reading!None}
    BY <2>5, <2>6 DEF Looking
  <2>8. Reading!Redraw(a2)
    BY <2>1 DEF a1
  <2> HIDE DEF a2
  <2>9. ShowsWhatIs(a2, drafts', closed', moved')
    <3>1. /\ a2.selected # Reading!None
          /\ a2.destination = "open" /\ ~a2.refused => "g" \in a2.files
          /\ a2.destination # "open" => a2.files = {}
      BY <1>0, <2>3, <2>7 DEF ShowsWhatIs
    <3>2. CASE row.tab = "diff"
      BY <2>2, <2>3, <2>7, <3>1, <3>2 DEF ShowsWhatIs
    <3>3. CASE row.tab # "diff"
      <4>1. row.tab = "summary" => row.filter \notin Reading!Path
        BY <1>b, <2>3, <3>3 DEF Reading!Path
      <4>2. \/ drafts[app.selected].is = "held" /\ drafts[app.selected].full
            \/ row.tab = "summary" /\ row.filter = Reading!None
        BY <2>3, <3>3 DEF Reading!Full, Reading!Held
      <4> QED BY <1>b, <2>2, <2>7, <3>1, <3>3, <4>1, <4>2 DEF ShowsWhatIs
    <3> QED BY <3>2, <3>3
  <2> QED BY <1>0, <2>2, <2>7, <2>8, <2>9 DEF Goal
<1>6. CASE Reading!OpenInDiff
  <2>1. /\ Reading!Redraw([app EXCEPT !.tab = "diff", !.filter = "f"])
        /\ UNCHANGED <<marks, flagged, drafts, written, turns, closed, moved>>
    BY <1>6 DEF Reading!OpenInDiff, Reading!log, Reading!outside, Reading!excuses
  <2>2. app.selected \in Listed /\ app.destination = "open"
    <3>1. Reading!Pane = "review"
      BY <1>6 DEF Reading!OpenInDiff
    <3>2. Reading!Summary = "review"
      BY <3>1 DEF Reading!Pane, Reading!Diff, Reading!Description, Reading!Qa
    <3>3. Reading!blankState = "review"
      BY <3>2 DEF Reading!Summary
    <3> QED BY <1>a, <3>3 DEF Reading!blankState
  <2> DEFINE a1 == [app EXCEPT !.tab = "diff"]
             a2 == [a1 EXCEPT !.filter = "f"]
  <2>3. /\ a1 \in Looking /\ a1.tab = "diff" /\ a1.selected = app.selected
        /\ a1.destination = app.destination /\ a1.files = app.files /\ a1.refused = app.refused
    BY <1>0 DEF Looking
  <2> HIDE DEF a1
  <2>4. /\ a2 \in Looking /\ a2.tab = "diff" /\ a2.selected = app.selected
        /\ a2.destination = app.destination /\ a2.files = app.files /\ a2.refused = app.refused
    BY <2>3 DEF Looking, Filter, Reading!Path
  <2>5. Reading!Redraw(a2)
    BY <2>1 DEF a1
  <2> HIDE DEF a2
  <2>6. ShowsWhatIs(a2, drafts', closed', moved')
    BY <1>0, <2>1, <2>2, <2>4 DEF ShowsWhatIs
  <2> QED BY <1>0, <2>1, <2>4, <2>5, <2>6 DEF Goal
<1>7. CASE Reading!ToggleFlagged
  <2>1. Reading!Redraw(app) /\ UNCHANGED <<marks, drafts, written, turns, closed, moved>>
        /\ flagged' = ~flagged
    BY <1>7 DEF Reading!ToggleFlagged, Reading!outside, Reading!excuses
  <2> QED BY <1>0, <2>1 DEF Goal
<1>8. CASE Reading!Dismiss
  <2>1. /\ Reading!Redraw([app EXCEPT !.selected = Reading!None])
        /\ UNCHANGED <<flagged, drafts, written, turns, moved>>
        /\ closed' = (app.tab # "summary") /\ marks' = Reading!Dismisses(app.selected)
        /\ app.selected \in Listed
    BY <1>8, <1>a DEF Reading!Dismiss, Reading!outside
  <2> DEFINE a1 == [app EXCEPT !.selected = Reading!None]
  <2>2. a1 \in Looking /\ a1.selected = Reading!None /\ a1.tab = app.tab /\ a1.filter = app.filter
    BY <1>0 DEF Looking
  <2> HIDE DEF a1
  <2>3. ShowsWhatIs(a1, drafts', closed', moved')
    BY <1>0, <2>1, <2>2 DEF ShowsWhatIs
  <2>4. marks' \in [Listed -> Reading!Marks]
    BY <1>0, <2>1, DismissesType
  <2> QED BY <1>0, <2>1, <2>2, <2>3, <2>4 DEF Goal, a1
<1>9. CASE Reading!Post
  <2>1. /\ Reading!Redraw(app) /\ UNCHANGED <<flagged, drafts, written, turns, closed, moved>>
        /\ marks' = [Reading!Dismisses(app.selected) EXCEPT ![app.selected].posted = TRUE]
        /\ app.selected \in Listed
    BY <1>9, <1>a DEF Reading!Post, Reading!outside, Reading!excuses
  <2>2. marks' \in [Listed -> Reading!Marks]
    BY <1>0, <2>1, DismissesType
  <2> QED BY <1>0, <2>1, <2>2 DEF Goal
<1>10. CASE Reading!Restore
  <2>1. PICK entry \in Reading!dismissed :
          /\ marks' = [marks EXCEPT ![entry.pull] = Reading!Unmarked]
          /\ Reading!Redraw(app) /\ UNCHANGED <<flagged, drafts, written, turns, closed, moved>>
    BY <1>10 DEF Reading!Restore, Reading!outside, Reading!excuses
  <2>2. Reading!Unmarked \in Reading!Marks
    BY <1>0 DEF Reading!Unmarked, Reading!Marks
  <2>3. marks' \in [Listed -> Reading!Marks]
    BY <1>0, <2>1, <2>2
  <2> QED BY <1>0, <2>1, <2>3 DEF Goal
<1>11. CASE Reading!ClearDraft
  <2>1. /\ Reading!Redraw(app) /\ UNCHANGED <<flagged, written, turns, closed>> /\ moved' = TRUE
        /\ drafts' = [drafts EXCEPT ![app.selected] = Reading!NoDraft(Reading!None)]
        /\ marks' = [marks EXCEPT ![app.selected].posted = FALSE]
        /\ app.selected \in Listed
    BY <1>11, <1>a DEF Reading!ClearDraft
  <2>2. Reading!NoDraft(Reading!None) \in Draft
    BY <1>0 DEF Reading!NoDraft, Draft
  <2>3. drafts' \in [Listed -> Draft]
    BY <1>0, <2>1, <2>2
  <2>4. marks' \in [Listed -> Reading!Marks]
    BY <1>0, <2>1, MarksType
  <2>5. ShowsWhatIs(app, drafts', closed', moved')
    BY <1>0, <2>1 DEF ShowsWhatIs
  <2> QED BY <1>0, <2>1, <2>3, <2>4, <2>5 DEF Goal
<1>12. ASSUME NEW p \in Listed, NEW draft \in Draft, Reading!Absorbs(p, draft), written' \in 1..MaxDrafts
       PROVE  Goal
  <2>1. /\ Reading!Redraw(app) /\ UNCHANGED <<marks, flagged, turns, closed>>
        /\ drafts' = [drafts EXCEPT ![p] = draft]
        /\ moved' = (moved \/ app.selected = p)
    BY <1>12 DEF Reading!Absorbs, Reading!log
  <2>2. drafts' \in [Listed -> Draft] /\ moved' \in BOOLEAN
    BY <1>0, <2>1
  <2>3. ASSUME ~moved'
        PROVE  (~moved /\ drafts'[app.selected] = drafts[app.selected]) \/ app.selected = Reading!None
    BY <1>0, <1>a, <2>1, <2>3
  <2>4. ShowsWhatIs(app, drafts', closed', moved')
    BY <1>0, <1>a, <2>1, <2>3 DEF ShowsWhatIs
  <2> QED BY <1>0, <1>12, <2>1, <2>2, <2>4 DEF Goal
<1>13. CASE Reading!AgentWrites
  <2>1. PICK p \in Listed, kind \in Reading!Kind :
          /\ written < MaxDrafts /\ written' = written + 1
          /\ Reading!Absorbs(p, Reading!Written(kind[1], kind[2], written'))
    BY <1>13 DEF Reading!AgentWrites
  <2>2. written' \in 1..MaxDrafts /\ written' \in 0..MaxDrafts
    BY <1>0, <2>1
  <2>3. Reading!Written(kind[1], kind[2], written') \in Draft
    BY <2>1, <2>2, WrittenType
  <2> QED BY <1>12, <2>1, <2>2, <2>3
<1>14. CASE Reading!Goes
  <2>1. PICK p \in Listed, why \in {Reading!None, "unread"} :
          UNCHANGED written /\ Reading!Absorbs(p, Reading!NoDraft(why))
    BY <1>14 DEF Reading!Goes
  <2>2. Reading!NoDraft(why) \in Draft
    BY <1>0 DEF Reading!NoDraft, Draft
  <2> QED BY <1>0, <1>12, <2>1, <2>2
<1>15. CASE Reading!RefreshFails
  <2>1. /\ Reading!Redraw([app EXCEPT !.problem = TRUE])
        /\ UNCHANGED <<marks, flagged, drafts, written, turns, closed, moved>>
    BY <1>15 DEF Reading!RefreshFails, Reading!log, Reading!outside, Reading!excuses
  <2> DEFINE a1 == [app EXCEPT !.problem = TRUE]
  <2>2. /\ a1 \in Looking /\ a1.tab = app.tab /\ a1.selected = app.selected /\ a1.filter = app.filter
        /\ a1.destination = app.destination /\ a1.files = app.files /\ a1.refused = app.refused
    BY <1>0 DEF Looking
  <2> HIDE DEF a1
  <2>3. ShowsWhatIs(a1, drafts', closed', moved')
    BY <1>0, <2>1, <2>2 DEF ShowsWhatIs
  <2> QED BY <1>0, <2>1, <2>2, <2>3 DEF Goal, a1
<1>16. CASE Reading!SwitchSource
  <2>1. PICK source \in {"here", "away"}, problem \in BOOLEAN :
          /\ turns < MaxTurns /\ turns' = turns + 1
          /\ closed' = (app.tab # "summary")
          /\ UNCHANGED <<marks, flagged, drafts, written, moved>>
          /\ Reading!Redraw([app EXCEPT !.source = source, !.selected = Reading!None, !.problem = problem])
    BY <1>16, Zenon DEF Reading!SwitchSource, Reading!log
  <2> DEFINE a1 == [app EXCEPT !.source = source]
             a2 == [a1 EXCEPT !.selected = Reading!None]
             a3 == [a2 EXCEPT !.problem = problem]
  <2>2. a1 \in Looking /\ a1.tab = app.tab /\ a1.filter = app.filter
    BY <1>0, <2>1 DEF Looking
  <2> HIDE DEF a1
  <2>3. a2 \in Looking /\ a2.tab = app.tab /\ a2.filter = app.filter /\ a2.selected = Reading!None
    BY <2>2 DEF Looking
  <2> HIDE DEF a2
  <2>4. a3 \in Looking /\ a3.tab = app.tab /\ a3.filter = app.filter /\ a3.selected = Reading!None
    BY <2>3 DEF Looking
  <2>5. Reading!Redraw(a3)
    BY <2>1 DEF a1, a2
  <2> HIDE DEF a3
  <2>6. ShowsWhatIs(a3, drafts', closed', moved')
    BY <1>0, <2>1, <2>4 DEF ShowsWhatIs
  <2>7. turns' \in 0..MaxTurns
    BY <1>0, <2>1
  <2> QED BY <1>0, <2>1, <2>4, <2>5, <2>6, <2>7 DEF Goal
<1> QED BY <1>2, <1>3, <1>4, <1>5, <1>6, <1>7, <1>8, <1>9, <1>10, <1>11, <1>13, <1>14, <1>15, <1>16
        DEF Reading!Next

\* The panes keep showing what is, step by step.
LEMMA ScreenInvStep ==
  ASSUME Reading!Bounds, ScreenInv, Reading!Next
  PROVE  ScreenInv'
<1>1. PICK a \in Looking :
        /\ Reading!Redraw(a) /\ ShowsWhatIs(a, drafts', closed', moved')
        /\ drafts' \in [Listed -> Draft] /\ marks' \in [Listed -> Reading!Marks]
        /\ flagged' \in BOOLEAN /\ closed' \in BOOLEAN /\ moved' \in BOOLEAN
        /\ written' \in 1..MaxDrafts /\ turns' \in 0..MaxTurns
  BY EveryStepDraws DEF Goal
<1>2. app' \in Looking /\ ShowsWhatIs(app', drafts', closed', moved')
  BY <1>1, RedrawShows
<1> QED BY <1>1, <1>2 DEF ScreenInv, ScreenTypes, ShowsWhatIs, Looking, Draft

\* The first draft of each pull request, or none.
LEMMA ScreenInvInit ==
  ASSUME Reading!Bounds, Reading!Init
  PROVE  ScreenInv
<1>0. MaxDrafts \in Nat \ {0} /\ MaxTurns \in Nat
  BY DEF Reading!Bounds
<1>1. PICK source \in {"here", Reading!None}, destination \in {"open", "refused", "none"}, problem \in BOOLEAN :
        app = Reading!Start(source, destination, problem)
  BY DEF Reading!Init
<1>2. /\ app \in Looking /\ app.selected = Reading!None /\ app.tab = "summary" /\ app.filter = Reading!None
  BY <1>1 DEF Reading!Start, Looking, Filter
<1>3. ShowsWhatIs(app, drafts, closed, moved)
  BY <1>2 DEF ShowsWhatIs, Reading!None, Reading!Path
<1>4. drafts \in [Listed -> Draft]
  <2>1. Reading!NoDraft(Reading!None) \in Draft
    BY <1>0 DEF Reading!NoDraft, Draft
  <2>2. \A kind \in Reading!Kind : Reading!Written(kind[1], kind[2], 1) \in Draft
    BY <1>0, WrittenType
  <2> QED BY <2>1, <2>2 DEF Reading!Init
<1>5. marks \in [Listed -> Reading!Marks]
  <2>1. Reading!Unmarked \in Reading!Marks
    BY <1>0 DEF Reading!Unmarked, Reading!Marks
  <2> QED BY <2>1 DEF Reading!Init
<1>6. flagged \in BOOLEAN /\ closed \in BOOLEAN /\ moved \in BOOLEAN
  BY Zenon DEF Reading!Init
<1>7. written \in 1..MaxDrafts /\ turns \in 0..MaxTurns
  <2>1. written = 1 /\ turns = 0
    BY DEF Reading!Init
  <2> QED BY <1>0, <2>1
<1> QED BY <1>6, <1>7, <1>2, <1>3, <1>4, <1>5 DEF ScreenInv, ScreenTypes

\* Nothing is drawn again.
LEMMA ScreenInvStutter ==
  ASSUME ScreenInv, UNCHANGED Reading!vars PROVE ScreenInv'
BY DEF Reading!vars, ScreenInv, ScreenTypes, Looking, Draft, ShowsWhatIs

\* A pane that shows what is there is not blank, and its filter is on the rail.
LEMMA ScreenInvMeans ==
  ASSUME Reading!Bounds, ScreenInv
  PROVE  Reading!TypeOK /\ Reading!NeverBlank /\ Reading!FilterIsListed
<1>0. /\ app \in Looking /\ drafts \in [Listed -> Draft] /\ marks \in [Listed -> Reading!Marks]
      /\ flagged \in BOOLEAN /\ closed \in BOOLEAN /\ moved \in BOOLEAN
      /\ written \in 1..MaxDrafts /\ turns \in 0..MaxTurns
      /\ ShowsWhatIs(app, drafts, closed, moved)
  BY DEF ScreenInv, ScreenTypes
<1>a. /\ app.selected \in Listed \cup {Reading!None} /\ app.tab \in {"summary", "diff", "description", "qa"}
      /\ app.filter \in {Reading!None, "lens", "clean", "theme", "f", "g"} /\ app.files \in SUBSET Reading!Path
      /\ Reading!None \notin Listed
  BY <1>0 DEF Looking, Filter, Reading!Path, Reading!Bounds
<1>1. Reading!TypeOK
  BY <1>0, <1>a DEF Reading!TypeOK, Draft, Filter, Reading!Path
<1>2. Reading!NeverBlank
  <2> SUFFICES ASSUME Reading!Pane = "nothing"
               PROVE  \/ closed /\ app.selected = Reading!None
                      \/ moved /\ (app.tab \in {"description", "qa"} \/ app.filter \in {"lens", "theme"})
                      \/ app.tab = "summary" /\ app.filter = "clean"
                      \/ app.tab = "diff" /\ app.filter = "f" /\ "f" \notin app.files
    BY DEF Reading!NeverBlank
  <2>1. CASE app.tab = "summary"
    <3>1. Reading!Summary = "nothing"
      BY <2>1 DEF Reading!Pane
    <3>2. Reading!blankState # "nothing"
      BY DEF Reading!blankState
    <3>3. /\ Reading!blankState = "review" /\ app.filter # Reading!None /\ ~Reading!Matches(app.filter)
      BY <3>1, <3>2 DEF Reading!Summary
    <3>4. app.selected # Reading!None
      BY <3>3 DEF Reading!blankState
    <3>5. app.filter \in {"lens", "theme"} => ~Reading!Full(app.selected)
      BY <3>3 DEF Reading!Matches
    <3> QED BY <1>0, <1>a, <2>1, <3>3, <3>4, <3>5 DEF ShowsWhatIs, Reading!Full, Reading!Held, Reading!Path
  <2>2. CASE app.tab = "diff"
    <3>1. Reading!Diff = "nothing"
      BY <2>2 DEF Reading!Pane
    <3>2. CASE app.selected = Reading!None
      BY <1>0, <2>2, <3>2 DEF ShowsWhatIs
    <3>3. CASE app.selected # Reading!None
      <4>1. ~app.refused /\ (app.files = {} \/ app.filter \in Reading!Path \ app.files)
        BY <3>1, <3>3 DEF Reading!Diff
      <4>2. "g" \in app.files
        BY <1>0, <2>2, <3>3, <4>1 DEF ShowsWhatIs
      <4> QED BY <2>2, <4>1, <4>2 DEF Reading!Path
    <3> QED BY <3>2, <3>3
  <2>3. CASE app.tab \in {"description", "qa"}
    <3>1. app.selected = Reading!None \/ ~Reading!Full(app.selected)
      BY <2>3 DEF Reading!Pane, Reading!Description, Reading!Qa
    <3> QED BY <1>0, <2>3, <3>1 DEF ShowsWhatIs, Reading!Full, Reading!Held
  <2> QED BY <1>a, <2>1, <2>2, <2>3
<1>3. Reading!FilterIsListed
  <2> SUFFICES ASSUME app.filter # Reading!None, app.selected # Reading!None, Reading!Full(app.selected),
                      app.filter \in Reading!Path => app.filter \in app.files
               PROVE  \E row \in Reading!Rail : row.filter = app.filter
    BY DEF Reading!FilterIsListed
  <2>1. ~Reading!Hidden(app.filter)
    BY DEF Reading!Hidden
  <2>2. CASE app.filter \in {"lens", "clean"}
    <3>1. Reading!Row("summary", app.filter) \in Reading!Sections
      BY <2>1, <2>2 DEF Reading!Sections
    <3> QED BY <3>1 DEF Reading!Rail, Reading!Row
  <2>3. CASE app.filter = "theme"
    <3>1. Reading!Row("summary", "theme") \in Reading!Kinds
      BY DEF Reading!Kinds
    <3> QED BY <2>3, <3>1 DEF Reading!Rail, Reading!Row
  <2>4. CASE app.filter \in Reading!Path
    <3>1. Reading!Row("diff", app.filter) \in Reading!Files
      BY <2>1, <2>4 DEF Reading!Files
    <3> QED BY <3>1 DEF Reading!Rail, Reading!Row
  <2> QED BY <1>a, <2>2, <2>3, <2>4 DEF Reading!Path
<1> QED BY <1>1, <1>2, <1>3

\* What the reader opens is on the screen, for any pull requests, drafts and
\* switches of the source (summary.js blankState, rail.js, diff.js).
THEOREM ScreenNeverBlank ==
  ASSUME Reading!Bounds
  PROVE  Reading!Init /\ [][Reading!Next]_Reading!vars => [](Reading!NeverBlank /\ Reading!FilterIsListed)
<1>1. Reading!Init => ScreenInv
  BY ScreenInvInit
<1>2. ScreenInv /\ [Reading!Next]_Reading!vars => ScreenInv'
  BY ScreenInvStep, ScreenInvStutter
<1>3. ScreenInv => Reading!NeverBlank /\ Reading!FilterIsListed
  BY ScreenInvMeans
<1> QED BY <1>1, <1>2, <1>3, PTL
-------------------------------------------------------------------------------
(* The settings panel (Panel).                                               *)

Texts == 0..MaxWords
Focuses == [pc : {"focus"}, of : P!Row, text : Texts, opens : BOOLEAN, since : BOOLEAN]
Saves == [pc : {"save"}, kind : P!Kinds, of : P!Row \cup {P!New}, text : Texts, since : BOOLEAN]
Removes == [pc : {"remove"}, of : P!Row, since : BOOLEAN]
Calls == {P!Idle} \cup Focuses \cup Saves \cup Removes
Form == [of : P!Row \cup {P!New}, text : Texts]
Selection == {P!NoRow} \cup {P!RowOf(r) : r \in P!Row} \cup {P!Adding(k) : k \in P!Kinds}

PanelTypes ==
  /\ P!TypeOK
  /\ visible \in BOOLEAN /\ late \in BOOLEAN /\ swept \in BOOLEAN
  /\ setup \in [P!Kinds -> Form] /\ settingsSelection \in Selection /\ chosen \in Selection
  /\ call \in [Waiting -> Calls]
  /\ owed \subseteq 1..words

\* What is typed into one kind of form is of that kind wherever it goes.
CallOf(k, o) == (o.pc = "focus" /\ P!Kind(o.of) = k) \/ (o.pc = "save" /\ o.kind = k)
HasText(k, n) ==
  \/ setup[k].text = n
  \/ \E r \in P!Row : P!Kind(r) = k /\ stored[r] = n
  \/ \E c \in Waiting : CallOf(k, call[c]) /\ call[c].text = n

TextsApart ==
  \A n \in 1..MaxWords :
    /\ HasText("source", n) \/ HasText("destination", n) => n <= words
    /\ ~(HasText("source", n) /\ HasText("destination", n))

\* A save is of a row of its form's kind, and a new row's form is no row's.
Placed ==
  /\ \A c \in Waiting : P!Is(c, "save") /\ call[c].of # P!New => P!Kind(call[c].of) = call[c].kind
  /\ settingsSelection.kind = "add" => \A k \in P!Kinds : ~P!Editing(k)

\* What a row's form holds is recorded or owed, and the one call that began since
\* the reader last did anything finds the panel as it left it.
TypedOrTold == \A k \in P!Kinds : P!Editing(k) => setup[k].text \in owed \cup {stored[setup[k].of]}
Fresh(c) ==
  /\ P!Is(c, "focus") => chosen = P!RowOf(call[c].of) /\ call[c].text = stored[call[c].of]
  /\ P!Is(c, "save") =>
       /\ settingsSelection = chosen
       /\ setup[call[c].kind] = [of |-> call[c].of, text |-> call[c].text]
       /\ call[c].of # P!New => chosen = P!RowOf(call[c].of)
  /\ P!Is(c, "remove") => settingsSelection = chosen

Stale(c) == ~P!Is(c, "idle") /\ call[c].since
Chosen ==
  \/ late
  \/ \E c \in Waiting : Stale(c)
  \/ /\ TypedOrTold
     /\ \A c, d \in Waiting : ~P!Is(c, "idle") /\ ~P!Is(d, "idle") => c = d
     /\ \A c \in Waiting : Fresh(c)
     /\ (\A c \in Waiting : P!Is(c, "idle")) => settingsSelection = chosen

\* What a step shows of the calls, for both of the above.
CallsPlaced ==
  /\ call \in [Waiting -> Calls]
  /\ \A c \in Waiting : call[c].pc = "save" /\ call[c].of # P!New => P!Kind(call[c].of) = call[c].kind

PanelInv == PanelTypes /\ TextsApart /\ Placed /\ P!TypedStays /\ Chosen

\* A call goes on as it is when the reader does something else, but is no longer
\* the last thing they did.
LEMMA PassedIs ==
  ASSUME NEW o \in Calls
  PROVE  /\ P!Passed(o) \in Calls /\ P!Passed(o).pc = o.pc
         /\ o.pc # "idle" => P!Passed(o).since = TRUE
         /\ o.pc = "focus" => P!Passed(o).of = o.of /\ P!Passed(o).text = o.text
         /\ o.pc = "save" => P!Passed(o).of = o.of /\ P!Passed(o).text = o.text /\ P!Passed(o).kind = o.kind
<1>1. CASE o \in {P!Idle}
  BY <1>1 DEF P!Passed, Calls, P!Idle
<1>2. CASE o \in Focuses
  BY <1>2 DEF P!Passed, Calls, Focuses
<1>3. CASE o \in Saves
  BY <1>3 DEF P!Passed, Calls, Saves
<1>4. CASE o \in Removes
  BY <1>4 DEF P!Passed, Calls, Removes
<1> QED BY <1>1, <1>2, <1>3, <1>4 DEF Calls

\* What a call holds, by what it waits for.
LEMMA CallIs ==
  ASSUME NEW o \in Calls
  PROVE  /\ o.pc \in {"idle", "focus", "save", "remove"}
         /\ o.pc = "idle" => o = P!Idle
         /\ o.pc = "focus" => o \in Focuses /\ o.of \in P!Row /\ o.text \in Texts /\ o.opens \in BOOLEAN /\ o.since \in BOOLEAN
         /\ o.pc = "save" => o \in Saves /\ o.kind \in P!Kinds /\ o.of \in P!Row \cup {P!New} /\ o.text \in Texts /\ o.since \in BOOLEAN
         /\ o.pc = "remove" => o.of \in P!Row /\ o.since \in BOOLEAN
BY DEF Calls, P!Idle, Focuses, Saves, Removes

\* There are two kinds, and each row is of one.
LEMMA KindIs ==
  /\ "source" # "destination" /\ P!Kinds = {"source", "destination"}
  /\ \A k \in P!Kinds : P!Other(k) \in P!Kinds /\ P!Other(k) # k
  /\ \A r : P!Kind(r) \in P!Kinds
  /\ \A r : P!RowOf(r).kind = P!Kind(r) /\ P!RowOf(r).id = r
  /\ \A k : P!Adding(k).kind = "add" /\ P!Adding(k).adding = k
  /\ P!NoRow.kind = "none" /\ P!Idle.pc = "idle" /\ P!Blank.of = P!New /\ P!Blank.text = 0
<1>1. P!Kinds = {"source", "destination"}
  BY DEF P!Kinds
<1>2. \A k \in P!Kinds : \E o \in P!Kinds : o # k
  BY <1>1
<1>3. \A k \in P!Kinds : P!Other(k) \in P!Kinds /\ P!Other(k) # k
  BY <1>2 DEF P!Other
<1> QED BY <1>1, <1>3 DEF P!Kind, P!RowOf, P!Adding, P!NoRow, P!Idle, P!Blank

\* A step of the reader's begins one call at the most.
LEMMA StartsOne ==
  ASSUME PanelTypes, NEW c \in Waiting, NEW to \in Calls, P!Starts(c, to), MaxAsks \in Nat
  PROVE  /\ call' \in [Waiting -> Calls] /\ asks' \in 0..MaxAsks
         /\ call[c].pc = "idle" /\ call'[c] = to /\ \A o \in Waiting \ {c} : call'[o] = P!Passed(call[o])
<1>1. \A o \in Waiting : P!Passed(call[o]) \in Calls
  BY PassedIs DEF PanelTypes
<1>2. asks \in 0..MaxAsks
  BY DEF PanelTypes, P!TypeOK
<1>3. asks' \in 0..MaxAsks
  BY <1>2 DEF P!Starts
<1> QED BY <1>1, <1>3 DEF P!Starts

LEMMA ActsOn ==
  ASSUME PanelTypes, P!Acts
  PROVE  call' \in [Waiting -> Calls] /\ \A o \in Waiting : call'[o] = P!Passed(call[o])
BY PassedIs DEF PanelTypes, P!Acts

LEMMA BecomesOne ==
  ASSUME PanelTypes, NEW c \in Waiting, NEW to \in Calls, P!Becomes(c, to)
  PROVE  call' \in [Waiting -> Calls] /\ call'[c] = to /\ \A o \in Waiting \ {c} : call'[o] = call[o]
BY DEF PanelTypes, P!Becomes

\* A lookup as it begins.
LEMMA FocusingIs ==
  ASSUME NEW r \in P!Row, NEW n \in Texts, NEW b \in BOOLEAN
  PROVE  /\ P!Focusing(r, n, b) \in Calls /\ P!Focusing(r, n, b).pc = "focus" /\ P!Focusing(r, n, b).of = r
         /\ P!Focusing(r, n, b).text = n /\ P!Focusing(r, n, b).since = FALSE
<1>1. P!Focusing(r, n, b) \in Focuses
  BY DEF P!Focusing, Focuses
<1> QED BY <1>1 DEF P!Focusing, Calls

\* A save that went well looks its row up, as late as it is.
LEMMA LooksUpIs ==
  ASSUME PanelTypes, NEW c \in Waiting, NEW r \in P!Row, P!LooksUp(c, r), call[c].text \in Texts, call[c].since \in BOOLEAN
  PROVE  \E o \in Calls : /\ P!Becomes(c, o) /\ o.pc = "focus" /\ o.of = r
                          /\ o.text = call[c].text /\ o.since = call[c].since
<1> PICK since \in BOOLEAN, text \in Texts : since = call[c].since /\ text = call[c].text
  OBVIOUS
<1> PICK g : g = [pc |-> "focus", of |-> r, text |-> text, opens |-> FALSE, since |-> FALSE]
  OBVIOUS
<1>1. P!Becomes(c, [g EXCEPT !.since = since])
  BY DEF P!LooksUp, P!Focusing
<1> PICK o : o = [g EXCEPT !.since = since]
  OBVIOUS
<1>2. o \in Focuses /\ o.pc = "focus" /\ o.of = r /\ o.text = text /\ o.since = since
  BY DEF Focuses
<1>3. P!Becomes(c, o) /\ o \in Calls
  BY <1>1, <1>2 DEF Calls
<1> QED BY <1>2, <1>3

\* Forms that go go all.
LEMMA DropsAll ==
  ASSUME P!Bounds, PanelTypes, P!Drops
  PROVE  /\ setup' \in [P!Kinds -> Form] /\ \A k \in P!Kinds : setup'[k] = P!Blank
         /\ owed' \subseteq owed /\ swept' \in BOOLEAN
<1>1. P!Blank \in Form
  BY DEF P!Blank, Form, Texts, P!Bounds
<1> QED BY <1>1 DEF P!Drops, P!NoForms, PanelTypes

\* No step leaves the types.
LEMMA PanelTypeStep ==
  ASSUME P!Bounds, PanelTypes, Placed, P!Next
  PROVE  PanelTypes' /\ Placed'
<1>. USE KindIs DEF CallsPlaced
<1>0. MaxAsks \in Nat /\ MaxWords \in Nat
  BY DEF P!Bounds
<1>k. \A o \in Waiting : call[o] \in Calls
  BY DEF PanelTypes
<1>f. \A k \in P!Kinds : setup[k] \in Form /\ setup[k].of \in P!Row \cup {P!New} /\ setup[k].text \in Texts
  BY DEF PanelTypes, Form
<1>s. \A r \in P!Row : stored[r] \in Texts
  BY DEF PanelTypes, P!TypeOK, Texts
<1>l. listed \subseteq P!Row /\ \A k \in P!Kinds : P!Here(k) \subseteq P!Row
  BY DEF PanelTypes, P!TypeOK, P!Here
<1>r. \A r \in P!Row : P!RowOf(r) \in Selection
  BY DEF Selection
<1>a. \A k \in P!Kinds : P!Adding(k) \in Selection
  BY DEF Selection
<1>n. P!NoRow \in Selection
  BY DEF Selection
<1>p. \A o \in Waiting :
        /\ P!Passed(call[o]).pc = call[o].pc
        /\ call[o].pc = "save" => P!Passed(call[o]).of = call[o].of /\ P!Passed(call[o]).kind = call[o].kind
  BY <1>k, PassedIs
<1>q. \A o \in Waiting : call[o].pc = "save" /\ call[o].of # P!New => P!Kind(call[o].of) = call[o].kind
  BY DEF Placed, P!Is
\* A call that begins, or goes on.
<1>i. ASSUME NEW c \in Waiting, NEW to \in Calls, P!Starts(c, to), UNCHANGED <<listed, gone, stored, setup,
                                                                               settingsSelection, words, owed, late, swept>>,
             visible' \in BOOLEAN, chosen' \in Selection,
             to.pc = "save" /\ to.of # P!New => P!Kind(to.of) = to.kind
      PROVE  PanelTypes' /\ Placed'
  <2>1. /\ call' \in [Waiting -> Calls] /\ asks' \in 0..MaxAsks
        /\ call[c].pc = "idle" /\ call'[c] = to /\ \A o \in Waiting \ {c} : call'[o] = P!Passed(call[o])
    BY <1>i, <1>0, StartsOne
  <2>2. PanelTypes'
    BY <1>i, <2>1 DEF PanelTypes, P!TypeOK, P!Here
  <2>3. ASSUME NEW o \in Waiting, call'[o].pc = "save", call'[o].of # P!New
        PROVE  P!Kind(call'[o].of) = call'[o].kind
    <3>1. CASE o = c
      BY <1>i, <2>1, <2>3, <3>1
    <3>2. CASE o # c
      BY <2>1, <2>3, <3>2, <1>p, <1>q
    <3> QED BY <3>1, <3>2
  <2>4. Placed'
    BY <1>i, <2>3 DEF Placed, P!Is, P!Editing
  <2> QED BY <2>2, <2>4
<1>j. ASSUME P!Acts PROVE CallsPlaced'
  <2>1. call' \in [Waiting -> Calls] /\ \A o \in Waiting : call'[o] = P!Passed(call[o])
    BY <1>j, ActsOn
  <2>2. ASSUME NEW o \in Waiting, call'[o].pc = "save", call'[o].of # P!New
        PROVE  P!Kind(call'[o].of) = call'[o].kind
    BY <2>1, <2>2, <1>p, <1>q
  <2> QED BY <2>1, <2>2
<1>m. ASSUME NEW c \in Waiting, NEW to \in Calls, P!Becomes(c, to), to.pc # "save"
      PROVE  CallsPlaced'
  <2>1. call' \in [Waiting -> Calls] /\ call'[c] = to /\ \A o \in Waiting \ {c} : call'[o] = call[o]
    BY <1>m, BecomesOne
  <2>2. ASSUME NEW o \in Waiting, call'[o].pc = "save", call'[o].of # P!New
        PROVE  P!Kind(call'[o].of) = call'[o].kind
    <3>1. CASE o = c
      BY <1>m, <2>1, <2>2, <3>1
    <3>2. CASE o # c
      BY <2>1, <2>2, <3>2, <1>q
    <3> QED BY <3>1, <3>2
  <2> QED BY <2>1, <2>2
<1>h. P!Idle \in Calls
  BY DEF Calls
<1>e. ASSUME NEW c \in Waiting, P!Lands(c)
      PROVE  /\ CallsPlaced'
             /\ late' \in BOOLEAN
  <2>1. P!Becomes(c, P!Idle) /\ late' \in BOOLEAN
    BY <1>e DEF P!Lands
  <2> QED BY <2>1, <1>h, <1>m
\* Both forms go.
<1>d. ASSUME P!Drops, settingsSelection' \in Selection, settingsSelection'.kind \notin P!Kinds, chosen' \in Selection,
             CallsPlaced',
             UNCHANGED <<visible, asks, words>>, late' \in BOOLEAN,
             listed' \subseteq P!Row, gone' \subseteq P!Row \ listed', stored' \in [P!Row -> Texts]
      PROVE  PanelTypes' /\ Placed'
  <2>1. /\ setup' \in [P!Kinds -> Form] /\ \A k \in P!Kinds : setup'[k] = P!Blank
        /\ owed' \subseteq owed /\ swept' \in BOOLEAN
    BY <1>d, DropsAll
  <2>2. PanelTypes'
    BY <1>d, <2>1 DEF PanelTypes, P!TypeOK, Texts
  <2>3. Placed'
    BY <1>d, <2>1 DEF Placed, P!Is, P!Editing
  <2> QED BY <2>2, <2>3
<1>x. "add" \notin P!Kinds /\ "none" \notin P!Kinds
  OBVIOUS
<1>y. listed \subseteq P!Row /\ gone \subseteq P!Row \ listed /\ stored \in [P!Row -> Texts]
  BY DEF PanelTypes, P!TypeOK, Texts
<1>1. CASE P!CloseSetup
  BY <1>1 DEF P!CloseSetup, PanelTypes, P!TypeOK, Placed, P!bounds, P!history, P!Is, P!Editing
<1>2. CASE \E k \in P!Kinds : P!StartAdd(k)
  <2> PICK k \in P!Kinds : P!StartAdd(k)
    BY <1>2
  <2>1. /\ P!Drops /\ P!Acts /\ settingsSelection' = P!Adding(k) /\ chosen' = P!Adding(k)
        /\ UNCHANGED <<visible, listed, gone, stored, asks, words, late>>
    BY DEF P!StartAdd, P!bounds
  <2> QED BY <2>1, <1>j, <1>d, <1>a, <1>x, <1>y DEF PanelTypes
<1>3. CASE \E k \in P!Kinds : P!ChooseKind(k)
  <2> PICK k \in P!Kinds : P!ChooseKind(k)
    BY <1>3
  <2>1. /\ P!Acts /\ settingsSelection' = P!Adding(k) /\ chosen' = P!Adding(k)
        /\ settingsSelection = P!Adding(P!Other(k))
        /\ UNCHANGED <<visible, listed, gone, stored, setup, asks, words, owed, late, swept>>
    BY DEF P!ChooseKind, P!bounds
  <2>2. PanelTypes'
    BY <2>1, <1>j, <1>a, <1>x DEF PanelTypes, P!TypeOK
  <2>3. Placed'
    BY <2>1, <1>j DEF Placed, P!Is, P!Editing
  <2> QED BY <2>2, <2>3
<1>4. CASE \E k \in P!Kinds : P!TypeIn(k)
  <2> PICK k \in P!Kinds : P!TypeIn(k)
    BY <1>4
  <2>1. /\ P!Acts /\ words < MaxWords /\ words' = words + 1 /\ setup' = [setup EXCEPT ![k].text = words']
        /\ owed' = (owed \ {setup[k].text}) \cup {words'}
        /\ UNCHANGED <<visible, listed, gone, stored, settingsSelection, asks, chosen, late, swept>>
    BY DEF P!TypeIn
  <2>2. words \in 0..MaxWords /\ words' \in Texts /\ words' \in 1..words'
    BY <2>1, <1>0 DEF PanelTypes, P!TypeOK, Texts
  <2>3. /\ setup' \in [P!Kinds -> Form]
        /\ \A j \in P!Kinds : setup'[j].of = setup[j].of
    BY <2>1, <2>2, <1>f DEF PanelTypes, Form
  <2>4. owed' \subseteq 1..words'
    BY <2>1, <2>2 DEF PanelTypes
  <2>5. PanelTypes'
    BY <2>1, <2>2, <2>3, <2>4, <1>j DEF PanelTypes, P!TypeOK, Texts
  <2>6. Placed'
    BY <2>1, <2>3, <1>j DEF Placed, P!Is, P!Editing
  <2> QED BY <2>5, <2>6
<1>5. CASE \E k \in P!Kinds : P!CancelAdd(k)
  <2> PICK k \in P!Kinds : P!CancelAdd(k)
    BY <1>5
  <2>1. /\ P!Drops /\ P!Acts /\ settingsSelection' = P!NoRow /\ chosen' = P!NoRow
        /\ UNCHANGED <<visible, listed, gone, stored, asks, words, late>>
    BY DEF P!CancelAdd, P!bounds
  <2> QED BY <2>1, <1>j, <1>d, <1>n, <1>x, <1>y DEF PanelTypes
<1>6. CASE \E k \in P!Kinds : P!Done(k)
  BY <1>6, <1>1 DEF P!Done
<1>7. CASE \E c \in Waiting : P!OpenSetup(c)
  <2> PICK c \in Waiting : P!OpenSetup(c)
    BY <1>7
  <2>1. /\ visible' \in BOOLEAN
        /\ UNCHANGED <<listed, gone, stored, setup, settingsSelection, words, owed, late, swept>>
    BY DEF P!OpenSetup
  <2>2. CASE \E r \in IF P!Here("source") # {} THEN P!Here("source") ELSE listed :
             P!Starts(c, P!Focusing(r, stored[r], FALSE)) /\ chosen' = P!RowOf(r)
    <3> PICK r \in IF P!Here("source") # {} THEN P!Here("source") ELSE listed :
             P!Starts(c, P!Focusing(r, stored[r], FALSE)) /\ chosen' = P!RowOf(r)
      BY <2>2
    <3>1. r \in P!Row /\ stored[r] \in Texts
      BY <1>l, <1>s
    <3> QED BY <3>1, <2>1, <1>i, <1>r, FocusingIs
  <2>3. CASE P!Acts /\ UNCHANGED <<asks, chosen>>
    <3>1. PanelTypes'
      BY <2>1, <2>3, <1>j DEF PanelTypes, P!TypeOK
    <3>2. Placed'
      BY <2>1, <2>3, <1>j DEF Placed, P!Is, P!Editing
    <3> QED BY <3>1, <3>2
  <2> QED BY <2>2, <2>3 DEF P!OpenSetup
<1>8. CASE \E c \in Waiting : P!EditSource(c)
  <2> PICK c \in Waiting : P!EditSource(c)
    BY <1>8
  <2> PICK r \in P!Here("source") : P!Starts(c, P!Focusing(r, stored[r], TRUE)) /\ chosen' = P!RowOf(r)
    BY DEF P!EditSource
  <2>1. /\ visible' \in BOOLEAN
        /\ UNCHANGED <<listed, gone, stored, setup, settingsSelection, words, owed, late, swept>>
    BY DEF P!EditSource, PanelTypes
  <2>2. r \in P!Row /\ stored[r] \in Texts
    BY <1>l, <1>s
  <2> QED BY <2>2, <2>1, <1>i, <1>r, FocusingIs
<1>9. CASE \E c \in Waiting : \E r \in P!Row : P!ClickRow(c, r)
  <2> PICK c \in Waiting, r \in P!Row : P!ClickRow(c, r)
    BY <1>9
  <2>1. /\ visible' \in BOOLEAN
        /\ UNCHANGED <<listed, gone, stored, setup, settingsSelection, words, owed, late, swept>>
        /\ P!Starts(c, P!Focusing(r, stored[r], FALSE)) /\ chosen' = P!RowOf(r)
    BY DEF P!ClickRow, PanelTypes
  <2> QED BY <2>1, <1>i, <1>r, <1>s, FocusingIs
<1>10. CASE \E c \in Waiting : P!Focused(c)
  <2> PICK c \in Waiting : P!Focused(c)
    BY <1>10
  <2> DEFINE r == call[c].of
  <2>1. call[c] \in Focuses /\ r \in P!Row /\ call[c].text \in Texts /\ call[c].opens \in BOOLEAN
    BY <1>k, CallIs DEF P!Focused, P!Is
  <2>2. /\ setup' = [setup EXCEPT ![P!Kind(r)] = [of |-> r, text |-> call[c].text]]
        /\ settingsSelection' = P!RowOf(r) /\ owed' \subseteq owed
        /\ visible' = (visible \/ call[c].opens) /\ P!Lands(c)
        /\ UNCHANGED <<listed, gone, stored, asks, words, chosen, swept>>
    BY DEF P!Focused, P!bounds
  <2>3. [of |-> r, text |-> call[c].text] \in Form
    BY <2>1 DEF Form
  <2>4. /\ setup' \in [P!Kinds -> Form] /\ setup'[P!Kind(r)] = [of |-> r, text |-> call[c].text]
        /\ \A j \in P!Kinds \ {P!Kind(r)} : setup'[j] = setup[j]
    BY <2>2, <2>3 DEF PanelTypes
  <2>5. PanelTypes'
    <3>1. P!TypeOK'
      BY <2>2, <2>4 DEF PanelTypes, P!TypeOK
    <3>2. visible' \in BOOLEAN
      BY <2>2, <2>1 DEF PanelTypes
    <3> QED BY <3>1, <3>2, <2>1, <2>2, <2>4, <1>e, <1>r DEF PanelTypes
  <2>6. Placed'
    BY <2>2, <1>e, <1>x DEF Placed, P!Is
  <2> QED BY <2>5, <2>6
<1>11. CASE \E c \in Waiting : P!NotFocused(c) \/ P!NotSaved(c) \/ P!NotRemoved(c)
  <2> PICK c \in Waiting : P!NotFocused(c) \/ P!NotSaved(c) \/ P!NotRemoved(c)
    BY <1>11
  <2>1. /\ P!Lands(c) /\ chosen' \in Selection
        /\ UNCHANGED <<visible, listed, gone, stored, setup, settingsSelection, asks, words, owed, swept>>
    BY DEF P!NotFocused, P!NotSaved, P!NotRemoved, P!bounds, PanelTypes
  <2>2. PanelTypes'
    BY <2>1, <1>e DEF PanelTypes, P!TypeOK
  <2>3. Placed'
    BY <2>1, <1>e DEF Placed, P!Is, P!Editing
  <2> QED BY <2>2, <2>3
<1>12. CASE \E c \in Waiting : P!SavedEdit(c)
  <2> PICK c \in Waiting : P!SavedEdit(c)
    BY <1>12
  <2>1. call[c].of \in P!Row /\ call[c].text \in Texts /\ call[c].since \in BOOLEAN
    BY <1>k, CallIs DEF P!SavedEdit, P!Is
  <2>2. /\ stored' = [stored EXCEPT ![call[c].of] = call[c].text] /\ owed' \subseteq owed
        /\ P!LooksUp(c, call[c].of)
        /\ UNCHANGED <<visible, listed, gone, setup, settingsSelection, asks, words, chosen, late, swept>>
    BY DEF P!SavedEdit, P!bounds
  <2>3. CallsPlaced'
    <3> PICK to \in Calls : P!Becomes(c, to) /\ to.pc = "focus"
      BY <2>1, <2>2, LooksUpIs
    <3> QED BY <1>m
  <2>4. PanelTypes'
    BY <2>1, <2>2, <2>3 DEF PanelTypes, P!TypeOK, Texts
  <2>5. Placed'
    BY <2>2, <2>3 DEF Placed, P!Is, P!Editing
  <2> QED BY <2>4, <2>5
<1>13. CASE \E c \in Waiting : P!SavedAdd(c)
  <2> PICK c \in Waiting : P!SavedAdd(c)
    BY <1>13
  <2> DEFINE k == call[c].kind
  <2>1. k \in P!Kinds /\ call[c].text \in Texts /\ call[c].since \in BOOLEAN
    BY <1>k, CallIs DEF P!SavedAdd, P!Is
  <2> PICK r \in P!Row \ (listed \cup gone) :
       /\ P!Kind(r) = k
       /\ listed' = listed \cup {r} /\ stored' = [stored EXCEPT ![r] = call[c].text]
       /\ IF P!Here(P!Other(k)) = {}
          THEN P!Drops /\ settingsSelection' = P!Adding(P!Other(k)) /\ chosen' = P!Adding(P!Other(k)) /\ P!Lands(c)
          ELSE /\ P!LooksUp(c, r) /\ chosen' = P!RowOf(r) /\ owed' = owed \ {call[c].text}
               /\ UNCHANGED <<setup, settingsSelection, late, swept>>
    BY DEF P!SavedAdd
  <2>2. UNCHANGED <<visible, gone, asks, words>>
    BY DEF P!SavedAdd, P!bounds
  <2>3. listed' \subseteq P!Row /\ gone' \subseteq P!Row \ listed' /\ stored' \in [P!Row -> Texts]
    BY <2>1, <2>2, <1>y
  <2>4. CASE P!Here(P!Other(k)) = {}
    <3>1. P!Drops /\ settingsSelection' = P!Adding(P!Other(k)) /\ chosen' = P!Adding(P!Other(k)) /\ P!Lands(c)
      BY <2>4
    <3>2. P!Other(k) \in P!Kinds
      BY <2>1
    <3> HIDE DEF k
    <3> QED BY <3>1, <3>2, <2>2, <2>3, <1>e, <1>d, <1>a, <1>x
  <2>5. CASE P!Here(P!Other(k)) # {}
    <3>1. /\ P!LooksUp(c, r)
          /\ chosen' = P!RowOf(r) /\ owed' \subseteq owed /\ UNCHANGED <<setup, settingsSelection, late, swept>>
      BY <2>5
    <3>2. CallsPlaced'
      <4> PICK to \in Calls : P!Becomes(c, to) /\ to.pc = "focus"
        BY <2>1, <3>1, LooksUpIs
      <4> QED BY <1>m
    <3>3. PanelTypes'
      BY <2>2, <2>3, <3>1, <3>2, <1>r DEF PanelTypes, P!TypeOK, Texts
    <3>4. Placed'
      BY <3>1, <3>2 DEF Placed, P!Is, P!Editing
    <3> QED BY <3>3, <3>4
  <2> QED BY <2>4, <2>5
<1>14. CASE \E c \in Waiting : P!Removed(c)
  <2> PICK c \in Waiting : P!Removed(c)
    BY <1>14
  <2>1. call[c].of \in P!Row
    BY <1>k, CallIs DEF P!Removed, P!Is
  <2>2. /\ listed' = listed \ {call[c].of} /\ gone' = gone \cup {call[c].of} /\ P!Drops
        /\ settingsSelection' = P!NoRow /\ chosen' = P!NoRow /\ P!Lands(c)
        /\ UNCHANGED <<visible, stored, asks, words>>
    BY DEF P!Removed, P!bounds
  <2>3. listed' \subseteq P!Row /\ gone' \subseteq P!Row \ listed' /\ stored' \in [P!Row -> Texts]
    BY <2>1, <2>2, <1>y
  <2> QED BY <2>2, <2>3, <1>e, <1>d, <1>n, <1>x
<1>15. CASE \E c \in Waiting : \E k \in P!Kinds : P!CancelEdit(c, k)
  <2> PICK c \in Waiting, k \in P!Kinds : P!CancelEdit(c, k)
    BY <1>15
  <2>1. /\ P!Starts(c, P!Focusing(setup[k].of, stored[setup[k].of], FALSE)) /\ setup[k].of # P!New
        /\ UNCHANGED <<visible, listed, gone, stored, setup, settingsSelection, words, owed, chosen, late,
                       swept>>
    BY DEF P!CancelEdit, P!Dirty, P!Editing, P!history
  <2>2. setup[k].of \in P!Row
    BY <2>1, <1>f
  <2> QED BY <2>1, <2>2, <1>i, <1>s, FocusingIs DEF PanelTypes
<1>16. CASE \E c \in Waiting : \E k \in P!Kinds : P!Save(c, k)
  <2> PICK c \in Waiting, k \in P!Kinds : P!Save(c, k)
    BY <1>16
  <2> DEFINE to == [pc |-> "save", kind |-> k, of |-> setup[k].of, text |-> setup[k].text, since |-> FALSE]
  <2>1. /\ P!Starts(c, to)
        /\ UNCHANGED <<visible, listed, gone, stored, setup, settingsSelection, words, owed, chosen, late,
                       swept>>
    BY DEF P!Save, P!history
  <2>2. to \in Calls
    BY <1>f DEF Calls, Saves
  <2>3. to.pc = "save" /\ to.of = setup[k].of /\ to.kind = k
    OBVIOUS
  <2>4. setup[k].of = P!New \/ P!Kind(setup[k].of) = k
    BY DEF PanelTypes, P!TypeOK
  <2> HIDE DEF to
  <2> QED BY <2>1, <2>2, <2>3, <2>4, <1>i DEF PanelTypes
<1>17. CASE \E c \in Waiting : \E k \in P!Kinds : P!Remove(c, k)
  <2> PICK c \in Waiting, k \in P!Kinds : P!Remove(c, k)
    BY <1>17
  <2> DEFINE to == [pc |-> "remove", of |-> setup[k].of, since |-> FALSE]
  <2>1. /\ P!Starts(c, to) /\ setup[k].of \in listed
        /\ UNCHANGED <<visible, listed, gone, stored, setup, settingsSelection, words, owed, chosen, late,
                       swept>>
    BY DEF P!Remove, P!history
  <2>2. to \in Calls /\ to.pc = "remove"
    BY <2>1, <1>l DEF Calls, Removes
  <2> HIDE DEF to
  <2> QED BY <2>1, <2>2, <1>i DEF PanelTypes
<1> QED BY <1>1, <1>2, <1>3, <1>4, <1>5, <1>6, <1>7, <1>8, <1>9, <1>10, <1>11, <1>12, <1>13, <1>14, <1>15,
           <1>16, <1>17 DEF P!Next

\* The reader acts: what was under way is late, and otherwise nothing is.
LEMMA ActsChosen ==
  ASSUME PanelTypes, Chosen, P!Acts, late' = late,
         TypedOrTold /\ settingsSelection = chosen => TypedOrTold' /\ settingsSelection' = chosen'
  PROVE  Chosen'
<1>. USE KindIs
<1>0. \A o \in Waiting : call'[o] = P!Passed(call[o]) /\ call[o] \in Calls
  BY ActsOn DEF PanelTypes
<1>p. \A o \in Waiting : call'[o].pc = call[o].pc /\ (call[o].pc # "idle" => call'[o].since = TRUE)
  BY <1>0, PassedIs
<1>1. CASE \E o \in Waiting : ~P!Is(o, "idle")
  BY <1>1, <1>p DEF Chosen, Stale, P!Is
<1>2. CASE \A o \in Waiting : P!Is(o, "idle")
  <2>1. \A o \in Waiting : call'[o].pc = "idle"
    BY <1>2, <1>p DEF P!Is
  <2>2. late \/ (TypedOrTold /\ settingsSelection = chosen)
    BY <1>2 DEF Chosen, Stale
  <2> QED BY <2>1, <2>2 DEF Chosen, P!Is, Fresh
<1> QED BY <1>1, <1>2

\* And so when they ask for something, which is then all that is under way.
LEMMA StartsChosen ==
  ASSUME P!Bounds, PanelTypes, Chosen, NEW c \in Waiting, NEW to \in Calls, P!Starts(c, to), late' = late,
         to.pc # "idle",
         TypedOrTold /\ settingsSelection = chosen => TypedOrTold' /\ Fresh(c)'
  PROVE  Chosen'
<1>. USE KindIs
<1>0. /\ call[c].pc = "idle" /\ call'[c] = to /\ \A o \in Waiting \ {c} : call'[o] = P!Passed(call[o])
      /\ \A o \in Waiting : call[o] \in Calls
  BY StartsOne DEF PanelTypes, P!Bounds
<1>p. \A o \in Waiting \ {c} : call'[o].pc = call[o].pc /\ (call[o].pc # "idle" => call'[o].since = TRUE)
  <2>1. \A o \in Waiting : P!Passed(call[o]).pc = call[o].pc /\ (call[o].pc # "idle" => P!Passed(call[o]).since = TRUE)
    BY <1>0, PassedIs
  <2> QED BY <1>0, <2>1
<1>1. CASE \E o \in Waiting : ~P!Is(o, "idle")
  BY <1>0, <1>1, <1>p DEF Chosen, Stale, P!Is
<1>2. CASE \A o \in Waiting : P!Is(o, "idle")
  <2>1. \A o \in Waiting \ {c} : call'[o].pc = "idle"
    BY <1>2, <1>p DEF P!Is
  <2>2. late \/ (TypedOrTold' /\ Fresh(c)')
    BY <1>2 DEF Chosen, Stale
  <2>3. ASSUME TypedOrTold', Fresh(c)' PROVE Chosen'
    <3>1. \A o \in Waiting : Fresh(o)'
      <4> SUFFICES ASSUME NEW o \in Waiting PROVE Fresh(o)'
        OBVIOUS
      <4>1. CASE o = c
        BY <4>1, <2>3
      <4>2. CASE o # c
        BY <4>2, <2>1 DEF Fresh, P!Is
      <4> QED BY <4>1, <4>2
    <3> QED BY <2>1, <2>3, <3>1, <1>0 DEF Chosen, P!Is
  <2> QED BY <2>2, <2>3 DEF Chosen
<1> QED BY <1>1, <1>2

\* What was asked for ends: in time, with what was chosen shown, or late.
LEMMA LandsChosen ==
  ASSUME PanelTypes, Chosen, NEW c \in Waiting, P!Lands(c), ~P!Is(c, "idle"),
         ~call[c].since /\ TypedOrTold /\ Fresh(c) => TypedOrTold' /\ settingsSelection' = chosen'
  PROVE  Chosen'
<1>. USE KindIs
<1>0. P!Idle \in Calls /\ P!Becomes(c, P!Idle) /\ late' = (late \/ call[c].since)
  BY DEF Calls, P!Lands
<1>1. call'[c] = P!Idle /\ \A o \in Waiting \ {c} : call'[o] = call[o]
  BY <1>0, BecomesOne
<1>2. CASE late \/ call[c].since
  BY <1>0, <1>2 DEF Chosen
<1>3. CASE ~late /\ ~call[c].since /\ \E o \in Waiting : Stale(o)
  <2> PICK o \in Waiting : Stale(o)
    BY <1>3
  <2>1. o # c
    BY <1>3 DEF Stale
  <2> QED BY <1>1, <2>1 DEF Chosen, Stale, P!Is
<1>4. CASE ~late /\ ~call[c].since /\ ~\E o \in Waiting : Stale(o)
  <2>1. TypedOrTold /\ Fresh(c) /\ \A o \in Waiting \ {c} : P!Is(o, "idle")
    BY <1>4 DEF Chosen
  <2>2. \A o \in Waiting : call'[o].pc = "idle"
    BY <1>1, <2>1 DEF P!Is
  <2>3. TypedOrTold' /\ settingsSelection' = chosen'
    BY <2>1, <1>4
  <2> QED BY <2>2, <2>3 DEF Chosen, P!Is, Fresh
<1> QED BY <1>2, <1>3, <1>4

\* And so when it goes on to look a row up.
LEMMA LooksUpChosen ==
  ASSUME PanelTypes, Chosen, NEW c \in Waiting, NEW to \in Calls, P!Becomes(c, to), ~P!Is(c, "idle"), to.pc # "idle",
         to.since = call[c].since, late' = late,
         ~call[c].since /\ TypedOrTold /\ Fresh(c) => TypedOrTold' /\ Fresh(c)'
  PROVE  Chosen'
<1>1. call'[c] = to /\ \A o \in Waiting \ {c} : call'[o] = call[o]
  BY BecomesOne
<1>2. CASE late \/ call[c].since
  BY <1>1, <1>2 DEF Chosen, Stale, P!Is
<1>3. CASE ~late /\ ~call[c].since /\ \E o \in Waiting : Stale(o)
  <2> PICK o \in Waiting : Stale(o)
    BY <1>3
  <2>1. o # c
    BY <1>3 DEF Stale
  <2> QED BY <1>1, <2>1 DEF Chosen, Stale, P!Is
<1>4. CASE ~late /\ ~call[c].since /\ ~\E o \in Waiting : Stale(o)
  <2>1. TypedOrTold /\ Fresh(c) /\ \A o \in Waiting \ {c} : P!Is(o, "idle")
    BY <1>4 DEF Chosen
  <2>2. \A o \in Waiting \ {c} : call'[o].pc = "idle"
    BY <1>1, <2>1 DEF P!Is
  <2>3. TypedOrTold' /\ Fresh(c)'
    BY <2>1, <1>4
  <2>4. \A o \in Waiting : Fresh(o)'
    <3> SUFFICES ASSUME NEW o \in Waiting PROVE Fresh(o)'
      OBVIOUS
    <3>1. CASE o = c
      BY <3>1, <2>3
    <3>2. CASE o # c
      BY <3>2, <2>2 DEF Fresh, P!Is
    <3> QED BY <3>1, <3>2
  <2> QED BY <2>2, <2>3, <2>4, <1>1 DEF Chosen, P!Is
<1> QED BY <1>2, <1>3, <1>4

\* A form in front that is a row's is of the row that is marked.
LEMMA FrontIs ==
  ASSUME PanelTypes, Placed, NEW k \in P!Kinds, P!Front(k), P!Editing(k)
  PROVE  settingsSelection = P!RowOf(setup[k].of)
<1>. USE KindIs
<1>1. settingsSelection.kind = k
  BY DEF P!Front, Placed
<1>2. PICK r \in P!Row : settingsSelection = P!RowOf(r)
  BY <1>1 DEF PanelTypes, Selection
<1> QED BY <1>1, <1>2 DEF PanelTypes, P!TypeOK

\* What is typed in one form is not in the other.
LEMMA TextsDiffer ==
  ASSUME P!Bounds, PanelTypes, TextsApart, NEW j \in P!Kinds, NEW k \in P!Kinds, j # k, NEW n \in owed, HasText(j, n)
  PROVE  ~HasText(k, n)
<1>1. words \in 0..MaxWords /\ owed \subseteq 1..words /\ MaxWords \in Nat
  BY DEF PanelTypes, P!TypeOK, P!Bounds
<1>2. n \in 1..MaxWords
  BY <1>1
<1> QED BY <1>2, KindIs DEF TextsApart

\* Words are where they were typed until they are saved or let go of.
LEMMA TypedStep ==
  ASSUME P!Bounds, PanelTypes, P!TypedStays, P!Next
  PROVE  P!TypedStays'
<1>. USE KindIs
<1>k. \A o \in Waiting : call[o] \in Calls
  BY DEF PanelTypes
<1>f. \A k \in P!Kinds : setup[k] \in Form /\ setup \in [P!Kinds -> Form]
  BY DEF PanelTypes
<1>1. ASSUME late => late', swept => swept', UNCHANGED setup, owed' \subseteq owed PROVE P!TypedStays'
  BY <1>1 DEF P!TypedStays
<1>2. ASSUME late => late', P!Drops PROVE P!TypedStays'
  <2> SUFFICES ASSUME ~late', ~swept', NEW n \in owed' PROVE FALSE
    BY DEF P!TypedStays
  <2>1. n \in owed /\ n \notin {setup[k].text : k \in {f \in P!Kinds : P!Front(f)}} /\ ~swept
    BY <1>2 DEF P!Drops
  <2>2. PICK k \in P!Kinds : n = setup[k].text
    BY <1>2, <2>1 DEF P!TypedStays
  <2> QED BY <1>2, <2>1, <2>2 DEF P!Drops
<1>3. ASSUME NEW k \in P!Kinds, P!TypeIn(k) PROVE P!TypedStays'
  <2>1. /\ setup' = [setup EXCEPT ![k].text = words'] /\ owed' = (owed \ {setup[k].text}) \cup {words'}
        /\ UNCHANGED <<late, swept>>
    BY <1>3 DEF P!TypeIn
  <2>2. setup'[k].text = words' /\ \A j \in P!Kinds \ {k} : setup'[j] = setup[j]
    BY <2>1, <1>f DEF Form
  <2> QED BY <2>1, <2>2 DEF P!TypedStays
<1>4. ASSUME NEW c \in Waiting, P!Focused(c) PROVE P!TypedStays'
  <2> PICK r \in P!Row : r = call[c].of
    BY <1>4, <1>k, CallIs DEF P!Focused, P!Is
  <2>1. /\ setup' = [setup EXCEPT ![P!Kind(r)] = [of |-> r, text |-> call[c].text]]
        /\ owed' = IF call[c].since THEN owed ELSE owed \ {setup[P!Kind(r)].text}
        /\ late' = (late \/ call[c].since) /\ UNCHANGED swept
    BY <1>4 DEF P!Focused, P!Lands
  <2>2. \A j \in P!Kinds \ {P!Kind(r)} : setup'[j] = setup[j]
    BY <2>1, <1>f
  <2> SUFFICES ASSUME ~late', ~swept, NEW n \in owed' PROVE \E k \in P!Kinds : n = setup'[k].text
    BY <2>1 DEF P!TypedStays
  <2>3. ~late /\ n \in owed /\ n # setup[P!Kind(r)].text
    BY <2>1
  <2>4. PICK k \in P!Kinds : n = setup[k].text
    BY <2>3 DEF P!TypedStays
  <2>5. k \in P!Kinds \ {P!Kind(r)}
    BY <2>3, <2>4
  <2> QED BY <2>2, <2>4, <2>5
<1>5. ASSUME NEW c \in Waiting, P!Lands(c) PROVE late => late'
  BY <1>5 DEF P!Lands
<1>6. CASE \E k \in P!Kinds : P!StartAdd(k) \/ P!ChooseKind(k) \/ P!CancelAdd(k) \/ P!Done(k)
  BY <1>6, <1>1, <1>2 DEF P!StartAdd, P!ChooseKind, P!CancelAdd, P!Done, P!CloseSetup, P!history
<1>7. CASE P!CloseSetup
  BY <1>7, <1>1 DEF P!CloseSetup, P!history
<1>8. CASE \E c \in Waiting : P!OpenSetup(c) \/ P!EditSource(c) \/ \E r \in P!Row : P!ClickRow(c, r)
  <2>1. UNCHANGED <<setup, owed, late, swept>>
    BY <1>8 DEF P!OpenSetup, P!EditSource, P!ClickRow
  <2> QED BY <2>1, <1>1
<1>9. CASE \E c \in Waiting, k \in P!Kinds : P!CancelEdit(c, k) \/ P!Save(c, k) \/ P!Remove(c, k)
  <2>1. UNCHANGED <<setup, owed, late, swept>>
    BY <1>9 DEF P!CancelEdit, P!Save, P!Remove, P!history
  <2> QED BY <2>1, <1>1
<1>10. CASE \E c \in Waiting : P!NotFocused(c) \/ P!NotSaved(c) \/ P!NotRemoved(c)
  BY <1>10, <1>1, <1>5 DEF P!NotFocused, P!NotSaved, P!NotRemoved
<1>11. CASE \E c \in Waiting : P!SavedEdit(c) \/ P!Removed(c)
  BY <1>11, <1>1, <1>2, <1>5 DEF P!SavedEdit, P!Removed
<1>12. CASE \E c \in Waiting : P!SavedAdd(c)
  <2> PICK c \in Waiting : P!SavedAdd(c)
    BY <1>12
  <2>1. \/ P!Drops /\ P!Lands(c)
        \/ owed' = owed \ {call[c].text} /\ UNCHANGED <<setup, settingsSelection, late, swept>>
    BY DEF P!SavedAdd
  <2> QED BY <2>1, <1>1, <1>2, <1>5
<1> QED BY <1>3, <1>4, <1>6, <1>7, <1>8, <1>9, <1>10, <1>11, <1>12 DEF P!Next

\* No text turns up in a form's reach but the one that is being typed there.
LEMMA TextsStep ==
  ASSUME P!Bounds, PanelTypes, Placed, P!Next, NEW k \in P!Kinds, NEW n \in 1..MaxWords, HasText(k, n)'
  PROVE  HasText(k, n) \/ (P!TypeIn(k) /\ n = words')
<1>. USE KindIs
<1> SUFFICES ASSUME ~(P!TypeIn(k) /\ n = words') PROVE HasText(k, n)
  OBVIOUS
<1>0. n # 0 /\ n \in Texts
  BY DEF Texts, P!Bounds
<1>k. \A o \in Waiting : call[o] \in Calls
  BY DEF PanelTypes
<1>f. setup \in [P!Kinds -> Form] /\ stored \in [P!Row -> Texts]
  BY DEF PanelTypes, P!TypeOK, Texts
<1>h. P!Idle \in Calls
  BY DEF Calls
<1> DEFINE A == setup'[k].text = n => HasText(k, n)
           B == \A r \in P!Row : P!Kind(r) = k /\ stored'[r] = n => HasText(k, n)
           C == \A o \in Waiting : CallOf(k, call'[o]) /\ call'[o].text = n => HasText(k, n)
<1>q. A /\ B /\ C => HasText(k, n)
  BY DEF HasText, CallOf, P!Kind
<1>a. ASSUME UNCHANGED setup PROVE A
  BY <1>a DEF HasText
<1>d. ASSUME P!Drops PROVE A
  BY <1>d, <1>0, DropsAll
<1>s. ASSUME UNCHANGED stored PROVE B
  BY <1>s DEF HasText
<1>p. \A o \in Waiting : CallOf(k, P!Passed(call[o])) => CallOf(k, call[o]) /\ P!Passed(call[o]).text = call[o].text
  <2> SUFFICES ASSUME NEW o \in Waiting, CallOf(k, P!Passed(call[o]))
               PROVE  CallOf(k, call[o]) /\ P!Passed(call[o]).text = call[o].text
    OBVIOUS
  <2>1. /\ P!Passed(call[o]).pc = call[o].pc
        /\ call[o].pc = "focus" => P!Passed(call[o]).of = call[o].of /\ P!Passed(call[o]).text = call[o].text
        /\ call[o].pc = "save" => P!Passed(call[o]).of = call[o].of /\ P!Passed(call[o]).text = call[o].text /\ P!Passed(call[o]).kind = call[o].kind
    BY <1>k, PassedIs
  <2> QED BY <2>1 DEF CallOf
<1>1. ASSUME P!Acts PROVE C
  <2>1. \A o \in Waiting : call'[o] = P!Passed(call[o])
    BY <1>1, ActsOn
  <2> QED BY <2>1, <1>p DEF HasText
<1>2. ASSUME NEW c \in Waiting, NEW to \in Calls, P!Starts(c, to), CallOf(k, to) /\ to.text = n => HasText(k, n)
      PROVE  C
  <2>1. call'[c] = to /\ \A o \in Waiting \ {c} : call'[o] = P!Passed(call[o])
    BY <1>2, StartsOne DEF P!Bounds
  <2> SUFFICES ASSUME NEW o \in Waiting, CallOf(k, call'[o]), call'[o].text = n PROVE HasText(k, n)
    OBVIOUS
  <2>2. CASE o = c
    BY <2>1, <2>2, <1>2
  <2>3. CASE o # c
    BY <2>1, <2>3, <1>p DEF HasText
  <2> QED BY <2>2, <2>3
<1>3. ASSUME NEW c \in Waiting, NEW to \in Calls, P!Becomes(c, to), CallOf(k, to) /\ to.text = n => HasText(k, n)
      PROVE  C
  <2>1. call'[c] = to /\ \A o \in Waiting \ {c} : call'[o] = call[o]
    BY <1>3, BecomesOne
  <2> SUFFICES ASSUME NEW o \in Waiting, CallOf(k, call'[o]), call'[o].text = n PROVE HasText(k, n)
    OBVIOUS
  <2>2. CASE o = c
    BY <2>1, <2>2, <1>3
  <2>3. CASE o # c
    BY <2>1, <2>3 DEF HasText
  <2> QED BY <2>2, <2>3
<1>4. ASSUME NEW c \in Waiting, P!Lands(c) PROVE C
  <2>1. ~CallOf(k, P!Idle)
    BY DEF CallOf
  <2> QED BY <1>4, <1>3, <1>h, <2>1 DEF P!Lands
<1> HIDE DEF A, B, C
\* A look at a row begins with what is recorded of it.
<1>5. ASSUME NEW c \in Waiting, NEW r \in P!Row, NEW b \in BOOLEAN, P!Starts(c, P!Focusing(r, stored[r], b))
      PROVE  C
  <2> PICK m \in Texts : m = stored[r]
    BY <1>f
  <2> PICK to : to = P!Focusing(r, m, b)
    OBVIOUS
  <2>1. to \in Calls /\ to.pc = "focus" /\ to.of = r /\ to.text = m
    <3>1. to \in Focuses
      BY DEF P!Focusing, Focuses
    <3> QED BY <3>1 DEF P!Focusing, Calls
  <2>2. P!Starts(c, to)
    BY <1>5
  <2>3. ASSUME CallOf(k, to), to.text = n PROVE HasText(k, n)
    <3>1. P!Kind(r) = k /\ stored[r] = n
      BY <2>1, <2>3 DEF CallOf
    <3> QED BY <3>1 DEF HasText
  <2> QED BY <2>1, <2>2, <2>3, <1>2
<1>6. CASE \E j \in P!Kinds : P!StartAdd(j) \/ P!CancelAdd(j)
  <2>1. P!Drops /\ P!Acts /\ UNCHANGED stored
    BY <1>6 DEF P!StartAdd, P!CancelAdd
  <2> QED BY <2>1, <1>d, <1>s, <1>1, <1>q
<1>7. CASE \E j \in P!Kinds : P!ChooseKind(j)
  <2>1. P!Acts /\ UNCHANGED <<stored, setup>>
    BY <1>7 DEF P!ChooseKind
  <2> QED BY <2>1, <1>a, <1>s, <1>1, <1>q
<1>8. CASE P!CloseSetup \/ \E j \in P!Kinds : P!Done(j)
  <2>1. UNCHANGED <<setup, stored, call>>
    BY <1>8 DEF P!CloseSetup, P!Done
  <2> QED BY <2>1 DEF HasText, CallOf, P!Kind
<1>9. CASE \E j \in P!Kinds : P!TypeIn(j)
  <2> PICK j \in P!Kinds : P!TypeIn(j)
    BY <1>9
  <2>1. /\ setup' = [setup EXCEPT ![j].text = words'] /\ P!Acts /\ UNCHANGED stored
    BY DEF P!TypeIn
  <2>2. setup'[j].text = words' /\ \A i \in P!Kinds \ {j} : setup'[i] = setup[i]
    BY <2>1, <1>f DEF Form
  <2>3. A
    BY <2>2 DEF A, HasText
  <2> QED BY <2>1, <2>3, <1>s, <1>1, <1>q
<1>10. CASE \E c \in Waiting : P!OpenSetup(c)
  <2> PICK c \in Waiting : P!OpenSetup(c)
    BY <1>10
  <2>1. UNCHANGED <<stored, setup>>
    BY DEF P!OpenSetup
  <2>2. CASE \E r \in IF P!Here("source") # {} THEN P!Here("source") ELSE listed : P!Starts(c, P!Focusing(r, stored[r], FALSE))
    <3>1. listed \subseteq P!Row /\ P!Here("source") \subseteq P!Row
      BY DEF PanelTypes, P!TypeOK, P!Here
    <3>2. C
      BY <2>2, <3>1, <1>5
    <3> QED BY <2>1, <3>2, <1>a, <1>s, <1>q
  <2>3. CASE P!Acts
    BY <2>1, <2>3, <1>1, <1>a, <1>s, <1>q
  <2> QED BY <2>2, <2>3 DEF P!OpenSetup
<1>11. CASE \E c \in Waiting : P!EditSource(c)
  <2> PICK c \in Waiting : P!EditSource(c)
    BY <1>11
  <2>1. UNCHANGED <<stored, setup>> /\ \E r \in P!Here("source") : P!Starts(c, P!Focusing(r, stored[r], TRUE))
    BY DEF P!EditSource
  <2>2. P!Here("source") \subseteq P!Row
    BY DEF PanelTypes, P!TypeOK, P!Here
  <2>3. C
    BY <2>1, <2>2, <1>5
  <2> QED BY <2>1, <2>3, <1>a, <1>s, <1>q
<1>12. CASE \E c \in Waiting : \E r \in P!Row : P!ClickRow(c, r)
  <2> PICK c \in Waiting, r \in P!Row : P!ClickRow(c, r)
    BY <1>12
  <2>1. UNCHANGED <<stored, setup>> /\ P!Starts(c, P!Focusing(r, stored[r], FALSE))
    BY DEF P!ClickRow
  <2>2. C
    BY <2>1, <1>5
  <2> QED BY <2>1, <2>2, <1>a, <1>s, <1>q
<1>13. CASE \E c \in Waiting : P!Focused(c)
  <2> PICK c \in Waiting : P!Focused(c)
    BY <1>13
  <2> PICK r \in P!Row : r = call[c].of
    BY <1>k, CallIs DEF P!Focused, P!Is
  <2>1. /\ setup' = [setup EXCEPT ![P!Kind(r)] = [of |-> r, text |-> call[c].text]]
        /\ P!Lands(c) /\ UNCHANGED stored /\ call[c].pc = "focus"
    BY DEF P!Focused, P!Is
  <2>2. setup'[P!Kind(r)].text = call[c].text /\ \A i \in P!Kinds \ {P!Kind(r)} : setup'[i] = setup[i]
    BY <2>1, <1>f
  <2>3. A
    BY <2>1, <2>2 DEF A, HasText, CallOf
  <2> QED BY <2>1, <2>3, <1>4, <1>s, <1>q
<1>14. CASE \E c \in Waiting : P!NotFocused(c) \/ P!NotSaved(c) \/ P!NotRemoved(c)
  <2> PICK c \in Waiting : P!Lands(c) /\ UNCHANGED <<setup, stored>>
    BY <1>14 DEF P!NotFocused, P!NotSaved, P!NotRemoved
  <2> QED BY <1>a, <1>s, <1>4, <1>q
<1>15. CASE \E c \in Waiting : P!Removed(c)
  <2> PICK c \in Waiting : P!Lands(c) /\ P!Drops /\ UNCHANGED stored
    BY <1>15 DEF P!Removed
  <2> QED BY <1>d, <1>s, <1>4, <1>q
<1>16. CASE \E c \in Waiting : P!SavedEdit(c)
  <2> PICK c \in Waiting : P!SavedEdit(c)
    BY <1>16
  <2>1. /\ call[c].pc = "save" /\ call[c].of \in P!Row /\ call[c].text \in Texts /\ call[c].since \in BOOLEAN
        /\ P!Kind(call[c].of) = call[c].kind
    BY <1>k, CallIs DEF P!SavedEdit, P!Is, Placed
  <2>2. /\ stored' = [stored EXCEPT ![call[c].of] = call[c].text] /\ P!LooksUp(c, call[c].of) /\ UNCHANGED setup
    BY DEF P!SavedEdit
  <2>3. CallOf(call[c].kind, call[c])
    BY <2>1 DEF CallOf
  <2>4. B
    BY <2>1, <2>2, <2>3, <1>f DEF B, HasText
  <2>5. C
    <3> PICK to \in Calls : P!Becomes(c, to) /\ to.pc = "focus" /\ to.of = call[c].of /\ to.text = call[c].text
      BY <2>1, <2>2, LooksUpIs
    <3>1. ASSUME CallOf(k, to), to.text = n PROVE HasText(k, n)
      <4>1. k = call[c].kind /\ call[c].text = n
        BY <2>1, <3>1 DEF CallOf
      <4> QED BY <4>1, <2>3 DEF HasText
    <3> QED BY <3>1, <1>3
  <2> QED BY <2>2, <2>4, <2>5, <1>a, <1>q
<1>17. CASE \E c \in Waiting : P!SavedAdd(c)
  <2> PICK c \in Waiting : P!SavedAdd(c)
    BY <1>17
  <2>1. call[c].pc = "save" /\ call[c].kind \in P!Kinds /\ call[c].text \in Texts /\ call[c].since \in BOOLEAN
    BY <1>k, CallIs DEF P!SavedAdd, P!Is
  <2>3. CallOf(call[c].kind, call[c])
    BY <2>1 DEF CallOf
  <2> PICK r \in P!Row \ (listed \cup gone) :
       /\ P!Kind(r) = call[c].kind
       /\ stored' = [stored EXCEPT ![r] = call[c].text]
       /\ (P!Drops /\ P!Lands(c)) \/ (P!LooksUp(c, r) /\ UNCHANGED setup)
    BY DEF P!SavedAdd
  <2>4. B
    BY <2>1, <2>3, <1>f DEF B, HasText
  <2>5. CASE P!Drops /\ P!Lands(c)
    BY <2>4, <2>5, <1>d, <1>4, <1>q
  <2>6. CASE P!LooksUp(c, r) /\ UNCHANGED setup
    <3> PICK to \in Calls : P!Becomes(c, to) /\ to.pc = "focus" /\ to.of = r /\ to.text = call[c].text
      BY <2>1, <2>6, LooksUpIs
    <3>1. CallOf(k, to) /\ to.text = n => HasText(k, n)
      BY <2>1, <2>3 DEF CallOf, HasText
    <3>2. C
      BY <3>1, <1>3
    <3> QED BY <2>4, <2>6, <3>2, <1>a, <1>q
  <2> QED BY <2>5, <2>6
<1>18. CASE \E c \in Waiting : \E j \in P!Kinds : P!CancelEdit(c, j)
  <2> PICK c \in Waiting, j \in P!Kinds : P!CancelEdit(c, j)
    BY <1>18
  <2>1. /\ UNCHANGED <<stored, setup>> /\ P!Starts(c, P!Focusing(setup[j].of, stored[setup[j].of], FALSE))
        /\ setup[j].of \in P!Row
    BY <1>f DEF P!CancelEdit, P!Dirty, P!Editing, Form
  <2>2. C
    BY <2>1, <1>5
  <2> QED BY <2>1, <2>2, <1>a, <1>s, <1>q
<1>19. CASE \E c \in Waiting : \E j \in P!Kinds : P!Save(c, j)
  <2> PICK c \in Waiting, j \in P!Kinds : P!Save(c, j)
    BY <1>19
  <2> DEFINE to == [pc |-> "save", kind |-> j, of |-> setup[j].of, text |-> setup[j].text, since |-> FALSE]
  <2>1. P!Starts(c, to) /\ UNCHANGED <<stored, setup>>
    BY DEF P!Save
  <2>2. to \in Calls
    BY <1>f DEF Calls, Saves, Form
  <2>3. to.pc = "save" /\ to.kind = j /\ to.text = setup[j].text
    OBVIOUS
  <2> HIDE DEF to
  <2>5. ASSUME CallOf(k, to), to.text = n PROVE HasText(k, n)
    <3>1. k = j
      BY <2>3, <2>5 DEF CallOf
    <3> QED BY <3>1, <2>3, <2>5 DEF HasText
  <2>4. C
    BY <2>1, <2>2, <2>5, <1>2
  <2> QED BY <2>1, <2>4, <1>a, <1>s, <1>q
<1>20. CASE \E c \in Waiting : \E j \in P!Kinds : P!Remove(c, j)
  <2> PICK c \in Waiting, j \in P!Kinds : P!Remove(c, j)
    BY <1>20
  <2> DEFINE to == [pc |-> "remove", of |-> setup[j].of, since |-> FALSE]
  <2>1. P!Starts(c, to) /\ UNCHANGED <<stored, setup>> /\ setup[j].of \in P!Row
    BY DEF P!Remove, PanelTypes, P!TypeOK
  <2>2. to \in Calls /\ ~CallOf(k, to)
    BY <2>1 DEF Calls, Removes, CallOf
  <2> HIDE DEF to
  <2>4. C
    BY <2>1, <2>2, <1>2
  <2> QED BY <2>1, <2>4, <1>a, <1>s, <1>q
<1> QED BY <1>6, <1>7, <1>8, <1>9, <1>10, <1>11, <1>12, <1>13, <1>14, <1>15, <1>16, <1>17, <1>18, <1>19,
           <1>20 DEF P!Next

\* So what is typed in one form stays out of the other.
LEMMA TextsApartStep ==
  ASSUME P!Bounds, PanelTypes, Placed, TextsApart, P!Next
  PROVE  TextsApart'
<1>. USE KindIs
<1>0. words \in Nat
  BY DEF PanelTypes, P!TypeOK, P!Bounds
<1>1. words' = words \/ words' = words + 1
  <2>1. CASE \E k \in P!Kinds : P!TypeIn(k)
    BY <2>1 DEF P!TypeIn
  <2>2. CASE ~\E k \in P!Kinds : P!TypeIn(k)
    <3>1. \/ P!CloseSetup
          \/ \E k \in P!Kinds : P!StartAdd(k) \/ P!ChooseKind(k) \/ P!CancelAdd(k) \/ P!Done(k)
          \/ \E c \in Waiting : P!OpenSetup(c) \/ P!EditSource(c) \/ \E r \in P!Row : P!ClickRow(c, r)
          \/ \E c \in Waiting, k \in P!Kinds : P!CancelEdit(c, k) \/ P!Save(c, k) \/ P!Remove(c, k)
          \/ \E c \in Waiting : P!Focused(c) \/ P!NotFocused(c) \/ P!SavedEdit(c) \/ P!SavedAdd(c) \/ P!NotSaved(c) \/ P!Removed(c) \/ P!NotRemoved(c)
      BY <2>2 DEF P!Next
    <3>2. UNCHANGED words
      BY <3>1 DEF P!CloseSetup, P!StartAdd, P!ChooseKind, P!CancelAdd, P!Done, P!OpenSetup, P!EditSource,
         P!ClickRow, P!CancelEdit, P!Save, P!Remove,
         P!Focused, P!NotFocused, P!SavedEdit, P!SavedAdd, P!NotSaved, P!Removed, P!NotRemoved, P!bounds
    <3> QED BY <3>2
  <2> QED BY <2>1, <2>2
<1>2. \A k \in P!Kinds : P!TypeIn(k) => words' = words + 1
  BY DEF P!TypeIn
<1>3. \A k \in P!Kinds, n \in 1..MaxWords : HasText(k, n)' => HasText(k, n) \/ (P!TypeIn(k) /\ n = words')
  BY TextsStep
<1>4. \A j, k \in P!Kinds : P!TypeIn(j) /\ P!TypeIn(k) => j = k
  <2> SUFFICES ASSUME NEW j \in P!Kinds, NEW k \in P!Kinds, P!TypeIn(j), P!TypeIn(k), j # k PROVE FALSE
    OBVIOUS
  <2>1. setup \in [P!Kinds -> Form] /\ words \in 0..MaxWords
    BY DEF PanelTypes, P!TypeOK
  <2>2. P!Front(j) /\ P!Front(k)
    BY DEF P!TypeIn, P!Shown
  <2>3. P!Adding(j) # P!Adding(k) /\ j # "add" /\ k # "add"
    BY DEF P!Adding
  <2> QED BY <2>2, <2>3 DEF P!Front, P!Adding
<1> SUFFICES ASSUME NEW n \in 1..MaxWords
             PROVE  /\ HasText("source", n)' \/ HasText("destination", n)' => n <= words'
                    /\ ~(HasText("source", n)' /\ HasText("destination", n)')
  BY DEF TextsApart
<1>5. \A k \in P!Kinds : HasText(k, n) => n <= words
  BY DEF TextsApart
<1>6. \A k \in P!Kinds : HasText(k, n)' => n <= words'
  BY <1>0, <1>1, <1>2, <1>3, <1>5
<1>7. "source" \in P!Kinds /\ "destination" \in P!Kinds /\ ~(HasText("source", n) /\ HasText("destination", n))
  BY DEF TextsApart
<1>8. ASSUME HasText("source", n)', HasText("destination", n)' PROVE FALSE
  <2>1. HasText("source", n) \/ (P!TypeIn("source") /\ n = words')
    BY <1>3, <1>7, <1>8
  <2>2. HasText("destination", n) \/ (P!TypeIn("destination") /\ n = words')
    BY <1>3, <1>7, <1>8
  <2> QED BY <2>1, <2>2, <1>0, <1>2, <1>4, <1>5, <1>7
<1> QED BY <1>6, <1>7, <1>8

\* What is let go of in one form stays told of in the other.
LEMMA OtherTold ==
  ASSUME P!Bounds, PanelTypes, TextsApart, TypedOrTold, NEW k \in P!Kinds, NEW m, HasText(k, m), NEW j \in P!Kinds, j # k,
         P!Editing(j)', setup'[j] = setup[j], owed \ {m} \subseteq owed', stored'[setup[j].of] = stored[setup[j].of]
  PROVE  setup'[j].text \in owed' \cup {stored'[setup'[j].of]}
<1>1. setup[j].text \in owed \cup {stored[setup[j].of]}
  BY DEF TypedOrTold, P!Editing
<1>2. CASE setup[j].text = stored[setup[j].of]
  BY <1>2
<1>3. CASE setup[j].text \in owed
  <2>1. setup[j].text # m
    <3> SUFFICES ASSUME setup[j].text = m PROVE FALSE
      OBVIOUS
    <3>1. m \in owed /\ HasText(j, m)
      BY <1>3 DEF HasText
    <3> QED BY <3>1, TextsDiffer
  <2> QED BY <1>3, <2>1
<1> QED BY <1>1, <1>2, <1>3

\* What the reader chose last is shown once nothing is under way.
LEMMA ChosenStep ==
  ASSUME P!Bounds, PanelTypes, TextsApart, Placed, Chosen, P!Next
  PROVE  Chosen'
<1>. USE KindIs
<1>k. \A o \in Waiting : call[o] \in Calls
  BY DEF PanelTypes
<1>f. setup \in [P!Kinds -> Form] /\ stored \in [P!Row -> Texts] /\ \A j \in P!Kinds : setup[j].of = P!New \/ P!Kind(setup[j].of) = j
  BY DEF PanelTypes, P!TypeOK, Texts
<1>l. listed \subseteq P!Row /\ \A k \in P!Kinds : P!Here(k) \subseteq P!Row
  BY DEF PanelTypes, P!TypeOK, P!Here
<1>t. ASSUME UNCHANGED <<setup, owed, stored>>, TypedOrTold PROVE TypedOrTold'
  BY <1>t DEF TypedOrTold, P!Editing
<1>d. ASSUME P!Drops PROVE TypedOrTold'
  BY <1>d, DropsAll DEF TypedOrTold, P!Editing
\* A look at a row that was chosen.
<1>s. ASSUME NEW c \in Waiting, NEW r \in P!Row, NEW b \in BOOLEAN, P!Starts(c, P!Focusing(r, stored[r], b)),
             UNCHANGED <<setup, owed, stored, late>>, settingsSelection = chosen /\ TypedOrTold => chosen' = P!RowOf(r)
      PROVE  Chosen'
  <2> PICK m \in Texts : m = stored[r]
    BY <1>f
  <2> PICK to : to = P!Focusing(r, m, b)
    OBVIOUS
  <2>1. to \in Calls /\ to.pc = "focus" /\ to.of = r /\ to.text = m
    <3>1. to \in Focuses
      BY DEF P!Focusing, Focuses
    <3> QED BY <3>1 DEF P!Focusing, Calls
  <2>2. P!Starts(c, to)
    BY <1>s
  <2>3. call'[c] = to
    BY <2>1, <2>2, StartsOne DEF P!Bounds
  <2>4. TypedOrTold /\ settingsSelection = chosen => TypedOrTold' /\ Fresh(c)'
    BY <1>s, <1>t, <2>1, <2>3 DEF Fresh, P!Is, P!RowOf, P!Kind
  <2> QED BY <1>s, <2>1, <2>2, <2>4, StartsChosen
<1>1. CASE P!CloseSetup \/ \E k \in P!Kinds : P!Done(k)
  <2>1. UNCHANGED <<setup, settingsSelection, call, stored, owed, chosen, late>>
    BY <1>1 DEF P!CloseSetup, P!Done, P!history
  <2> QED BY <2>1 DEF Chosen, TypedOrTold, Fresh, Stale, P!Is, P!Editing, P!RowOf, P!Kind
<1>2. CASE \E k \in P!Kinds : P!StartAdd(k) \/ P!CancelAdd(k)
  <2>1. P!Drops /\ P!Acts /\ settingsSelection' = chosen' /\ UNCHANGED late
    BY <1>2 DEF P!StartAdd, P!CancelAdd
  <2> QED BY <2>1, <1>d, ActsChosen
<1>3. CASE \E k \in P!Kinds : P!ChooseKind(k)
  <2>1. P!Acts /\ settingsSelection' = chosen' /\ UNCHANGED <<setup, owed, stored, late>>
    BY <1>3 DEF P!ChooseKind
  <2> QED BY <2>1, <1>t, ActsChosen
<1>4. CASE \E k \in P!Kinds : P!TypeIn(k)
  <2> PICK k \in P!Kinds : P!TypeIn(k)
    BY <1>4
  <2>1. /\ setup' = [setup EXCEPT ![k].text = words'] /\ P!Acts
        /\ owed' = (owed \ {setup[k].text}) \cup {words'}
        /\ UNCHANGED <<stored, settingsSelection, chosen, late>>
    BY DEF P!TypeIn
  <2>2. setup'[k].text = words' /\ \A j \in P!Kinds \ {k} : setup'[j] = setup[j]
    BY <2>1, <1>f DEF Form
  <2>3. ASSUME TypedOrTold PROVE TypedOrTold'
    <3> SUFFICES ASSUME NEW j \in P!Kinds, P!Editing(j)'
                 PROVE  setup'[j].text \in owed' \cup {stored'[setup'[j].of]}
      BY DEF TypedOrTold
    <3>1. CASE j = k
      BY <3>1, <2>1, <2>2
    <3>2. CASE j # k
      <4>1. HasText(k, setup[k].text)
        BY DEF HasText
      <4> QED BY <2>1, <2>2, <2>3, <3>2, <4>1, OtherTold
    <3> QED BY <3>1, <3>2
  <2> QED BY <2>1, <2>3, ActsChosen
<1>5. CASE \E c \in Waiting : P!OpenSetup(c)
  <2> PICK c \in Waiting : P!OpenSetup(c)
    BY <1>5
  <2>1. UNCHANGED <<setup, settingsSelection, owed, stored, late>>
    BY DEF P!OpenSetup
  <2>2. CASE \E r \in IF P!Here("source") # {} THEN P!Here("source") ELSE listed :
             P!Starts(c, P!Focusing(r, stored[r], FALSE)) /\ chosen' = P!RowOf(r)
    BY <2>1, <2>2, <1>l, <1>s
  <2>3. CASE P!Acts /\ UNCHANGED chosen
    BY <2>1, <2>3, <1>t, ActsChosen
  <2> QED BY <2>2, <2>3 DEF P!OpenSetup
<1>6. CASE \E c \in Waiting : P!EditSource(c)
  <2> PICK c \in Waiting : P!EditSource(c)
    BY <1>6
  <2> PICK r \in P!Here("source") : P!Starts(c, P!Focusing(r, stored[r], TRUE)) /\ chosen' = P!RowOf(r)
    BY DEF P!EditSource
  <2>1. UNCHANGED <<setup, owed, stored, late>>
    BY DEF P!EditSource
  <2> QED BY <2>1, <1>l, <1>s
<1>7. CASE \E c \in Waiting : \E r \in P!Row : P!ClickRow(c, r)
  <2> PICK c \in Waiting, r \in P!Row : P!ClickRow(c, r)
    BY <1>7
  <2>1. /\ UNCHANGED <<setup, owed, stored, late>> /\ P!Starts(c, P!Focusing(r, stored[r], FALSE))
        /\ chosen' = P!RowOf(r)
    BY DEF P!ClickRow
  <2> QED BY <2>1, <1>s
<1>8. CASE \E c \in Waiting : \E k \in P!Kinds : P!CancelEdit(c, k)
  <2> PICK c \in Waiting, k \in P!Kinds : P!CancelEdit(c, k)
    BY <1>8
  <2> PICK r : r = setup[k].of
    OBVIOUS
  <2>1. /\ UNCHANGED <<setup, owed, stored, late, chosen>> /\ P!Starts(c, P!Focusing(r, stored[r], FALSE))
        /\ P!Front(k) /\ P!Editing(k)
    BY DEF P!CancelEdit, P!Shown, P!Dirty, P!history
  <2>2. r \in P!Row /\ settingsSelection = P!RowOf(r)
    BY <2>1, <1>f, FrontIs DEF P!Editing, Form
  <2> QED BY <2>1, <2>2, <1>s
<1>9. CASE \E c \in Waiting : \E k \in P!Kinds : P!Save(c, k)
  <2> PICK c \in Waiting, k \in P!Kinds : P!Save(c, k)
    BY <1>9
  <2> DEFINE to == [pc |-> "save", kind |-> k, of |-> setup[k].of, text |-> setup[k].text, since |-> FALSE]
  <2>1. P!Starts(c, to) /\ UNCHANGED <<stored, setup, owed, late, chosen, settingsSelection>> /\ P!Front(k)
    BY DEF P!Save, P!history, P!Shown
  <2>2. to \in Calls
    BY <1>f DEF Calls, Saves, Form
  <2>3. to.pc = "save" /\ to.kind = k /\ to.of = setup[k].of /\ to.text = setup[k].text
    OBVIOUS
  <2> HIDE DEF to
  <2>4. call'[c] = to
    BY <2>1, <2>2, StartsOne DEF P!Bounds
  <2>5. setup[k] = [of |-> to.of, text |-> to.text]
    BY <2>3, <1>f DEF Form
  <2>6. to.of # P!New => settingsSelection = P!RowOf(to.of)
    BY <2>1, <2>3, FrontIs DEF P!Editing
  <2>7. settingsSelection = chosen => Fresh(c)'
    BY <2>1, <2>3, <2>4, <2>5, <2>6 DEF Fresh, P!Is, P!RowOf, P!Kind
  <2> QED BY <2>1, <2>2, <2>3, <2>7, <1>t, StartsChosen
<1>10. CASE \E c \in Waiting : \E k \in P!Kinds : P!Remove(c, k)
  <2> PICK c \in Waiting, k \in P!Kinds : P!Remove(c, k)
    BY <1>10
  <2> DEFINE to == [pc |-> "remove", of |-> setup[k].of, since |-> FALSE]
  <2>1. /\ P!Starts(c, to) /\ UNCHANGED <<stored, setup, owed, late, chosen, settingsSelection>>
        /\ setup[k].of \in P!Row
    BY <1>l DEF P!Remove, P!history
  <2>2. to \in Calls /\ to.pc = "remove"
    BY <2>1 DEF Calls, Removes
  <2> HIDE DEF to
  <2>4. call'[c] = to
    BY <2>1, <2>2, StartsOne DEF P!Bounds
  <2>5. settingsSelection = chosen => Fresh(c)'
    BY <2>1, <2>2, <2>4 DEF Fresh, P!Is
  <2> QED BY <2>1, <2>2, <2>5, <1>t, StartsChosen
<1>11. CASE \E c \in Waiting : P!Focused(c)
  <2> PICK c \in Waiting : P!Focused(c)
    BY <1>11
  <2> PICK r \in P!Row : r = call[c].of
    BY <1>k, CallIs DEF P!Focused, P!Is
  <2>1. /\ setup' = [setup EXCEPT ![P!Kind(r)] = [of |-> r, text |-> call[c].text]]
        /\ settingsSelection' = P!RowOf(r) /\ call[c].pc = "focus"
        /\ owed' = IF call[c].since THEN owed ELSE owed \ {setup[P!Kind(r)].text}
        /\ P!Lands(c) /\ UNCHANGED <<stored, chosen>>
    BY DEF P!Focused, P!Is
  <2>2. /\ setup'[P!Kind(r)].text = call[c].text /\ setup'[P!Kind(r)].of = r
        /\ \A j \in P!Kinds \ {P!Kind(r)} : setup'[j] = setup[j]
    BY <2>1, <1>f
  <2>3. ASSUME ~call[c].since, TypedOrTold, Fresh(c) PROVE TypedOrTold' /\ settingsSelection' = chosen'
    <3>1. chosen = P!RowOf(r) /\ call[c].text = stored[r]
      BY <2>1, <2>3 DEF Fresh, P!Is
    <3>2. ASSUME NEW j \in P!Kinds, P!Editing(j)' PROVE setup'[j].text \in owed' \cup {stored'[setup'[j].of]}
      <4>1. CASE j = P!Kind(r)
        BY <4>1, <2>1, <2>2, <3>1
      <4>2. CASE j # P!Kind(r)
        <5>1. HasText(P!Kind(r), setup[P!Kind(r)].text)
          BY DEF HasText
        <5> QED BY <2>1, <2>2, <2>3, <3>2, <4>2, <5>1, OtherTold
      <4> QED BY <4>1, <4>2
    <3> QED BY <2>1, <3>1, <3>2 DEF TypedOrTold
  <2> QED BY <2>1, <2>3, LandsChosen DEF P!Is
<1>12. CASE \E c \in Waiting : P!NotFocused(c)
  <2> PICK c \in Waiting : P!NotFocused(c)
    BY <1>12
  <2>1. /\ ~P!Is(c, "idle") /\ P!Lands(c) /\ chosen' = settingsSelection
        /\ UNCHANGED <<setup, owed, stored, settingsSelection>>
    BY DEF P!NotFocused, P!Is
  <2> QED BY <2>1, <1>t, LandsChosen
<1>13. CASE \E c \in Waiting : P!NotSaved(c) \/ P!NotRemoved(c)
  <2> PICK c \in Waiting : P!NotSaved(c) \/ P!NotRemoved(c)
    BY <1>13
  <2>1. P!Is(c, "save") \/ P!Is(c, "remove")
    BY DEF P!NotSaved, P!NotRemoved
  <2>2. P!Lands(c) /\ UNCHANGED <<setup, owed, stored, settingsSelection, chosen>>
    BY DEF P!NotSaved, P!NotRemoved
  <2>3. ~P!Is(c, "idle") /\ (Fresh(c) => settingsSelection = chosen)
    BY <2>1 DEF P!Is, Fresh
  <2> QED BY <2>2, <2>3, <1>t, LandsChosen
<1>14. CASE \E c \in Waiting : P!Removed(c)
  <2> PICK c \in Waiting : P!Removed(c)
    BY <1>14
  <2>1. ~P!Is(c, "idle") /\ P!Lands(c) /\ P!Drops /\ settingsSelection' = chosen'
    BY DEF P!Removed, P!Is
  <2> QED BY <2>1, <1>d, LandsChosen
<1>15. CASE \E c \in Waiting : P!SavedEdit(c)
  <2> PICK c \in Waiting : P!SavedEdit(c)
    BY <1>15
  <2> PICK r : r = call[c].of
    OBVIOUS
  <2> PICK k : k = call[c].kind
    OBVIOUS
  <2>1. /\ call[c].pc = "save" /\ r \in P!Row /\ r # P!New /\ k \in P!Kinds /\ P!Kind(r) = k
        /\ call[c].text \in Texts /\ call[c].since \in BOOLEAN
    BY <1>k, CallIs DEF P!SavedEdit, P!Is, Placed
  <2>2. /\ stored' = [stored EXCEPT ![r] = call[c].text] /\ P!LooksUp(c, r) /\ owed' = owed \ {call[c].text}
        /\ UNCHANGED <<setup, settingsSelection, chosen, late>>
    BY DEF P!SavedEdit
  <2> PICK to \in Calls : P!Becomes(c, to) /\ to.pc = "focus" /\ to.of = r /\ to.text = call[c].text /\ to.since = call[c].since
    BY <2>1, <2>2, LooksUpIs
  <2>3. call'[c] = to
    BY BecomesOne
  <2>4. ASSUME TypedOrTold, Fresh(c) PROVE TypedOrTold' /\ Fresh(c)'
    <3>1. setup[k].of = r /\ setup[k].text = call[c].text /\ chosen = P!RowOf(r)
      BY <2>1, <2>4 DEF Fresh, P!Is
    <3>2. stored'[r] = call[c].text /\ \A q \in P!Row \ {r} : stored'[q] = stored[q]
      BY <2>1, <2>2, <1>f
    <3>3. Fresh(c)'
      BY <2>2, <2>3, <3>1, <3>2 DEF Fresh, P!Is, P!RowOf, P!Kind
    <3>4. ASSUME NEW j \in P!Kinds, P!Editing(j)' PROVE setup'[j].text \in owed' \cup {stored'[setup'[j].of]}
      <4>1. CASE j = k
        BY <4>1, <2>2, <3>1, <3>2
      <4>2. CASE j # k
        <5>1. HasText(k, call[c].text)
          BY <2>1, <3>1 DEF HasText
        <5>2. setup[j].of \in P!Row /\ setup[j].of # r
          BY <2>1, <2>2, <3>4, <4>2, <1>f DEF P!Editing, Form
        <5>3. /\ stored'[setup[j].of] = stored[setup[j].of] /\ setup'[j] = setup[j]
              /\ owed \ {call[c].text} \subseteq owed'
          BY <2>2, <3>2, <5>2
        <5> QED BY <2>1, <2>4, <3>4, <4>2, <5>1, <5>3, OtherTold
      <4> QED BY <4>1, <4>2
    <3> QED BY <3>3, <3>4 DEF TypedOrTold
  <2>5. ~P!Is(c, "idle")
    BY <2>1 DEF P!Is
  <2> QED BY <2>2, <2>4, <2>5, LooksUpChosen
<1>16. CASE \E c \in Waiting : P!SavedAdd(c)
  <2> PICK c \in Waiting : P!SavedAdd(c)
    BY <1>16
  <2> PICK k : k = call[c].kind
    OBVIOUS
  <2>1. /\ call[c].pc = "save" /\ k \in P!Kinds /\ call[c].text \in Texts /\ call[c].since \in BOOLEAN
        /\ call[c].of = P!New
    BY <1>k, CallIs DEF P!SavedAdd, P!Is
  <2>2. ~P!Is(c, "idle")
    BY <2>1 DEF P!Is
  <2> PICK r \in P!Row \ (listed \cup gone) :
       /\ P!Kind(r) = k
       /\ stored' = [stored EXCEPT ![r] = call[c].text]
       /\ \/ P!Drops /\ settingsSelection' = chosen' /\ P!Lands(c)
          \/ /\ P!LooksUp(c, r) /\ chosen' = P!RowOf(r) /\ owed' = owed \ {call[c].text}
             /\ UNCHANGED <<setup, settingsSelection, late>>
    BY DEF P!SavedAdd
  <2>3. CASE P!Drops /\ settingsSelection' = chosen' /\ P!Lands(c)
    BY <2>2, <2>3, <1>d, LandsChosen
  <2>4. CASE /\ P!LooksUp(c, r) /\ chosen' = P!RowOf(r) /\ owed' = owed \ {call[c].text}
             /\ UNCHANGED <<setup, settingsSelection, late>>
    <3> PICK to \in Calls : P!Becomes(c, to) /\ to.pc = "focus" /\ to.of = r /\ to.text = call[c].text /\ to.since = call[c].since
      BY <2>1, <2>4, LooksUpIs
    <3>1. call'[c] = to
      BY BecomesOne
    <3>2. stored'[r] = call[c].text /\ \A q \in P!Row \ {r} : stored'[q] = stored[q]
      BY <2>1, <1>f
    <3>3. ASSUME TypedOrTold, Fresh(c) PROVE TypedOrTold' /\ Fresh(c)'
      <4>1. setup[k].of = P!New /\ setup[k].text = call[c].text
        BY <2>1, <3>3 DEF Fresh, P!Is
      <4>2. Fresh(c)'
        BY <2>4, <3>1, <3>2 DEF Fresh, P!Is, P!RowOf, P!Kind
      <4>3. ASSUME NEW j \in P!Kinds, P!Editing(j)' PROVE setup'[j].text \in owed' \cup {stored'[setup'[j].of]}
        <5>1. setup[j].of # P!New /\ j # k
          BY <2>4, <4>1, <4>3 DEF P!Editing
        <5>2. HasText(k, call[c].text)
          BY <2>1, <4>1 DEF HasText
        <5>3. setup[j].of \in P!Row /\ setup[j].of # r
          BY <5>1, <1>f DEF Form
        <5>4. /\ stored'[setup[j].of] = stored[setup[j].of] /\ setup'[j] = setup[j]
              /\ owed \ {call[c].text} \subseteq owed'
          BY <2>4, <3>2, <5>3
        <5> QED BY <2>1, <3>3, <4>3, <5>1, <5>2, <5>4, OtherTold
      <4> QED BY <4>2, <4>3 DEF TypedOrTold
    <3> QED BY <2>2, <2>4, <3>3, LooksUpChosen
  <2> QED BY <2>3, <2>4
<1> QED BY <1>1, <1>2, <1>3, <1>4, <1>5, <1>6, <1>7, <1>8, <1>9, <1>10, <1>11, <1>12, <1>13, <1>14, <1>15,
           <1>16 DEF P!Next

LEMMA PanelInvInit == ASSUME P!Bounds, P!Init PROVE PanelInv
<1>. USE KindIs
<1>0. MaxAsks \in Nat /\ MaxWords \in Nat /\ 0 \in Texts
  BY DEF P!Bounds, Texts
<1>1. /\ setup \in [P!Kinds -> Form] /\ \A k \in P!Kinds : setup[k].of = P!New /\ setup[k].text = 0
  BY <1>0 DEF P!Init, P!NoForms, Form, P!Blank
<1>2. call \in [Waiting -> Calls] /\ \A c \in Waiting : call[c].pc = "idle"
  BY DEF P!Init, Calls
<1>3. stored \in [P!Row -> Texts] /\ \A r \in P!Row : stored[r] = 0
  BY <1>0 DEF P!Init
<1>4. PanelTypes
  <2>1. P!TypeOK
    BY <1>0, <1>1, <1>3 DEF P!Init, P!TypeOK, Texts
  <2>2. settingsSelection \in Selection /\ chosen \in Selection
    BY DEF P!Init, Selection
  <2> QED BY <2>1, <2>2, <1>1, <1>2 DEF P!Init, PanelTypes
<1>5. TextsApart
  BY <1>1, <1>2, <1>3 DEF TextsApart, HasText, CallOf
<1>6. Placed
  BY <1>1, <1>2 DEF Placed, P!Is, P!Init
<1>7. P!TypedStays
  BY DEF P!Init, P!TypedStays
<1>8. TypedOrTold
  BY <1>1 DEF TypedOrTold, P!Editing
<1>9. Chosen
  BY <1>2, <1>8 DEF Chosen, P!Is, Fresh, P!Init
<1> QED BY <1>4, <1>5, <1>6, <1>7, <1>9 DEF PanelInv

LEMMA PanelInvStep == ASSUME P!Bounds, PanelInv, P!Next PROVE PanelInv'
BY PanelTypeStep, TextsApartStep, TypedStep, ChosenStep DEF PanelInv

LEMMA PanelInvStutter == ASSUME PanelInv, UNCHANGED P!vars PROVE PanelInv'
<1>1. UNCHANGED <<visible, listed, gone, stored, setup, settingsSelection, call, asks, words, owed, chosen,
                  late, swept>>
  BY DEF P!vars, P!bounds, P!history
<1>2. PanelTypes'
  BY <1>1 DEF PanelInv, PanelTypes, P!TypeOK
<1>3. TextsApart'
  BY <1>1 DEF PanelInv, TextsApart, HasText, CallOf, P!Kind
<1>4. Placed'
  BY <1>1 DEF PanelInv, Placed, P!Is, P!Editing, P!Kind
<1>5. P!TypedStays'
  BY <1>1 DEF PanelInv, P!TypedStays
<1>6. Chosen'
  BY <1>1 DEF PanelInv, Chosen, TypedOrTold, Fresh, Stale, P!Is, P!Editing, P!RowOf, P!Kind
<1> QED BY <1>2, <1>3, <1>4, <1>5, <1>6 DEF PanelInv

\* What it says of the two properties.
LEMMA PanelInvMeans == ASSUME PanelInv PROVE P!TypedStays /\ P!PanelIsOfChosen
BY DEF PanelInv, Chosen, Stale, TypedOrTold, P!PanelIsOfChosen

\* What the reader typed is in its form until it is saved or let go of, and at
\* rest the panel shows what they chose last, unless an answer came after they had
\* gone on or both forms were blanked, for any rows, waits and words (header.js
\* saveSource, focusSource).
THEOREM PanelKeepsWords ==
  ASSUME P!Bounds PROVE P!Spec => [](P!TypedStays /\ P!PanelIsOfChosen)
<1>1. P!Init => PanelInv
  BY PanelInvInit
<1>2. PanelInv /\ [P!Next]_P!vars => PanelInv'
  BY PanelInvStep, PanelInvStutter
<1>3. PanelInv => P!TypedStays /\ P!PanelIsOfChosen
  BY PanelInvMeans
<1> QED BY <1>1, <1>2, <1>3, PTL DEF P!Spec

-------------------------------------------------------------------------------
(* The words a reader writes (Writing).                                      *)

InPane == {"summary", "body"}

\* The words of a writing are known to be over one field of one item.
Over(w, i, f) == T!Typed(w) => w - MaxRedrafts \in DOMAIN typed /\ typed[w - MaxRedrafts] = <<i, f>>
LastIsOver ==
  \A i \in Piece, f \in T!Field : T!Last(i, f) = T!Silent \/ (T!Typed(T!Last(i, f)) /\ Over(T!Last(i, f), i, f))

\* What is not open is empty, and what went out of an item went with its post.
Shut ==
  /\ IF box.where = "none" THEN box = T!Closed ELSE box.of \in Piece
  /\ IF comment.where = "none" THEN comment = T!Closed ELSE comment.of \in Piece
  /\ \A i \in Piece : sent[i] # T!Silent => i \in reviewed

\* While no opening met another, the box is of the item that is selected.
OfOne ==
  /\ loading \subseteq {selected}
  /\ box.where # "none" => box.of = selected /\ selected # "none"

\* Its words, and those that were kept, are over their field of their item, ...
InPlace ==
  /\ box.where # "none" => Over(box.words, box.of, T!FieldOf(box.where))
  /\ \A i \in Piece, f \in InPane : Over(recorded[i][f], i, f)

\* ... the last over a field is in its box while that is open and kept when not,
Boxed(i, f) == box.where # "none" /\ box.of = i /\ T!FieldOf(box.where) = f
NoneLost ==
  \A i \in Piece, f \in InPane :
    T!Last(i, f) \in {T!Silent, IF Boxed(i, f) THEN box.words ELSE recorded[i][f]} \cup givenUp

\* a body nobody touched says what it said, ...
Untouched ==
  /\ \A i \in Piece : recorded[i]["body"] = T!Silent \/ T!Typed(recorded[i]["body"]) \/ under
  /\ box.where = "body" => T!Typed(box.words) \/ under \/ box.words = T!Says(box.of, "body")

\* and a summary that went out is not written over.
SentAsKept ==
  /\ \A i \in Piece : T!Typed(sent[i]) => sent[i] = recorded[i]["summary"]
  /\ box.where \in {"summary", "sheet"} => sent[box.of] = T!Silent

\* While no card was carried to another item, the same holds of it.
Carded(i) == comment.where # "none" /\ comment.of = i
CardKept ==
  /\ comment.where # "none" => selected \in {comment.of, "none"} /\ Over(comment.words, comment.of, "card")
  /\ \A i \in Piece :
       /\ Over(recorded[i]["card"], i, "card")
       /\ T!Last(i, "card") \in {T!Silent, IF Carded(i) THEN comment.words ELSE recorded[i]["card"]} \cup givenUp

PaneWords == OfOne /\ InPlace /\ NoneLost /\ Untouched /\ SentAsKept
WritingInv ==
  /\ T!TypeOK /\ LastIsOver /\ Shut
  /\ ~met => PaneWords
  /\ ~met /\ ~carried => CardKept

\* What words there are.
LEMMA WordsAre ==
  ASSUME T!Bounds
  PROVE  /\ MaxRedrafts \in Nat \ {0} /\ MaxWritings \in Nat \ {0} /\ "none" \notin Piece
         /\ T!Silent \in T!Words /\ T!Silent = 0 /\ 1..MaxRedrafts \subseteq T!Words /\ T!Words \subseteq Nat
         /\ \A n \in Nat : n <= MaxWritings => T!Writing(n) \in T!Words
         /\ \A n \in Nat \ {0} : T!Typed(T!Writing(n)) /\ T!Writing(n) - MaxRedrafts = n
         /\ \A n \in 0..MaxRedrafts : ~T!Typed(n)
         /\ T!Closed \in T!Box /\ T!Closed.where = "none" /\ T!Closed.of = "none" /\ T!Closed.words = 0
         /\ T!Field = {"summary", "body", "card"} /\ \A where : T!FieldOf(where) \in InPane
         /\ T!FieldOf("summary") = "summary" /\ T!FieldOf("sheet") = "summary" /\ T!FieldOf("body") = "body"
<1>1. MaxRedrafts \in Nat \ {0} /\ MaxWritings \in Nat \ {0} /\ "none" \notin Piece
  BY DEF T!Bounds
<1>2. T!Silent \in T!Words /\ T!Silent = 0 /\ 1..MaxRedrafts \subseteq T!Words /\ T!Words \subseteq Nat
  BY <1>1 DEF T!Words, T!Silent
<1>3. \A n \in Nat : n <= MaxWritings => T!Writing(n) \in T!Words
  BY <1>1 DEF T!Words, T!Writing
<1>4. \A n \in Nat \ {0} : T!Typed(T!Writing(n)) /\ T!Writing(n) - MaxRedrafts = n
  BY <1>1 DEF T!Typed, T!Writing
<1>5. \A n \in 0..MaxRedrafts : ~T!Typed(n)
  BY <1>1 DEF T!Typed
<1>6. T!Closed \in T!Box
  BY <1>2 DEF T!Closed, T!Box
<1> QED BY <1>1, <1>2, <1>3, <1>4, <1>5, <1>6 DEF T!Closed, T!Silent, T!Field, T!FieldOf, InPane

\* An item says the agent's words or the reader's.
LEMMA SaysIs ==
  ASSUME T!Bounds, T!TypeOK, NEW i \in Piece, NEW f \in T!Field
  PROVE  /\ T!Says(i, f) \in T!Words
         /\ recorded[i][f] # T!Silent => T!Says(i, f) = recorded[i][f]
         /\ recorded[i][f] = T!Silent => T!Says(i, f) \in 1..MaxRedrafts
<1>1. recorded[i][f] \in T!Words /\ proposal[i] \in 1..MaxRedrafts
  BY DEF T!TypeOK
<1> QED BY <1>1, WordsAre DEF T!Says

\* What is recorded changes one field of one item.
LEMMA RecordIs ==
  ASSUME T!TypeOK, NEW i \in Piece, NEW f \in T!Field, NEW w \in T!Words, T!Record(i, f, w)
  PROVE  /\ recorded' \in [Piece -> [T!Field -> T!Words]] /\ recorded'[i][f] = w
         /\ \A g \in T!Field : g # f => recorded'[i][g] = recorded[i][g]
         /\ \A j \in Piece : j # i => recorded'[j] = recorded[j]
<1>1. /\ recorded' = [recorded EXCEPT ![i] = [recorded[i] EXCEPT ![f] = w]]
      /\ recorded \in [Piece -> [T!Field -> T!Words]]
  BY DEF T!Record, T!TypeOK
<1>2. [recorded[i] EXCEPT ![f] = w] \in [T!Field -> T!Words]
  BY <1>1
<1> QED BY <1>1, <1>2

\* What leaving a box records.
LEMMA KeepIs ==
  ASSUME T!Bounds, T!TypeOK, Shut, T!Keep
  PROVE  /\ recorded' \in [Piece -> [T!Field -> T!Words]]
         /\ \/ recorded' = recorded
            \/ /\ box.where # "none"
               /\ \E i \in Piece : T!Record(i, T!FieldOf(box.where), box.words)
<1>1. /\ box.words \in T!Words /\ box.where \in {"none", "summary", "body", "sheet"}
      /\ selected \in Piece \cup {"none"}
  BY DEF T!TypeOK, T!Box
<1>2. T!FieldOf(box.where) \in T!Field
  BY WordsAre DEF InPane
<1>3. \/ recorded' = recorded
      \/ box.where # "none" /\ \E i \in Piece : T!Record(i, T!FieldOf(box.where), box.words)
  BY <1>1, WordsAre DEF T!Keep, Shut
<1>4. ASSUME NEW i \in Piece, T!Record(i, T!FieldOf(box.where), box.words)
      PROVE  recorded' \in [Piece -> [T!Field -> T!Words]]
  BY <1>1, <1>2, <1>4, RecordIs
<1> QED BY <1>3, <1>4 DEF T!TypeOK

\* A redraw leaves the boxes as they are or ends a summary's, in sight.
LEMMA RedrawIs ==
  ASSUME T!Bounds, T!TypeOK, Shut, T!Redraw
  PROVE  /\ \/ box' = box /\ givenUp' = givenUp
            \/ box.where = "summary" /\ box' = T!Closed /\ givenUp' = givenUp \cup T!GivenUp(box.words)
         /\ box' \in T!Box /\ givenUp' \subseteq T!Words /\ givenUp \subseteq givenUp'
         /\ IF box'.where = "none" THEN box' = T!Closed ELSE box'.of \in Piece
<1>1. box.words \in T!Words
  BY DEF T!TypeOK, T!Box
<1> QED BY <1>1, WordsAre DEF T!Redraw, T!GivenUp, T!TypeOK, Shut

\* No step leaves the types.
LEMMA WritingTypeStep ==
  ASSUME T!Bounds, T!TypeOK, Shut, T!Next
  PROVE  T!TypeOK' /\ Shut'
<1>. USE WordsAre
<1>b. /\ box.words \in T!Words /\ comment.words \in T!Words /\ box.of \in Piece \cup {"none"}
      /\ selected \in Piece \cup {"none"}
  BY DEF T!TypeOK, T!Box
<1>n. MaxNews \in Nat /\ MaxEdits \in Nat /\ MaxLooks \in Nat
  BY DEF T!Bounds
<1>y. \A i \in Piece, f \in T!Field : T!Says(i, f) \in T!Words
  BY SaysIs
<1>1. ASSUME NEW i \in Piece, T!Redraft(i) PROVE T!TypeOK' /\ Shut'
  <2>1. /\ box' \in T!Box /\ givenUp' \subseteq T!Words
        /\ IF box'.where = "none" THEN box' = T!Closed ELSE box'.of \in Piece
    BY <1>1, RedrawIs DEF T!Redraft
  <2>2. proposal' \in [Piece -> 1..MaxRedrafts] /\ unfinished' \subseteq Piece /\ news' \in 0..MaxNews
    <3>1. /\ proposal \in [Piece -> 1..MaxRedrafts] /\ unfinished \subseteq Piece /\ news \in 0..MaxNews
          /\ news < MaxNews /\ news' = news + 1
      BY <1>1 DEF T!Redraft, T!TypeOK
    <3>2. CASE i \in unfinished
      <4>1. proposal' = proposal /\ unfinished' = unfinished \ {i}
        BY <1>1, <3>2 DEF T!Redraft
      <4> QED BY <3>1, <4>1, <1>n
    <3>3. CASE i \notin unfinished
      <4>1. /\ proposal[i] < MaxRedrafts /\ proposal' = [proposal EXCEPT ![i] = proposal[i] + 1]
            /\ unfinished' = unfinished \cup {i}
        BY <1>1, <3>3 DEF T!Redraft
      <4>2. proposal[i] + 1 \in 1..MaxRedrafts
        BY <3>1, <4>1
      <4> QED BY <3>1, <4>1, <4>2, <1>n
    <3> QED BY <3>2, <3>3
  <2>3. UNCHANGED <<selected, filtered, reviewed, loading, looks, leaving, comment, edits, recorded, sent,
                    typed, met, carried>>
    BY <1>1 DEF T!Redraft
  <2>4. under' \in BOOLEAN
    BY <1>1 DEF T!Redraft, T!TypeOK
  <2>5. T!TypeOK'
    BY <2>1, <2>2, <2>3, <2>4 DEF T!TypeOK
  <2>6. Shut'
    BY <2>1, <2>3 DEF Shut
  <2> QED BY <2>5, <2>6
<1>2. ASSUME NEW i \in Piece, T!PostedElsewhere(i) \/ T!Loaded(i) PROVE T!TypeOK' /\ Shut'
  <2>1. /\ box' \in T!Box /\ givenUp' \subseteq T!Words
        /\ IF box'.where = "none" THEN box' = T!Closed ELSE box'.of \in Piece
    BY <1>2, RedrawIs DEF T!PostedElsewhere, T!Loaded
  <2>2. UNCHANGED <<filtered, proposal, unfinished, looks, leaving, comment, edits, recorded, sent, typed, met,
                    carried, under>>
    BY <1>2 DEF T!PostedElsewhere, T!Loaded, T!Idle
  <2>3. /\ reviewed \subseteq reviewed' /\ reviewed' \subseteq Piece /\ loading' \subseteq Piece
        /\ selected' \in Piece \cup {"none"} /\ news' \in 0..MaxNews
    BY <1>2, <1>n DEF T!PostedElsewhere, T!Loaded, T!TypeOK
  <2>5. T!TypeOK'
    BY <2>1, <2>2, <2>3 DEF T!TypeOK
  <2>6. Shut'
    BY <2>1, <2>2, <2>3 DEF Shut
  <2> QED BY <2>5, <2>6
<1>3. ASSUME NEW i \in Piece, T!Look(i) PROVE T!TypeOK' /\ Shut'
  <2>1. UNCHANGED <<proposal, unfinished, news, reviewed, box, leaving, comment, edits, recorded, sent, typed,
                    givenUp, under>>
    BY <1>3 DEF T!Look
  <2>2. looks' \in 0..MaxLooks /\ loading' \subseteq Piece /\ selected' \in Piece
    BY <1>3, <1>n DEF T!Look, T!TypeOK
  <2>5. filtered' \in BOOLEAN /\ met' \in BOOLEAN /\ carried' \in BOOLEAN
    BY <1>3 DEF T!Look, T!TypeOK
  <2>3. T!TypeOK'
    BY <2>1, <2>2, <2>5 DEF T!TypeOK
  <2>4. Shut'
    BY <2>1 DEF Shut
  <2> QED BY <2>3, <2>4
<1>4. ASSUME T!PutAway \/ T!Lens \/ T!PressAway PROVE T!TypeOK' /\ Shut'
  <2>1. UNCHANGED <<proposal, unfinished, news, reviewed, loading, looks, box, comment, edits, recorded, sent,
                    typed, givenUp, carried, under>>
    BY <1>4 DEF T!PutAway, T!Lens, T!PressAway, T!app, T!history
  <2>2. selected' \in Piece \cup {"none"} /\ filtered' \in BOOLEAN /\ met' \in BOOLEAN /\ leaving' \in BOOLEAN
    BY <1>4 DEF T!PutAway, T!Lens, T!PressAway, T!app, T!history, T!TypeOK
  <2>3. T!TypeOK'
    BY <2>1, <2>2 DEF T!TypeOK
  <2>4. Shut'
    BY <2>1 DEF Shut
  <2> QED BY <2>3, <2>4
<1>5. ASSUME NEW where \in {"summary", "body", "sheet"}, T!OpenBox(where) PROVE T!TypeOK' /\ Shut'
  <2>1. /\ box' = [where |-> where, of |-> selected, words |-> T!Says(selected, T!FieldOf(where))]
        /\ selected \in Piece /\ edits' \in 0..MaxEdits
        /\ UNCHANGED <<selected, filtered, proposal, unfinished, news, reviewed, loading, looks, leaving,
                       comment, recorded, sent, typed, givenUp, met, carried, under>>
    BY <1>5, <1>b, <1>n DEF T!OpenBox, T!Opening, T!app, T!history, T!TypeOK
  <2>2. T!Says(selected, T!FieldOf(where)) \in T!Words
    BY <2>1, <1>y DEF InPane
  <2>3. box' \in T!Box /\ box'.where = where /\ box'.of = selected
    BY <2>1, <2>2 DEF T!Box
  <2>4. T!TypeOK'
    BY <2>1, <2>3 DEF T!TypeOK
  <2>5. Shut'
    BY <2>1, <2>3 DEF Shut
  <2> QED BY <2>4, <2>5
<1>6. ASSUME T!TypeIn PROVE T!TypeOK' /\ Shut'
  <2>1. /\ box.where # "none" /\ Len(typed) < MaxWritings
        /\ typed' = Append(typed, <<box.of, T!FieldOf(box.where)>>)
        /\ box' = [box EXCEPT !.words = T!Writing(Len(typed'))]
        /\ UNCHANGED <<selected, filtered, proposal, unfinished, news, reviewed, loading, looks, leaving,
                       comment, edits, recorded, sent, givenUp, met, carried, under>>
    BY <1>6 DEF T!TypeIn, T!app
  <2>2. box.of \in Piece /\ T!FieldOf(box.where) \in T!Field
    BY <2>1 DEF Shut, InPane
  <2>3. /\ typed' \in Seq(Piece \X T!Field) /\ Len(typed') = Len(typed) + 1 /\ Len(typed') <= MaxWritings
        /\ Len(typed') \in Nat
    <3>1. typed \in Seq(Piece \X T!Field) /\ Len(typed) \in Nat
      BY DEF T!TypeOK
    <3>2. <<box.of, T!FieldOf(box.where)>> \in Piece \X T!Field
      BY <2>2
    <3>3. typed' \in Seq(Piece \X T!Field) /\ Len(typed') = Len(typed) + 1
      BY <2>1, <3>1, <3>2
    <3> QED BY <2>1, <3>1, <3>3
  <2>4. box' \in T!Box /\ box'.where = box.where /\ box'.of = box.of
    BY <2>1, <2>3 DEF T!TypeOK, T!Box
  <2>5. T!TypeOK'
    BY <2>1, <2>3, <2>4 DEF T!TypeOK
  <2>6. Shut'
    BY <2>1, <2>2, <2>4 DEF Shut
  <2> QED BY <2>5, <2>6
<1>7. ASSUME T!Leave PROVE T!TypeOK' /\ Shut'
  <2>1. /\ leaving' = FALSE /\ box' = T!Closed /\ T!Keep
        /\ UNCHANGED <<selected, filtered, proposal, unfinished, news, reviewed, loading, looks, comment,
                       edits, sent, typed, givenUp, met, carried, under>>
    BY <1>7 DEF T!Leave, T!app, T!history
  <2>2. recorded' \in [Piece -> [T!Field -> T!Words]]
    BY <2>1, KeepIs
  <2>3. T!TypeOK'
    BY <2>1, <2>2 DEF T!TypeOK
  <2>4. Shut'
    BY <2>1 DEF Shut
  <2> QED BY <2>3, <2>4
<1>8. ASSUME T!EditCard PROVE T!TypeOK' /\ Shut'
  <2>1. /\ comment' = [where |-> "body", of |-> selected, words |-> T!Says(selected, "card")]
        /\ selected \in Piece /\ edits' \in 0..MaxEdits /\ givenUp' = givenUp \cup T!GivenUp(comment.words)
        /\ UNCHANGED <<selected, filtered, proposal, unfinished, news, reviewed, loading, looks, box, leaving,
                       recorded, sent, typed, met, carried, under>>
    BY <1>8, <1>b, <1>n DEF T!EditCard, T!Opening, T!app, T!TypeOK
  <2>2. T!Says(selected, "card") \in T!Words
    BY <2>1, <1>y
  <2>3. comment' \in T!Box /\ comment'.where = "body" /\ comment'.of = selected
    BY <2>1, <2>2 DEF T!Box
  <2>4. givenUp' \subseteq T!Words
    BY <2>1, <1>b DEF T!GivenUp, T!TypeOK
  <2>5. T!TypeOK'
    BY <2>1, <2>3, <2>4 DEF T!TypeOK
  <2>6. Shut'
    BY <2>1, <2>3 DEF Shut
  <2> QED BY <2>5, <2>6
<1>9. ASSUME T!TypeCard PROVE T!TypeOK' /\ Shut'
  <2>1. /\ comment.where # "none" /\ selected \in Piece /\ Len(typed) < MaxWritings
        /\ typed' = Append(typed, <<selected, "card">>)
        /\ comment' = [comment EXCEPT !.words = T!Writing(Len(typed'))]
        /\ UNCHANGED <<selected, filtered, proposal, unfinished, news, reviewed, loading, looks, box, leaving,
                       edits, recorded, sent, givenUp, met, carried, under>>
    BY <1>9, <1>b DEF T!TypeCard, T!app
  <2>3. /\ typed' \in Seq(Piece \X T!Field) /\ Len(typed') = Len(typed) + 1 /\ Len(typed') <= MaxWritings
        /\ Len(typed') \in Nat
    <3>1. typed \in Seq(Piece \X T!Field) /\ Len(typed) \in Nat
      BY DEF T!TypeOK
    <3>2. <<selected, "card">> \in Piece \X T!Field
      BY <2>1
    <3>3. typed' \in Seq(Piece \X T!Field) /\ Len(typed') = Len(typed) + 1
      BY <2>1, <3>1, <3>2
    <3> QED BY <2>1, <3>1, <3>3
  <2>4. comment' \in T!Box /\ comment'.where = comment.where /\ comment'.of = comment.of
    BY <2>1, <2>3 DEF T!TypeOK, T!Box
  <2>5. T!TypeOK'
    BY <2>1, <2>3, <2>4 DEF T!TypeOK
  <2>6. Shut'
    BY <2>1, <2>4 DEF Shut
  <2> QED BY <2>5, <2>6
<1>10. ASSUME T!SaveCard PROVE T!TypeOK' /\ Shut'
  <2>1. /\ T!Record(selected, "card", comment.words) /\ selected \in Piece /\ comment' = T!Closed
        /\ UNCHANGED <<selected, filtered, proposal, unfinished, news, reviewed, loading, looks, box, leaving,
                       edits, sent, typed, givenUp, met, carried, under>>
    BY <1>10, <1>b DEF T!SaveCard, T!app, T!history
  <2>2. recorded' \in [Piece -> [T!Field -> T!Words]]
    BY <2>1, <1>b, RecordIs
  <2>3. T!TypeOK'
    BY <2>1, <2>2 DEF T!TypeOK
  <2>4. Shut'
    BY <2>1 DEF Shut
  <2> QED BY <2>3, <2>4
<1>11. ASSUME T!CancelCard PROVE T!TypeOK' /\ Shut'
  <2>1. /\ comment' = T!Closed /\ givenUp' = givenUp \cup T!GivenUp(comment.words)
        /\ UNCHANGED <<selected, filtered, proposal, unfinished, news, reviewed, loading, looks, box, leaving,
                       edits, recorded, sent, typed, met, carried, under>>
    BY <1>11 DEF T!CancelCard, T!app
  <2>2. givenUp' \subseteq T!Words
    BY <2>1, <1>b DEF T!GivenUp, T!TypeOK
  <2>3. T!TypeOK'
    BY <2>1, <2>2 DEF T!TypeOK
  <2>4. Shut'
    BY <2>1 DEF Shut
  <2> QED BY <2>3, <2>4
<1>12. ASSUME T!ResetBody PROVE T!TypeOK' /\ Shut'
  <2>1. /\ T!Record(selected, "body", T!Silent) /\ selected \in Piece
        /\ givenUp' = givenUp \cup T!GivenUp(recorded[selected]["body"])
        /\ UNCHANGED <<selected, filtered, proposal, unfinished, news, reviewed, loading, looks, box, comment,
                       leaving, edits, sent, typed, met, carried, under>>
    BY <1>12, <1>b DEF T!ResetBody, T!app
  <2>2. recorded' \in [Piece -> [T!Field -> T!Words]]
    <3>1. T!Silent \in T!Words /\ "body" \in T!Field
      OBVIOUS
    <3> QED BY <2>1, <3>1, RecordIs
  <2>6. recorded[selected]["body"] \in T!Words
    BY <2>1 DEF T!TypeOK
  <2>3. givenUp' \subseteq T!Words
    BY <2>1, <2>6 DEF T!GivenUp, T!TypeOK
  <2>4. T!TypeOK'
    BY <2>1, <2>2, <2>3 DEF T!TypeOK
  <2>5. Shut'
    BY <2>1 DEF Shut
  <2> QED BY <2>4, <2>5
<1>13. ASSUME T!Post PROVE T!TypeOK' /\ Shut'
  <2>1. /\ reviewed' = reviewed \cup {selected} /\ selected \in Piece
        /\ sent' = [sent EXCEPT ![selected] = T!Says(selected, "summary")]
        /\ UNCHANGED <<selected, filtered, proposal, unfinished, news, loading, looks, box, comment, leaving,
                       edits, recorded, typed, givenUp, met, carried, under>>
    BY <1>13, <1>b DEF T!Post, T!history
  <2>2. T!Says(selected, "summary") \in T!Words
    BY <2>1, <1>y
  <2>3. T!TypeOK'
    BY <2>1, <2>2 DEF T!TypeOK
  <2>4. Shut'
    BY <2>1 DEF Shut, T!TypeOK
  <2> QED BY <2>3, <2>4
<1> QED BY <1>1, <1>2, <1>3, <1>4, <1>5, <1>6, <1>7, <1>8, <1>9, <1>10, <1>11, <1>12, <1>13 DEF T!Next

\* A writing is the last over its field, and over no other.
LEMMA Appended ==
  ASSUME T!TypeOK, NEW i \in Piece, NEW f \in T!Field, typed' = Append(typed, <<i, f>>)
  PROVE  /\ Len(typed) \in Nat /\ Len(typed') = Len(typed) + 1
         /\ Len(typed) + 1 \in DOMAIN typed' /\ typed'[Len(typed) + 1] = <<i, f>>
         /\ \A n \in DOMAIN typed : n \in DOMAIN typed' /\ typed'[n] = typed[n]
         /\ T!Last(i, f)' = T!Writing(Len(typed) + 1)
         /\ \A j \in Piece, g \in T!Field : j # i \/ g # f => T!Last(j, g)' = T!Last(j, g)
<1> DEFINE len == Len(typed)
<1>1. typed \in Seq(Piece \X T!Field) /\ len \in Nat /\ DOMAIN typed = 1..len
  BY DEF T!TypeOK
<1>2. Len(typed') = len + 1 /\ DOMAIN typed' = 1..(len + 1) /\ typed'[len + 1] = <<i, f>>
  BY <1>1
<1>3. \A n \in 1..len : typed'[n] = typed[n]
  BY <1>1
<1>4. T!Last(i, f)' = T!Writing(len + 1)
  <2> DEFINE over == {n \in DOMAIN typed' : typed'[n] = <<i, f>>}
  <2>0. over \subseteq 1..(len + 1) /\ len + 1 \in over
    BY <1>1, <1>2
  <2> HIDE DEF over
  <2>1. \A m \in over : m <= len + 1
    BY <1>1, <2>0
  <2>2. \A n \in over : (\A m \in over : m <= n) => n = len + 1
    <3> SUFFICES ASSUME NEW n \in over, \A m \in over : m <= n PROVE n = len + 1
      OBVIOUS
    <3>1. n \in 1..(len + 1) /\ len + 1 <= n
      BY <2>0
    <3> QED BY <1>1, <3>1
  <2>3. (CHOOSE n \in over : \A m \in over : m <= n) = len + 1
    BY <2>0, <2>1, <2>2
  <2>4. over # {}
    BY <2>0
  <2> USE DEF over
  <2> QED BY <2>3, <2>4 DEF T!Last, T!Writing
<1>5. ASSUME NEW j \in Piece, NEW g \in T!Field, j # i \/ g # f PROVE T!Last(j, g)' = T!Last(j, g)
  <2>1. <<j, g>> # <<i, f>>
    BY <1>5
  <2> DEFINE new == {n \in DOMAIN typed' : typed'[n] = <<j, g>>}
             old == {n \in DOMAIN typed : typed[n] = <<j, g>>}
  <2>2. new = old
    BY <1>1, <1>2, <1>3, <2>1
  <2>3. T!Last(j, g)' = IF new = {} THEN T!Silent ELSE T!Writing(CHOOSE n \in new : \A m \in new : m <= n)
    BY DEF T!Last, T!Writing, T!Silent
  <2>4. T!Last(j, g) = IF old = {} THEN T!Silent ELSE T!Writing(CHOOSE n \in old : \A m \in old : m <= n)
    BY DEF T!Last
  <2> HIDE DEF new, old
  <2> QED BY <2>2, <2>3, <2>4
<1> QED BY <1>1, <1>2, <1>3, <1>4, <1>5

\* Over which field words are does not change.
LEMMA OverStays ==
  ASSUME T!TypeOK, typed' = typed \/ \E i \in Piece, f \in T!Field : typed' = Append(typed, <<i, f>>),
         NEW w, NEW i, NEW f, Over(w, i, f), T!Typed(w)
  PROVE  w - MaxRedrafts \in DOMAIN typed' /\ typed'[w - MaxRedrafts] = <<i, f>>
<1>1. w - MaxRedrafts \in DOMAIN typed /\ typed[w - MaxRedrafts] = <<i, f>>
  BY DEF Over
<1>2. CASE typed' = typed
  BY <1>1, <1>2
<1>3. CASE \E j \in Piece, g \in T!Field : typed' = Append(typed, <<j, g>>)
  BY <1>1, <1>3, Appended
<1> QED BY <1>2, <1>3

\* The last writing over a field is over it.
LEMMA LastIsOverStep ==
  ASSUME T!Bounds, T!TypeOK, Shut, LastIsOver, T!Next
  PROVE  /\ LastIsOver'
         /\ typed' = typed \/ \E i \in Piece, f \in T!Field : typed' = Append(typed, <<i, f>>)
<1>. USE WordsAre
<1>1. typed' = typed \/ \E i \in Piece, f \in T!Field : typed' = Append(typed, <<i, f>>)
  <2>1. CASE T!TypeIn
    <3>1. typed' = Append(typed, <<box.of, T!FieldOf(box.where)>>) /\ box.of \in Piece
      BY <2>1 DEF T!TypeIn, Shut
    <3> QED BY <3>1 DEF InPane
  <2>2. CASE T!TypeCard
    <3>1. typed' = Append(typed, <<selected, "card">>) /\ selected \in Piece
      BY <2>2 DEF T!TypeCard, T!TypeOK
    <3> QED BY <3>1
  <2>3. CASE \/ \E i \in Piece : T!Redraft(i) \/ T!PostedElsewhere(i) \/ T!Loaded(i) \/ T!Look(i)
             \/ T!PutAway \/ T!Lens
    BY <2>3 DEF T!Redraft, T!PostedElsewhere, T!Loaded, T!Look, T!PutAway, T!Lens, T!Idle, T!history
  <2>4. CASE \/ \E where \in {"summary", "body", "sheet"} : T!OpenBox(where)
             \/ T!PressAway \/ T!Leave \/ T!EditCard \/ T!SaveCard \/ T!CancelCard \/ T!ResetBody \/ T!Post
    BY <2>4 DEF T!OpenBox, T!PressAway, T!Leave, T!EditCard, T!SaveCard, T!CancelCard, T!ResetBody, T!Post,
       T!history
  <2> QED BY <2>1, <2>2, <2>3, <2>4 DEF T!Next
<1>2. ASSUME typed' = typed PROVE LastIsOver'
  <2>1. \A i, f : T!Last(i, f)' = T!Last(i, f)
    BY <1>2 DEF T!Last, T!Writing, T!Silent
  <2> QED BY <1>2, <2>1 DEF LastIsOver, Over, T!Typed, T!Silent
<1>3. ASSUME NEW i \in Piece, NEW f \in T!Field, typed' = Append(typed, <<i, f>>) PROVE LastIsOver'
  <2> SUFFICES ASSUME NEW j \in Piece, NEW g \in T!Field, T!Last(j, g)' # T!Silent
               PROVE  /\ T!Typed(T!Last(j, g)') /\ T!Last(j, g)' - MaxRedrafts \in DOMAIN typed'
                      /\ typed'[T!Last(j, g)' - MaxRedrafts] = <<j, g>>
    BY DEF LastIsOver, Over, T!Typed
  <2>1. CASE j = i /\ g = f
    BY <2>1, <1>3, Appended
  <2>2. CASE j # i \/ g # f
    <3>1. T!Last(j, g)' = T!Last(j, g)
      BY <2>2, <1>3, Appended
    <3>2. T!Typed(T!Last(j, g)) /\ Over(T!Last(j, g), j, g)
      BY <3>1 DEF LastIsOver
    <3>3. T!Last(j, g) - MaxRedrafts \in DOMAIN typed' /\ typed'[T!Last(j, g) - MaxRedrafts] = <<j, g>>
      BY <3>2, <1>1, OverStays
    <3> QED BY <3>1, <3>2, <3>3
  <2> QED BY <2>1, <2>2
<1>4. LastIsOver'
  <2>1. CASE \E i \in Piece, f \in T!Field : typed' = Append(typed, <<i, f>>)
    BY <2>1, <1>3
  <2> QED BY <1>1, <1>2, <2>1
<1> QED BY <1>1, <1>4

\* What does not touch the words of the pane's fields leaves them where they are.
LEMMA PaneStays ==
  ASSUME T!Bounds, T!TypeOK, LastIsOver, Shut, InPlace, NoneLost, Untouched,
         box' = box \/ (box.where = "summary" /\ box' = T!Closed /\ T!GivenUp(box.words) \subseteq givenUp'),
         givenUp \subseteq givenUp', \A i \in Piece, f \in InPane : recorded'[i][f] = recorded[i][f],
         typed' = typed \/ \E i \in Piece : typed' = Append(typed, <<i, "card">>),
         under => under', box.where = "body" => under' \/ proposal' = proposal
  PROVE  InPlace' /\ NoneLost' /\ Untouched'
<1>. USE WordsAre
<1>1. typed' = typed \/ \E i \in Piece, f \in T!Field : typed' = Append(typed, <<i, f>>)
  OBVIOUS
<1>2. \A i \in Piece, f \in InPane : T!Last(i, f)' = T!Last(i, f)
  <2>1. CASE typed' = typed
    BY <2>1 DEF T!Last, T!Writing
  <2>2. CASE \E i \in Piece : typed' = Append(typed, <<i, "card">>)
    <3> PICK i \in Piece : typed' = Append(typed, <<i, "card">>)
      BY <2>2
    <3>1. \A f \in InPane : f \in T!Field /\ f # "card"
      BY DEF InPane
    <3> QED BY <3>1, Appended
  <2> QED BY <2>1, <2>2
<1>4. InPlace'
  <2>1. ASSUME NEW i \in Piece, NEW f \in InPane PROVE Over(recorded[i][f], i, f)'
    <3>1. Over(recorded[i][f], i, f) /\ recorded'[i][f] = recorded[i][f]
      BY DEF InPlace
    <3>2. ASSUME T!Typed(recorded[i][f])
          PROVE  /\ recorded[i][f] - MaxRedrafts \in DOMAIN typed'
                 /\ typed'[recorded[i][f] - MaxRedrafts] = <<i, f>>
      BY <3>1, <3>2, <1>1, OverStays
    <3> QED BY <3>1, <3>2 DEF Over, T!Typed
  <2>2. ASSUME box'.where # "none" PROVE Over(box.words, box.of, T!FieldOf(box.where))'
    <3>1. box' = box /\ Over(box.words, box.of, T!FieldOf(box.where))
      BY <2>2 DEF InPlace
    <3>2. ASSUME T!Typed(box.words)
          PROVE  /\ box.words - MaxRedrafts \in DOMAIN typed'
                 /\ typed'[box.words - MaxRedrafts] = <<box.of, T!FieldOf(box.where)>>
      BY <3>1, <3>2, <1>1, OverStays
    <3> QED BY <3>1, <3>2 DEF Over, T!Typed, T!FieldOf
  <2> QED BY <2>1, <2>2 DEF InPlace
<1>5. NoneLost'
  <2> SUFFICES ASSUME NEW i \in Piece, NEW f \in InPane
               PROVE  T!Last(i, f)' \in {T!Silent, IF Boxed(i, f)' THEN box'.words ELSE recorded'[i][f]} \cup givenUp'
    BY DEF NoneLost, T!Silent
  <2>1. T!Last(i, f) \in {T!Silent, IF Boxed(i, f) THEN box.words ELSE recorded[i][f]} \cup givenUp
    BY DEF NoneLost
  <2>2. CASE box' = box
    BY <1>2, <2>1, <2>2 DEF Boxed, T!FieldOf
  <2>3. CASE box.where = "summary" /\ box' = T!Closed /\ T!GivenUp(box.words) \subseteq givenUp'
    <3>1. ~Boxed(i, f)'
      BY <2>3 DEF Boxed
    <3>2. CASE Boxed(i, f) /\ T!Last(i, f) = box.words
      <4>1. T!Last(i, f) = T!Silent \/ T!Typed(box.words)
        BY <3>2 DEF LastIsOver, InPane
      <4> QED BY <1>2, <2>3, <3>2, <4>1 DEF T!GivenUp
    <3> QED BY <1>2, <2>1, <3>1, <3>2
  <2> QED BY <2>2, <2>3
<1>6. Untouched'
  <2>1. \A i \in Piece : recorded'[i]["body"] = recorded[i]["body"]
    BY DEF InPane
  <2>2. ASSUME box'.where = "body" PROVE T!Typed(box'.words) \/ under' \/ box'.words = T!Says(box.of, "body")'
    <3>1. box' = box /\ box.of \in Piece
      BY <2>2 DEF Shut
    <3>2. T!Typed(box.words) \/ under \/ box.words = T!Says(box.of, "body")
      BY <2>2, <3>1 DEF Untouched
    <3>3. under' \/ T!Says(box.of, "body")' = T!Says(box.of, "body")
      BY <2>1, <2>2, <3>1 DEF T!Says, T!Silent
    <3> QED BY <3>1, <3>2, <3>3
  <2> QED BY <2>1, <2>2 DEF Untouched, T!Silent, T!Typed
<1> QED BY <1>4, <1>5, <1>6

\* And so for the card.
LEMMA CardStays ==
  ASSUME T!Bounds, T!TypeOK, LastIsOver, Shut, CardKept,
         comment' = comment, givenUp \subseteq givenUp', \A i \in Piece : recorded'[i]["card"] = recorded[i]["card"],
         typed' = typed \/ \E i \in Piece, f \in InPane : typed' = Append(typed, <<i, f>>),
         comment.where # "none" => selected' \in {comment.of, "none"}
  PROVE  CardKept'
<1>. USE WordsAre
<1>1. typed' = typed \/ \E i \in Piece, f \in T!Field : typed' = Append(typed, <<i, f>>)
  BY DEF InPane
<1>2. \A i \in Piece : T!Last(i, "card")' = T!Last(i, "card")
  <2>1. CASE typed' = typed
    BY <2>1 DEF T!Last, T!Writing
  <2>2. CASE \E i \in Piece, f \in InPane : typed' = Append(typed, <<i, f>>)
    <3> PICK i \in Piece, f \in InPane : typed' = Append(typed, <<i, f>>)
      BY <2>2
    <3>1. f \in T!Field /\ f # "card" /\ "card" \in T!Field
      BY DEF InPane
    <3> QED BY <3>1, Appended
  <2> QED BY <2>1, <2>2
<1>4. ASSUME comment.where # "none" PROVE Over(comment.words, comment.of, "card")'
  <2>1. Over(comment.words, comment.of, "card")
    BY <1>4 DEF CardKept
  <2>2. ASSUME T!Typed(comment.words)
        PROVE  /\ comment.words - MaxRedrafts \in DOMAIN typed'
               /\ typed'[comment.words - MaxRedrafts] = <<comment.of, "card">>
    BY <2>1, <2>2, <1>1, OverStays
  <2> QED BY <2>2 DEF Over, T!Typed
<1>5. ASSUME NEW i \in Piece PROVE Over(recorded[i]["card"], i, "card")'
  <2>1. Over(recorded[i]["card"], i, "card") /\ recorded'[i]["card"] = recorded[i]["card"]
    BY DEF CardKept
  <2>2. ASSUME T!Typed(recorded[i]["card"])
        PROVE  /\ recorded[i]["card"] - MaxRedrafts \in DOMAIN typed'
               /\ typed'[recorded[i]["card"] - MaxRedrafts] = <<i, "card">>
    BY <2>1, <2>2, <1>1, OverStays
  <2> QED BY <2>1, <2>2 DEF Over, T!Typed
<1>6. ASSUME NEW i \in Piece
      PROVE  T!Last(i, "card")' \in {T!Silent, IF Carded(i)' THEN comment'.words ELSE recorded'[i]["card"]} \cup givenUp'
  <2>1. T!Last(i, "card") \in {T!Silent, IF Carded(i) THEN comment.words ELSE recorded[i]["card"]} \cup givenUp
    BY DEF CardKept
  <2> QED BY <1>2, <2>1 DEF Carded
<1> QED BY <1>4, <1>5, <1>6 DEF CardKept, T!Silent

\* What was sent stays as it was kept while nothing touches either.
LEMMA SentStays ==
  ASSUME SentAsKept, sent' = sent, \A i \in Piece : recorded'[i]["summary"] = recorded[i]["summary"],
         box' = box \/ box' = T!Closed, T!Closed.where = "none"
  PROVE  SentAsKept'
BY DEF SentAsKept, T!Typed, T!Silent

\* A box is opened on what its item says.
LEMMA OpenBoxKeeps ==
  ASSUME T!Bounds, T!TypeOK, LastIsOver, Shut, PaneWords, NEW where \in {"summary", "body", "sheet"}, T!OpenBox(where)
  PROVE  PaneWords'
<1>. USE WordsAre
<1> PICK i \in Piece : i = selected
  BY DEF T!OpenBox, T!TypeOK
<1> PICK f \in InPane : f = T!FieldOf(where)
  OBVIOUS
<1>1. /\ box.where = "none" /\ box' = [where |-> where, of |-> i, words |-> T!Says(i, f)]
      /\ where # "body" => i \notin reviewed
      /\ UNCHANGED <<selected, loading, proposal, recorded, sent, typed, givenUp, under>>
  BY DEF T!OpenBox, T!Free, T!Writable, T!app, T!history
<1>2. box'.where = where /\ box'.of = i /\ box'.words = T!Says(i, f) /\ f \in T!Field
  BY <1>1 DEF InPane
<1>3. OfOne'
  BY <1>1, <1>2 DEF PaneWords, OfOne
<1>4. InPlace'
  <2>1. \A j \in Piece, g \in InPane : Over(recorded[j][g], j, g)'
    BY <1>1 DEF PaneWords, InPlace, Over, T!Typed
  <2>2. ASSUME T!Typed(T!Says(i, f))
        PROVE  T!Says(i, f) - MaxRedrafts \in DOMAIN typed /\ typed[T!Says(i, f) - MaxRedrafts] = <<i, f>>
    <3>1. T!Says(i, f) = recorded[i][f]
      BY <2>2, <1>2, SaysIs
    <3> QED BY <2>2, <3>1 DEF PaneWords, InPlace, Over
  <2> QED BY <1>1, <1>2, <2>1, <2>2 DEF InPlace, Over, T!Typed, T!FieldOf
<1>5. NoneLost'
  <2> SUFFICES ASSUME NEW j \in Piece, NEW g \in InPane
               PROVE  T!Last(j, g)' \in {T!Silent, IF Boxed(j, g)' THEN box'.words ELSE recorded'[j][g]} \cup givenUp'
    BY DEF NoneLost, T!Silent
  <2>1. T!Last(j, g) \in {T!Silent, recorded[j][g]} \cup givenUp
    BY <1>1 DEF PaneWords, NoneLost, Boxed
  <2>2. T!Last(j, g)' = T!Last(j, g)
    BY <1>1 DEF T!Last, T!Writing
  <2>3. CASE j = i /\ g = f
    <3>1. T!Last(i, f) = recorded[i][f] => T!Last(i, f) \in {T!Silent, T!Says(i, f)}
      BY <1>2, SaysIs
    <3>2. Boxed(j, g)'
      BY <1>2, <2>3 DEF Boxed, T!FieldOf
    <3> QED BY <1>1, <1>2, <2>1, <2>2, <2>3, <3>1, <3>2
  <2>4. CASE j # i \/ g # f
    <3>2. ~Boxed(j, g)'
      BY <1>2, <2>4 DEF Boxed, T!FieldOf
    <3> QED BY <1>1, <2>1, <2>2, <3>2
  <2> QED BY <2>3, <2>4
<1>6. Untouched'
  <2>1. where = "body" => T!Says(box.of, "body")' = T!Says(i, f)
    BY <1>1, <1>2 DEF T!Says, T!Silent
  <2>2. \A j \in Piece : recorded'[j]["body"] = T!Silent \/ T!Typed(recorded'[j]["body"]) \/ under'
    BY <1>1 DEF PaneWords, Untouched
  <2> QED BY <1>2, <2>1, <2>2 DEF Untouched, T!Silent, T!Typed
<1>7. SentAsKept'
  <2>1. where # "body" => sent[i] = T!Silent
    BY <1>1 DEF Shut
  <2> QED BY <1>1, <1>2, <2>1 DEF PaneWords, SentAsKept, T!Typed, T!Silent
<1> QED BY <1>3, <1>4, <1>5, <1>6, <1>7 DEF PaneWords

\* What is typed in a box is the last over its field.
LEMMA TypeInKeeps ==
  ASSUME T!Bounds, T!TypeOK, LastIsOver, Shut, PaneWords, T!TypeIn
  PROVE  PaneWords'
<1>. USE WordsAre
<1> PICK i \in Piece : i = box.of
  BY DEF T!TypeIn, Shut
<1> PICK f \in InPane : f = T!FieldOf(box.where)
  OBVIOUS
<1>1. /\ box.where # "none" /\ typed' = Append(typed, <<i, f>>)
      /\ box' = [box EXCEPT !.words = T!Writing(Len(typed'))] /\ box \in T!Box
      /\ UNCHANGED <<selected, loading, proposal, recorded, sent, givenUp, under>>
  BY DEF T!TypeIn, T!app, T!TypeOK
<1>2. /\ Len(typed) \in Nat /\ Len(typed') = Len(typed) + 1
      /\ Len(typed) + 1 \in DOMAIN typed' /\ typed'[Len(typed) + 1] = <<i, f>>
      /\ T!Last(i, f)' = T!Writing(Len(typed) + 1)
      /\ \A j \in Piece, g \in T!Field : j # i \/ g # f => T!Last(j, g)' = T!Last(j, g)
  BY <1>1, Appended DEF InPane
<1>3. box'.where = box.where /\ box'.of = i /\ box'.words = T!Writing(Len(typed) + 1)
  BY <1>1, <1>2 DEF T!Box
<1>4. T!Typed(box'.words) /\ box'.words - MaxRedrafts = Len(typed) + 1
  BY <1>2, <1>3
<1>5. typed' = typed \/ \E j \in Piece, g \in T!Field : typed' = Append(typed, <<j, g>>)
  BY <1>1 DEF InPane
<1>6. OfOne'
  BY <1>1, <1>3 DEF PaneWords, OfOne
<1>7. InPlace'
  <2>1. ASSUME NEW j \in Piece, NEW g \in InPane PROVE Over(recorded[j][g], j, g)'
    <3>1. Over(recorded[j][g], j, g) /\ recorded' = recorded
      BY <1>1 DEF PaneWords, InPlace
    <3>2. ASSUME T!Typed(recorded[j][g])
          PROVE  /\ recorded[j][g] - MaxRedrafts \in DOMAIN typed'
                 /\ typed'[recorded[j][g] - MaxRedrafts] = <<j, g>>
      BY <3>1, <3>2, <1>5, OverStays
    <3> QED BY <3>1, <3>2 DEF Over, T!Typed
  <2>2. Over(box.words, box.of, T!FieldOf(box.where))'
    BY <1>2, <1>3, <1>4 DEF Over, T!Typed, T!FieldOf
  <2> QED BY <2>1, <2>2 DEF InPlace
<1>8. NoneLost'
  <2> SUFFICES ASSUME NEW j \in Piece, NEW g \in InPane
               PROVE  T!Last(j, g)' \in {T!Silent, IF Boxed(j, g)' THEN box'.words ELSE recorded'[j][g]} \cup givenUp'
    BY DEF NoneLost, T!Silent
  <2>1. CASE j = i /\ g = f
    <3>1. Boxed(j, g)'
      BY <1>1, <1>3, <2>1 DEF Boxed, T!FieldOf
    <3> QED BY <1>2, <1>3, <2>1, <3>1
  <2>2. CASE j # i \/ g # f
    <3>1. ~Boxed(j, g) /\ ~Boxed(j, g)'
      BY <1>3, <2>2 DEF Boxed, T!FieldOf
    <3>2. T!Last(j, g) \in {T!Silent, recorded[j][g]} \cup givenUp
      BY <3>1 DEF PaneWords, NoneLost
    <3>3. T!Last(j, g)' = T!Last(j, g)
      BY <1>2, <2>2 DEF InPane
    <3> QED BY <1>1, <3>1, <3>2, <3>3
  <2> QED BY <2>1, <2>2
<1>9. Untouched'
  BY <1>1, <1>4 DEF PaneWords, Untouched, T!Typed, T!Silent
<1>10. SentAsKept'
  BY <1>1, <1>3 DEF PaneWords, SentAsKept, T!Typed, T!Silent
<1> QED BY <1>6, <1>7, <1>8, <1>9, <1>10 DEF PaneWords

\* A box that is left is kept, or was not touched.
LEMMA LeaveKeeps ==
  ASSUME T!Bounds, T!TypeOK, LastIsOver, Shut, PaneWords, T!Leave
  PROVE  PaneWords'
<1>. USE WordsAre
<1>1. box' = T!Closed /\ T!Keep /\ UNCHANGED <<selected, loading, proposal, sent, typed, givenUp, under>>
  BY DEF T!Leave, T!app, T!history
<1>2. OfOne'
  BY <1>1 DEF PaneWords, OfOne
<1>3. CASE box.where = "none"
  <2>1. recorded' = recorded /\ box' = box
    BY <1>1, <1>3 DEF T!Keep, Shut
  <2>2. InPlace' /\ NoneLost' /\ Untouched'
    BY <1>1, <2>1, PaneStays DEF PaneWords
  <2>3. SentAsKept'
    BY <1>1, <2>1, SentStays DEF PaneWords
  <2> QED BY <1>2, <2>2, <2>3 DEF PaneWords
<1>4. CASE box.where # "none"
  <2> PICK i \in Piece : i = box.of
    BY <1>4 DEF Shut
  <2> PICK f \in InPane : f = T!FieldOf(box.where)
    OBVIOUS
  <2>1. /\ selected = i /\ selected # "none" /\ f \in T!Field /\ box.where \in {"summary", "body", "sheet"}
        /\ box.words \in T!Words
    BY <1>4 DEF PaneWords, OfOne, InPane, T!TypeOK, T!Box
  <2>2. \A j \in Piece, g \in InPane : ~Boxed(j, g)' /\ T!Last(j, g)' = T!Last(j, g)
    BY <1>1 DEF Boxed, T!Last, T!Writing
  <2>3. \/ box.where = "body" /\ box.words = T!Says(i, "body") /\ recorded' = recorded
        \/ T!Record(i, f, box.words) /\ (box.where = "body" => box.words # T!Says(i, "body"))
    BY <1>1, <1>4, <2>1 DEF T!Keep
  <2>4. CASE box.where = "body" /\ box.words = T!Says(i, "body") /\ recorded' = recorded
    <3>1. InPlace'
      BY <1>1, <2>4 DEF PaneWords, InPlace, Over, T!Typed
    <3>2. NoneLost'
      <4> SUFFICES ASSUME NEW j \in Piece, NEW g \in InPane
                   PROVE  T!Last(j, g) \in {T!Silent, recorded[j][g]} \cup givenUp
        BY <1>1, <2>2, <2>4 DEF NoneLost, T!Silent
      <4>1. T!Last(j, g) \in {T!Silent, IF Boxed(j, g) THEN box.words ELSE recorded[j][g]} \cup givenUp
        BY DEF PaneWords, NoneLost
      <4>2. CASE Boxed(j, g) /\ T!Last(j, g) = box.words
        <5>1. j = i /\ g = "body"
          BY <2>4, <4>2 DEF Boxed
        <5>2. recorded[i]["body"] # T!Silent => T!Last(j, g) = recorded[j][g]
          BY <2>4, <4>2, <5>1, SaysIs
        <5>3. recorded[i]["body"] = T!Silent => T!Last(j, g) = T!Silent
          <6>1. recorded[i]["body"] = T!Silent => ~T!Typed(box.words)
            BY <2>4, SaysIs
          <6> QED BY <4>2, <6>1 DEF LastIsOver, InPane
        <5> QED BY <5>2, <5>3
      <4> QED BY <4>1, <4>2
    <3>3. Untouched'
      BY <1>1, <2>4 DEF PaneWords, Untouched, T!Typed, T!Silent
    <3>4. SentAsKept'
      BY <1>1, <2>4, SentStays DEF PaneWords
    <3> QED BY <1>2, <3>1, <3>2, <3>3, <3>4 DEF PaneWords
  <2>5. CASE T!Record(i, f, box.words) /\ (box.where = "body" => box.words # T!Says(i, "body"))
    <3>1. /\ recorded'[i][f] = box.words
          /\ \A g \in T!Field : g # f => recorded'[i][g] = recorded[i][g]
          /\ \A j \in Piece : j # i => recorded'[j] = recorded[j]
      BY <2>1, <2>5, RecordIs
    <3>2. \A j \in Piece, g \in InPane : j # i \/ g # f => recorded'[j][g] = recorded[j][g] /\ ~Boxed(j, g)
      BY <3>1 DEF InPane, Boxed
    <3>3. InPlace'
      <4>1. ASSUME NEW j \in Piece, NEW g \in InPane PROVE Over(recorded[j][g], j, g)'
        <5>1. CASE j = i /\ g = f
          <6>1. Over(box.words, i, f)
            BY <1>4 DEF PaneWords, InPlace
          <6> QED BY <1>1, <3>1, <5>1, <6>1 DEF Over, T!Typed
        <5>2. CASE j # i \/ g # f
          <6>1. Over(recorded[j][g], j, g)
            BY DEF PaneWords, InPlace
          <6> QED BY <1>1, <3>2, <5>2, <6>1 DEF Over, T!Typed
        <5> QED BY <5>1, <5>2
      <4> QED BY <1>1, <4>1 DEF InPlace
    <3>4. NoneLost'
      <4> SUFFICES ASSUME NEW j \in Piece, NEW g \in InPane
                   PROVE  T!Last(j, g) \in {T!Silent, recorded'[j][g]} \cup givenUp
        BY <1>1, <2>2 DEF NoneLost, T!Silent
      <4>1. T!Last(j, g) \in {T!Silent, IF Boxed(j, g) THEN box.words ELSE recorded[j][g]} \cup givenUp
        BY DEF PaneWords, NoneLost
      <4>2. CASE j = i /\ g = f
        <5>1. Boxed(j, g)
          BY <1>4, <4>2 DEF Boxed
        <5> QED BY <3>1, <4>1, <4>2, <5>1
      <4>3. CASE j # i \/ g # f
        BY <3>2, <4>1, <4>3
      <4> QED BY <4>2, <4>3
    <3>5. Untouched'
      <4>1. ASSUME NEW j \in Piece
            PROVE  recorded'[j]["body"] = T!Silent \/ T!Typed(recorded'[j]["body"]) \/ under
        <5>1. recorded[j]["body"] = T!Silent \/ T!Typed(recorded[j]["body"]) \/ under
          BY DEF PaneWords, Untouched
        <5>2. CASE j = i /\ f = "body"
          <6>1. box.where = "body"
            BY <2>1, <5>2
          <6>2. T!Typed(box.words) \/ under
            BY <2>5, <6>1 DEF PaneWords, Untouched
          <6> QED BY <3>1, <5>2, <6>2
        <5>3. CASE j # i \/ f # "body"
          BY <3>2, <5>1, <5>3 DEF InPane
        <5> QED BY <5>2, <5>3
      <4> QED BY <1>1, <4>1 DEF Untouched, T!Typed, T!Silent
    <3>6. SentAsKept'
      <4>1. ASSUME NEW j \in Piece, T!Typed(sent[j]) PROVE sent[j] = recorded'[j]["summary"]
        <5>1. sent[j] = recorded[j]["summary"]
          BY <4>1 DEF PaneWords, SentAsKept
        <5>2. ~(j = i /\ f = "summary")
          <6> SUFFICES ASSUME j = i, f = "summary" PROVE FALSE
            OBVIOUS
          <6>1. sent[i] = T!Silent
            BY <2>1 DEF PaneWords, SentAsKept
          <6> QED BY <4>1, <6>1
        <5> QED BY <3>2, <5>1, <5>2 DEF InPane
      <4> QED BY <1>1, <4>1 DEF SentAsKept, T!Typed, T!Silent
    <3> QED BY <1>2, <3>3, <3>4, <3>5, <3>6 DEF PaneWords
  <2> QED BY <2>3, <2>4, <2>5
<1> QED BY <1>3, <1>4

\* What is elsewhere leaves the words of the pane as they are, ...
LEMMA AsideKeeps ==
  ASSUME T!Bounds, T!TypeOK, LastIsOver, Shut, PaneWords, OfOne', sent' = sent,
         box' = box \/ (box.where = "summary" /\ box' = T!Closed /\ T!GivenUp(box.words) \subseteq givenUp'),
         givenUp \subseteq givenUp', \A i \in Piece, f \in InPane : recorded'[i][f] = recorded[i][f],
         typed' = typed \/ \E i \in Piece : typed' = Append(typed, <<i, "card">>),
         under => under', box.where = "body" => under' \/ proposal' = proposal
  PROVE  PaneWords'
<1>1. InPlace' /\ NoneLost' /\ Untouched'
  BY PaneStays DEF PaneWords
<1>2. SentAsKept'
  BY SentStays, WordsAre DEF PaneWords, InPane
<1> QED BY <1>1, <1>2 DEF PaneWords

\* ... so what arrives does, ...
LEMMA NewsKeeps ==
  ASSUME T!Bounds, T!TypeOK, LastIsOver, Shut, PaneWords, NEW i \in Piece,
         T!Redraft(i) \/ T!PostedElsewhere(i) \/ T!Loaded(i)
  PROVE  PaneWords'
<1>. USE WordsAre
<1>1. /\ \/ box' = box /\ givenUp' = givenUp
         \/ box.where = "summary" /\ box' = T!Closed /\ givenUp' = givenUp \cup T!GivenUp(box.words)
      /\ UNCHANGED <<recorded, sent, typed>>
  BY RedrawIs DEF T!Redraft, T!PostedElsewhere, T!Loaded, T!Idle
<1>2. givenUp \subseteq givenUp' /\ (box' = box \/ (box.where = "summary" /\ box' = T!Closed /\ T!GivenUp(box.words) \subseteq givenUp'))
  BY <1>1
<1>3. (under => under') /\ (box.where = "body" => under' \/ proposal' = proposal)
  <2>1. CASE T!Redraft(i)
    <3>1. under' = (under \/ box.where = "body")
      BY <2>1 DEF T!Redraft
    <3>2. under => under'
      BY <3>1, Zenon
    <3>3. box.where = "body" => under'
      BY <3>1, Zenon
    <3> QED BY <3>2, <3>3
  <2>2. CASE T!PostedElsewhere(i) \/ T!Loaded(i)
    BY <2>2 DEF T!PostedElsewhere, T!Loaded, T!Idle
  <2> QED BY <2>1, <2>2
<1>4. selected' = selected /\ loading' \subseteq loading
  BY DEF T!Redraft, T!PostedElsewhere, T!Loaded, PaneWords, OfOne
<1>5. OfOne'
  BY <1>2, <1>4 DEF PaneWords, OfOne
<1> QED BY <1>1, <1>2, <1>3, <1>5, AsideKeeps

\* ... and so does what the reader presses over what is shown, while no opening
\* meets another, ...
LEMMA PressKeeps ==
  ASSUME T!Bounds, T!TypeOK, LastIsOver, Shut, PaneWords, ~met',
         (\E i \in Piece : T!Look(i)) \/ T!PutAway \/ T!Lens \/ T!PressAway
  PROVE  PaneWords'
<1>. USE WordsAre
<1>1. UNCHANGED <<proposal, box, recorded, sent, typed, givenUp, under>>
  BY DEF T!Look, T!PutAway, T!Lens, T!PressAway, T!app, T!history
<1>2. OfOne'
  <2>1. CASE \E i \in Piece : T!Look(i)
    <3> PICK i \in Piece : T!Look(i)
      BY <2>1
    <3>1. loading = {} /\ loading' = loading \cup {i} /\ selected' = i /\ box.where = "none"
      BY DEF T!Look, T!Free
    <3> QED BY <1>1, <3>1 DEF OfOne
  <2>2. CASE T!PutAway
    <3>1. loading = {} /\ loading' = loading /\ box.where = "none"
      BY <2>2 DEF T!PutAway, T!Free
    <3> QED BY <1>1, <3>1 DEF OfOne
  <2>3. CASE T!Lens \/ T!PressAway
    <3>1. loading' = loading /\ selected' = selected
      BY <2>3 DEF T!Lens, T!PressAway, T!app
    <3> QED BY <1>1, <3>1 DEF OfOne, PaneWords
  <2> QED BY <2>1, <2>2, <2>3
<1> QED BY <1>1, <1>2, AsideKeeps

\* ... and what the reader does with a card.
LEMMA CardKeeps ==
  ASSUME T!Bounds, T!TypeOK, LastIsOver, Shut, PaneWords, T!EditCard \/ T!CancelCard \/ T!TypeCard \/ T!SaveCard
  PROVE  PaneWords'
<1>. USE WordsAre
<1>1. /\ UNCHANGED <<selected, loading, proposal, box, sent, under>> /\ givenUp \subseteq givenUp'
      /\ typed' = typed \/ \E i \in Piece : typed' = Append(typed, <<i, "card">>)
      /\ recorded' = recorded \/ (T!Record(selected, "card", comment.words) /\ selected \in Piece)
  <2>0. selected \in Piece \cup {"none"}
    BY DEF T!TypeOK
  <2>1. CASE T!EditCard \/ T!CancelCard
    BY <2>1 DEF T!EditCard, T!CancelCard, T!app
  <2>2. CASE T!TypeCard
    BY <2>0, <2>2 DEF T!TypeCard, T!app
  <2>3. CASE T!SaveCard
    BY <2>0, <2>3 DEF T!SaveCard, T!app, T!history
  <2> QED BY <2>1, <2>2, <2>3
<1>2. \A i \in Piece, f \in InPane : recorded'[i][f] = recorded[i][f]
  <2>1. CASE recorded' = recorded
    BY <2>1
  <2>2. CASE T!Record(selected, "card", comment.words) /\ selected \in Piece
    <3>1. comment.words \in T!Words /\ "card" \in T!Field
      BY DEF T!TypeOK, T!Box
    <3>2. /\ \A g \in T!Field : g # "card" => recorded'[selected][g] = recorded[selected][g]
          /\ \A j \in Piece : j # selected => recorded'[j] = recorded[j]
      BY <2>2, <3>1, RecordIs
    <3> QED BY <3>2 DEF InPane
  <2> QED BY <1>1, <2>1, <2>2
<1>3. OfOne'
  BY <1>1 DEF PaneWords, OfOne
<1> QED BY <1>1, <1>2, <1>3, AsideKeeps

\* A body that is reset gives up what was kept, in sight.
LEMMA ResetKeeps ==
  ASSUME T!Bounds, T!TypeOK, LastIsOver, Shut, PaneWords, T!ResetBody
  PROVE  PaneWords'
<1>. USE WordsAre
<1> PICK i \in Piece : i = selected
  BY DEF T!ResetBody, T!TypeOK
<1>1. /\ box.where = "none" /\ T!Record(i, "body", T!Silent)
      /\ givenUp' = givenUp \cup T!GivenUp(recorded[i]["body"])
      /\ UNCHANGED <<selected, loading, proposal, box, sent, typed, under>>
  BY DEF T!ResetBody, T!Free, T!app
<1>2. /\ recorded'[i]["body"] = T!Silent
      /\ \A g \in T!Field : g # "body" => recorded'[i][g] = recorded[i][g]
      /\ \A j \in Piece : j # i => recorded'[j] = recorded[j]
  <2>1. T!Silent \in T!Words /\ "body" \in T!Field
    OBVIOUS
  <2> QED BY <1>1, <2>1, RecordIs
<1>3. \A j \in Piece, g \in InPane : j # i \/ g # "body" => recorded'[j][g] = recorded[j][g]
  BY <1>2 DEF InPane
<1>4. OfOne'
  BY <1>1 DEF PaneWords, OfOne
<1>5. InPlace'
  <2>1. ASSUME NEW j \in Piece, NEW g \in InPane PROVE Over(recorded[j][g], j, g)'
    <3>1. CASE j = i /\ g = "body"
      BY <1>2, <3>1 DEF Over, T!Typed
    <3>2. CASE j # i \/ g # "body"
      <4>1. Over(recorded[j][g], j, g)
        BY DEF PaneWords, InPlace
      <4> QED BY <1>1, <1>3, <3>2, <4>1 DEF Over, T!Typed
    <3> QED BY <3>1, <3>2
  <2> QED BY <1>1, <2>1 DEF InPlace
<1>6. NoneLost'
  <2> SUFFICES ASSUME NEW j \in Piece, NEW g \in InPane
               PROVE  T!Last(j, g)' \in {T!Silent, IF Boxed(j, g)' THEN box'.words ELSE recorded'[j][g]} \cup givenUp'
    BY DEF NoneLost, T!Silent
  <2>1. T!Last(j, g)' = T!Last(j, g) /\ ~Boxed(j, g)' /\ ~Boxed(j, g)
    BY <1>1 DEF T!Last, T!Writing, Boxed
  <2>2. T!Last(j, g) \in {T!Silent, recorded[j][g]} \cup givenUp
    BY <2>1 DEF PaneWords, NoneLost
  <2>3. CASE j = i /\ g = "body"
    <3>1. T!Last(j, g) = T!Silent \/ T!Typed(T!Last(j, g))
      BY DEF LastIsOver, InPane
    <3> QED BY <1>1, <2>1, <2>2, <2>3, <3>1 DEF T!GivenUp
  <2>4. CASE j # i \/ g # "body"
    BY <1>1, <1>3, <2>1, <2>2, <2>4
  <2> QED BY <2>3, <2>4
<1>7. Untouched'
  <2>1. ASSUME NEW j \in Piece PROVE recorded'[j]["body"] = T!Silent \/ T!Typed(recorded'[j]["body"]) \/ under'
    BY <1>1, <1>2 DEF PaneWords, Untouched
  <2> QED BY <1>1, <2>1 DEF Untouched, T!Typed, T!Silent
<1>8. SentAsKept'
  <2>1. \A j \in Piece : recorded'[j]["summary"] = recorded[j]["summary"]
    BY <1>3 DEF InPane
  <2> QED BY <1>1, <2>1, SentStays DEF PaneWords
<1> QED BY <1>4, <1>5, <1>6, <1>7, <1>8 DEF PaneWords

\* What is posted is what is kept.
LEMMA PostKeeps ==
  ASSUME T!Bounds, T!TypeOK, LastIsOver, Shut, PaneWords, T!Post
  PROVE  PaneWords'
<1>. USE WordsAre
<1> PICK i \in Piece : i = selected
  BY DEF T!Post, T!TypeOK
<1>1. /\ box.where = "none" /\ sent' = [sent EXCEPT ![i] = T!Says(i, "summary")] /\ sent \in [Piece -> T!Words]
      /\ UNCHANGED <<selected, loading, proposal, box, recorded, typed, givenUp, under>>
  BY DEF T!Post, T!Free, T!history, T!TypeOK
<1>2. OfOne'
  BY <1>1 DEF PaneWords, OfOne
<1>3. InPlace' /\ NoneLost' /\ Untouched'
  BY <1>1, PaneStays DEF PaneWords
<1>4. T!Typed(T!Says(i, "summary")) => T!Says(i, "summary") = recorded[i]["summary"]
  BY SaysIs
<1>5. SentAsKept'
  BY <1>1, <1>4 DEF PaneWords, SentAsKept, T!Typed, T!Silent
<1> QED BY <1>2, <1>3, <1>5 DEF PaneWords

\* What the reader does over the pane leaves the card where it is, unless it is
\* carried to another item.
LEMMA CardAside ==
  ASSUME T!Bounds, T!TypeOK, LastIsOver, Shut, OfOne, CardKept, ~carried',
         \/ \E i \in Piece : T!Redraft(i) \/ T!PostedElsewhere(i) \/ T!Loaded(i) \/ T!Look(i)
         \/ \E where \in {"summary", "body", "sheet"} : T!OpenBox(where)
         \/ T!TypeIn \/ T!PressAway \/ T!Leave \/ T!PutAway \/ T!Lens \/ T!ResetBody \/ T!Post
  PROVE  CardKept'
<1>. USE WordsAre
<1>1. CASE \E i \in Piece : T!Redraft(i) \/ T!PostedElsewhere(i) \/ T!Loaded(i)
  <2> PICK i \in Piece : T!Redraft(i) \/ T!PostedElsewhere(i) \/ T!Loaded(i)
    BY <1>1
  <2>1. givenUp \subseteq givenUp'
    BY RedrawIs DEF T!Redraft, T!PostedElsewhere, T!Loaded
  <2>2. selected' = selected /\ UNCHANGED <<recorded, typed, comment>>
    BY DEF T!Redraft, T!PostedElsewhere, T!Loaded, T!Idle, OfOne
  <2> QED BY <2>1, <2>2, CardStays DEF CardKept
<1>2. CASE \E i \in Piece : T!Look(i)
  <2> PICK i \in Piece : T!Look(i)
    BY <1>2
  <2>1. /\ UNCHANGED <<comment, recorded, typed, givenUp>> /\ selected' = i
        /\ (comment.where # "none" => comment.of = i)
    BY DEF T!Look
  <2> QED BY <2>1, CardStays
<1>3. CASE T!PutAway \/ T!Lens \/ T!PressAway \/ T!Post \/ (\E where \in {"summary", "body", "sheet"} : T!OpenBox(where))
  <2>1. UNCHANGED <<comment, recorded, typed, givenUp>> /\ selected' \in {selected, "none"}
    BY <1>3 DEF T!PutAway, T!Lens, T!PressAway, T!Post, T!OpenBox, T!app, T!history
  <2> QED BY <2>1, CardStays DEF CardKept
<1>4. CASE T!TypeIn
  <2>1. /\ UNCHANGED <<comment, recorded, givenUp, selected>> /\ box.of \in Piece
        /\ typed' = Append(typed, <<box.of, T!FieldOf(box.where)>>) /\ T!FieldOf(box.where) \in InPane
    BY <1>4 DEF T!TypeIn, Shut, T!app
  <2>2. \E i \in Piece, f \in InPane : typed' = Append(typed, <<i, f>>)
    BY <2>1
  <2> QED BY <2>1, <2>2, CardStays DEF CardKept
<1>5. CASE T!Leave
  <2>1. UNCHANGED <<comment, typed, givenUp, selected>> /\ T!Keep
    BY <1>5 DEF T!Leave, T!app, T!history
  <2>2. ASSUME NEW i \in Piece PROVE recorded'[i]["card"] = recorded[i]["card"]
    <3>1. CASE recorded' = recorded
      BY <3>1
    <3>2. CASE box.where # "none" /\ \E j \in Piece : T!Record(j, T!FieldOf(box.where), box.words)
      <4> PICK j \in Piece : T!Record(j, T!FieldOf(box.where), box.words)
        BY <3>2
      <4> PICK f \in InPane : f = T!FieldOf(box.where)
        OBVIOUS
      <4>1. box.words \in T!Words /\ f \in T!Field /\ f # "card" /\ "card" \in T!Field
        BY DEF T!TypeOK, T!Box, InPane
      <4>2. /\ \A g \in T!Field : g # f => recorded'[j][g] = recorded[j][g]
            /\ \A k \in Piece : k # j => recorded'[k] = recorded[k]
        BY <4>1, RecordIs
      <4> QED BY <4>1, <4>2
    <3> QED BY <2>1, <3>1, <3>2, KeepIs
  <2> QED BY <2>1, <2>2, CardStays DEF CardKept
<1>6. CASE T!ResetBody
  <2>1. /\ UNCHANGED <<comment, typed, selected>> /\ selected \in Piece /\ T!Record(selected, "body", T!Silent)
        /\ givenUp \subseteq givenUp'
    BY <1>6 DEF T!ResetBody, T!app, T!TypeOK
  <2>2. ASSUME NEW i \in Piece PROVE recorded'[i]["card"] = recorded[i]["card"]
    <3>1. T!Silent \in T!Words /\ "body" \in T!Field /\ "card" \in T!Field
      OBVIOUS
    <3>2. /\ \A g \in T!Field : g # "body" => recorded'[selected][g] = recorded[selected][g]
          /\ \A k \in Piece : k # selected => recorded'[k] = recorded[k]
      BY <2>1, <3>1, RecordIs
    <3> QED BY <3>1, <3>2
  <2> QED BY <2>1, <2>2, CardStays DEF CardKept
<1> QED BY <1>1, <1>2, <1>3, <1>4, <1>5, <1>6

\* A card opened or given up gives up the words of the one before, in sight.
LEMMA CardOpened ==
  ASSUME T!Bounds, T!TypeOK, LastIsOver, Shut, CardKept, T!EditCard \/ T!CancelCard
  PROVE  CardKept'
<1>. USE WordsAre
<1>1. UNCHANGED <<selected, recorded, typed>> /\ givenUp' = givenUp \cup T!GivenUp(comment.words)
  BY DEF T!EditCard, T!CancelCard, T!app
<1>2. \A i \in Piece : Over(recorded[i]["card"], i, "card")'
  BY <1>1 DEF CardKept, Over, T!Typed
<1>3. ASSUME NEW i \in Piece PROVE T!Last(i, "card")' \in {T!Silent, recorded[i]["card"]} \cup givenUp'
  <2>1. T!Last(i, "card")' = T!Last(i, "card")
    BY <1>1 DEF T!Last, T!Writing
  <2>2. T!Last(i, "card") \in {T!Silent, IF Carded(i) THEN comment.words ELSE recorded[i]["card"]} \cup givenUp
    BY DEF CardKept
  <2>3. T!Last(i, "card") = T!Silent \/ T!Typed(T!Last(i, "card"))
    BY DEF LastIsOver
  <2> QED BY <1>1, <2>1, <2>2, <2>3 DEF T!GivenUp
<1>4. CASE T!CancelCard
  <2>1. comment' = T!Closed
    BY <1>4 DEF T!CancelCard
  <2> QED BY <1>1, <1>2, <1>3, <2>1 DEF CardKept, Carded, T!Silent
<1>5. CASE T!EditCard
  <2> PICK s \in Piece : s = selected
    BY <1>5 DEF T!EditCard, T!TypeOK
  <2>1. comment' = [where |-> "body", of |-> s, words |-> T!Says(s, "card")] /\ "card" \in T!Field
    BY <1>5 DEF T!EditCard
  <2>2. comment'.of = s /\ comment'.words = T!Says(s, "card") /\ comment'.where = "body"
    BY <2>1
  <2>3. recorded[s]["card"] # T!Silent => T!Says(s, "card") = recorded[s]["card"]
    BY <2>1, SaysIs
  <2>4. Over(comment.words, comment.of, "card")'
    <3>1. recorded[s]["card"] = T!Silent => ~T!Typed(T!Says(s, "card"))
      BY <2>1, SaysIs
    <3>2. Over(recorded[s]["card"], s, "card")
      BY DEF CardKept
    <3> QED BY <1>1, <2>2, <2>3, <3>1, <3>2 DEF Over, T!Typed
  <2>5. ASSUME NEW i \in Piece
        PROVE  T!Last(i, "card")' \in {T!Silent, IF Carded(i)' THEN comment'.words ELSE recorded'[i]["card"]} \cup givenUp'
    <3>1. CASE i = s
      BY <1>1, <1>3, <2>2, <2>3, <3>1 DEF Carded
    <3>2. CASE i # s
      BY <1>1, <1>3, <2>2, <3>2 DEF Carded
    <3> QED BY <3>1, <3>2
  <2> QED BY <1>1, <1>2, <2>2, <2>4, <2>5 DEF CardKept, T!Silent
<1> QED BY <1>4, <1>5

\* What is typed in a card is the last over it, ...
LEMMA CardTyped ==
  ASSUME T!Bounds, T!TypeOK, LastIsOver, Shut, CardKept, T!TypeCard
  PROVE  CardKept'
<1>. USE WordsAre
<1> PICK s \in Piece : s = selected
  BY DEF T!TypeCard, T!TypeOK
<1>1. /\ comment.where # "none" /\ typed' = Append(typed, <<s, "card">>)
      /\ comment' = [comment EXCEPT !.words = T!Writing(Len(typed'))] /\ comment \in T!Box
      /\ UNCHANGED <<selected, recorded, givenUp>> /\ "card" \in T!Field
  BY DEF T!TypeCard, T!app, T!TypeOK
<1>2. /\ Len(typed) \in Nat /\ Len(typed') = Len(typed) + 1
      /\ Len(typed) + 1 \in DOMAIN typed' /\ typed'[Len(typed) + 1] = <<s, "card">>
      /\ T!Last(s, "card")' = T!Writing(Len(typed) + 1)
      /\ \A j \in Piece, g \in T!Field : j # s \/ g # "card" => T!Last(j, g)' = T!Last(j, g)
  BY <1>1, Appended
<1>3. /\ comment.of = s /\ comment'.of = s /\ comment'.where = comment.where
      /\ comment'.words = T!Writing(Len(typed) + 1)
  <2>1. comment.of = s
    BY <1>1 DEF CardKept
  <2> QED BY <1>1, <1>2, <2>1 DEF T!Box
<1>4. T!Typed(comment'.words) /\ comment'.words - MaxRedrafts = Len(typed) + 1
  BY <1>2, <1>3
<1>5. ASSUME NEW i \in Piece PROVE Over(recorded[i]["card"], i, "card")'
  <2>1. Over(recorded[i]["card"], i, "card") /\ recorded' = recorded
    BY <1>1 DEF CardKept
  <2>2. ASSUME T!Typed(recorded[i]["card"])
        PROVE  /\ recorded[i]["card"] - MaxRedrafts \in DOMAIN typed'
               /\ typed'[recorded[i]["card"] - MaxRedrafts] = <<i, "card">>
    BY <1>1, <2>1, <2>2, OverStays
  <2> QED BY <2>1, <2>2 DEF Over, T!Typed
<1>6. Over(comment.words, comment.of, "card")'
  BY <1>2, <1>3, <1>4 DEF Over, T!Typed
<1>7. ASSUME NEW i \in Piece
      PROVE  T!Last(i, "card")' \in {T!Silent, IF Carded(i)' THEN comment'.words ELSE recorded'[i]["card"]} \cup givenUp'
  <2>1. CASE i = s
    BY <1>1, <1>2, <1>3, <2>1 DEF Carded
  <2>2. CASE i # s
    <3>1. T!Last(i, "card") \in {T!Silent, recorded[i]["card"]} \cup givenUp
      BY <1>3, <2>2 DEF CardKept, Carded
    <3> QED BY <1>1, <1>2, <1>3, <2>2, <3>1 DEF Carded
  <2> QED BY <2>1, <2>2
<1> QED BY <1>1, <1>3, <1>5, <1>6, <1>7 DEF CardKept, T!Silent

\* ... and what is saved is kept for the item it is of.
LEMMA CardSaved ==
  ASSUME T!Bounds, T!TypeOK, LastIsOver, Shut, CardKept, T!SaveCard
  PROVE  CardKept'
<1>. USE WordsAre
<1> PICK s \in Piece : s = selected
  BY DEF T!SaveCard, T!TypeOK
<1>1. /\ comment.where # "none" /\ T!Record(s, "card", comment.words) /\ comment' = T!Closed
      /\ UNCHANGED <<selected, typed, givenUp>>
  BY DEF T!SaveCard, T!app, T!history
<1>2. comment.of = s
  BY <1>1 DEF CardKept
<1>3. recorded'[s]["card"] = comment.words /\ \A j \in Piece : j # s => recorded'[j] = recorded[j]
  <2>1. comment.words \in T!Words /\ "card" \in T!Field
    BY DEF T!TypeOK, T!Box
  <2> QED BY <1>1, <2>1, RecordIs
<1>4. ASSUME NEW i \in Piece PROVE Over(recorded[i]["card"], i, "card")'
  <2>1. CASE i = s
    <3>1. Over(comment.words, s, "card")
      BY <1>1, <1>2 DEF CardKept
    <3> QED BY <1>1, <1>3, <2>1, <3>1 DEF Over, T!Typed
  <2>2. CASE i # s
    <3>1. Over(recorded[i]["card"], i, "card")
      BY DEF CardKept
    <3> QED BY <1>1, <1>3, <2>2, <3>1 DEF Over, T!Typed
  <2> QED BY <2>1, <2>2
<1>5. ASSUME NEW i \in Piece PROVE T!Last(i, "card")' \in {T!Silent, recorded'[i]["card"]} \cup givenUp'
  <2>1. T!Last(i, "card")' = T!Last(i, "card")
    BY <1>1 DEF T!Last, T!Writing
  <2>2. T!Last(i, "card") \in {T!Silent, IF Carded(i) THEN comment.words ELSE recorded[i]["card"]} \cup givenUp
    BY DEF CardKept
  <2>3. CASE i = s
    BY <1>1, <1>2, <1>3, <2>1, <2>2, <2>3 DEF Carded
  <2>4. CASE i # s
    BY <1>1, <1>2, <1>3, <2>1, <2>2, <2>4 DEF Carded
  <2> QED BY <2>3, <2>4
<1> QED BY <1>1, <1>4, <1>5 DEF CardKept, Carded, T!Silent

\* Nothing is written at the start.
LEMMA WritingInvInit ==
  ASSUME T!Bounds, T!Init
  PROVE  WritingInv
<1>. USE WordsAre
<1>1. T!TypeOK
  <2>1. MaxNews \in Nat /\ MaxEdits \in Nat /\ MaxLooks \in Nat /\ 1 \in 1..MaxRedrafts
    BY DEF T!Bounds
  <2>2. typed \in Seq(Piece \X T!Field) /\ Len(typed) = 0
    BY DEF T!Init
  <2>3. /\ recorded \in [Piece -> [T!Field -> T!Words]] /\ sent \in [Piece -> T!Words]
        /\ proposal \in [Piece -> 1..MaxRedrafts]
    BY <2>1 DEF T!Init
  <2>4. /\ selected \in Piece \cup {"none"} /\ filtered \in BOOLEAN /\ leaving \in BOOLEAN
        /\ givenUp \subseteq T!Words
        /\ unfinished \subseteq Piece /\ reviewed \subseteq Piece /\ loading \subseteq Piece
        /\ news = 0 /\ looks = 0 /\ edits = 0 /\ box = T!Closed /\ comment = T!Closed
    BY DEF T!Init
  <2>5. {met, carried, under} \subseteq BOOLEAN
    BY DEF T!Init
  <2>6. news \in 0..MaxNews /\ looks \in 0..MaxLooks /\ edits \in 0..MaxEdits
    BY <2>1, <2>4
  <2> QED BY <2>2, <2>3, <2>4, <2>5, <2>6 DEF T!TypeOK
<1>2. \A i \in Piece, f \in T!Field : T!Last(i, f) = T!Silent
  BY DEF T!Init, T!Last
<1>3. \A i \in Piece, f \in T!Field : recorded[i][f] = T!Silent /\ sent[i] = T!Silent
  BY DEF T!Init
<1>4. box = T!Closed /\ comment = T!Closed /\ loading = {}
  BY DEF T!Init
<1>5. Shut /\ LastIsOver
  BY <1>2, <1>3, <1>4 DEF Shut, LastIsOver
<1>6. ~T!Typed(T!Silent)
  OBVIOUS
<1>7. OfOne /\ InPlace
  BY <1>3, <1>4, <1>6 DEF OfOne, InPlace, Over, InPane
<1>8. NoneLost
  BY <1>2 DEF NoneLost, InPane
<1>9. Untouched /\ SentAsKept
  BY <1>3, <1>4, <1>6 DEF Untouched, SentAsKept
<1>10. CardKept
  BY <1>2, <1>3, <1>4, <1>6 DEF CardKept, Over
<1> QED BY <1>1, <1>5, <1>7, <1>8, <1>9, <1>10 DEF WritingInv, PaneWords

\* What was crossed or carried stays so.
LEMMA CrossedStays ==
  ASSUME T!TypeOK, T!Next
  PROVE  (~met' => ~met) /\ (~carried' => ~carried)
<1>1. CASE \E i \in Piece : T!Redraft(i) \/ T!PostedElsewhere(i) \/ T!Loaded(i)
  BY <1>1 DEF T!Redraft, T!PostedElsewhere, T!Loaded, T!Idle
<1>2. CASE \E i \in Piece : T!Look(i)
  <2> PICK i \in Piece : T!Look(i)
    BY <1>2
  <2>1. met' = (met \/ loading # {}) /\ carried' = (carried \/ (comment.where # "none" /\ comment.of # i))
    BY DEF T!Look
  <2> QED BY <2>1, Zenon
<1>3. CASE T!PutAway
  <2>1. met' = (met \/ loading # {}) /\ carried' = carried
    BY <1>3 DEF T!PutAway
  <2> QED BY <2>1, Zenon
<1>4. CASE \/ \E where \in {"summary", "body", "sheet"} : T!OpenBox(where)
           \/ T!TypeIn \/ T!PressAway \/ T!Leave \/ T!Lens \/ T!EditCard \/ T!TypeCard \/ T!SaveCard \/ T!CancelCard \/ T!ResetBody \/ T!Post
  BY <1>4 DEF T!OpenBox, T!TypeIn, T!PressAway, T!Leave, T!Lens, T!EditCard, T!TypeCard, T!SaveCard,
     T!CancelCard, T!ResetBody, T!Post, T!history
<1> QED BY <1>1, <1>2, <1>3, <1>4 DEF T!Next

\* Every step leaves the words where they were, or in sight.
LEMMA WritingInvStep ==
  ASSUME T!Bounds, WritingInv, T!Next
  PROVE  WritingInv'
<1>1. T!TypeOK /\ LastIsOver /\ Shut /\ (~met' => ~met) /\ (~carried' => ~carried)
  BY CrossedStays DEF WritingInv
<1>2. T!TypeOK' /\ Shut'
  BY <1>1, WritingTypeStep
<1>3. LastIsOver'
  BY <1>1, LastIsOverStep
<1>4. ASSUME ~met' PROVE PaneWords'
  <2>1. PaneWords
    BY <1>1, <1>4 DEF WritingInv
  <2>2. CASE \E i \in Piece : T!Redraft(i) \/ T!PostedElsewhere(i) \/ T!Loaded(i)
    BY <1>1, <2>1, <2>2, NewsKeeps
  <2>3. CASE (\E i \in Piece : T!Look(i)) \/ T!PutAway \/ T!Lens \/ T!PressAway
    BY <1>1, <1>4, <2>1, <2>3, PressKeeps
  <2>4. CASE \E where \in {"summary", "body", "sheet"} : T!OpenBox(where)
    BY <1>1, <2>1, <2>4, OpenBoxKeeps
  <2>5. CASE T!TypeIn
    BY <1>1, <2>1, <2>5, TypeInKeeps
  <2>6. CASE T!Leave
    BY <1>1, <2>1, <2>6, LeaveKeeps
  <2>7. CASE T!EditCard \/ T!CancelCard \/ T!TypeCard \/ T!SaveCard
    BY <1>1, <2>1, <2>7, CardKeeps
  <2>8. CASE T!ResetBody
    BY <1>1, <2>1, <2>8, ResetKeeps
  <2>9. CASE T!Post
    BY <1>1, <2>1, <2>9, PostKeeps
  <2> QED BY <2>2, <2>3, <2>4, <2>5, <2>6, <2>7, <2>8, <2>9 DEF T!Next
<1>5. ASSUME ~met', ~carried' PROVE CardKept'
  <2>1. OfOne /\ CardKept
    BY <1>1, <1>5 DEF WritingInv, PaneWords
  <2>2. CASE T!EditCard \/ T!CancelCard
    BY <1>1, <2>1, <2>2, CardOpened
  <2>3. CASE T!TypeCard
    BY <1>1, <2>1, <2>3, CardTyped
  <2>4. CASE T!SaveCard
    BY <1>1, <2>1, <2>4, CardSaved
  <2>5. CASE \/ \E i \in Piece : T!Redraft(i) \/ T!PostedElsewhere(i) \/ T!Loaded(i) \/ T!Look(i)
             \/ \E where \in {"summary", "body", "sheet"} : T!OpenBox(where)
             \/ T!TypeIn \/ T!PressAway \/ T!Leave \/ T!PutAway \/ T!Lens \/ T!ResetBody \/ T!Post
    BY <1>1, <1>5, <2>1, <2>5, CardAside
  <2> QED BY <2>2, <2>3, <2>4, <2>5 DEF T!Next
<1> QED BY <1>2, <1>3, <1>4, <1>5 DEF WritingInv

LEMMA WritingInvStutter ==
  ASSUME WritingInv, UNCHANGED T!vars
  PROVE  WritingInv'
<1>1. UNCHANGED <<selected, filtered, proposal, unfinished, news, reviewed, loading, looks, box, leaving, comment, edits, recorded, sent,
                  typed, givenUp, met, carried, under>>
  BY DEF T!vars, T!app, T!history
<1>2. T!TypeOK' = T!TypeOK /\ Shut' = Shut
  BY <1>1 DEF T!TypeOK, Shut, T!Box, T!Words
<1>3. \A i, f : T!Last(i, f)' = T!Last(i, f)
  BY <1>1 DEF T!Last, T!Writing, T!Silent
<1>4. LastIsOver' = LastIsOver
  BY <1>1, <1>3 DEF LastIsOver, Over, T!Typed, T!Silent
<1>5. PaneWords' = PaneWords
  BY <1>1, <1>3 DEF PaneWords, OfOne, InPlace, NoneLost, Untouched, SentAsKept, Over, T!Typed, T!Silent, Boxed,
     T!FieldOf, T!Says
<1>6. CardKept' = CardKept
  BY <1>1, <1>3 DEF CardKept, Over, T!Typed, T!Silent, Carded
<1> QED BY <1>1, <1>2, <1>4, <1>5, <1>6 DEF WritingInv

\* The invariant says where the words are.
LEMMA WritingInvMeans ==
  ASSUME T!Bounds, WritingInv
  PROVE  T!WordsStay
<1>. USE WordsAre
<1> SUFFICES ASSUME ~met, NEW i \in Piece, NEW f \in T!Field, ~(f = "card" /\ carried)
             PROVE  /\ T!Typed(recorded[i][f]) => typed[recorded[i][f] - MaxRedrafts] = <<i, f>>
                    /\ T!Last(i, f) \in {T!Silent, recorded[i][f], T!InHand(i, f)} \cup givenUp
                    /\ f = "body" => recorded[i][f] = T!Silent \/ T!Typed(recorded[i][f]) \/ under
                    /\ f = "summary" /\ T!Typed(sent[i]) => sent[i] = recorded[i][f]
  BY DEF T!WordsStay
<1>1. PaneWords /\ (f = "card" => CardKept)
  BY DEF WritingInv
<1>2. CASE f = "card"
  <2>1. Over(recorded[i][f], i, f)
    BY <1>1, <1>2 DEF CardKept
  <2>2. T!Last(i, f) \in {T!Silent, recorded[i][f], comment.words} \cup givenUp
    BY <1>1, <1>2 DEF CardKept
  <2> QED BY <1>2, <2>1, <2>2 DEF Over, T!InHand
<1>3. CASE f # "card"
  <2>1. f \in InPane
    BY <1>3 DEF InPane
  <2>2. Over(recorded[i][f], i, f)
    BY <1>1, <2>1 DEF PaneWords, InPlace
  <2>3. T!Last(i, f) \in {T!Silent, recorded[i][f], T!InHand(i, f)} \cup givenUp
    BY <1>1, <1>3, <2>1 DEF PaneWords, NoneLost, Boxed, T!InHand
  <2>4. f = "body" => recorded[i][f] = T!Silent \/ T!Typed(recorded[i][f]) \/ under
    BY <1>1 DEF PaneWords, Untouched
  <2>5. f = "summary" /\ T!Typed(sent[i]) => sent[i] = recorded[i][f]
    BY <1>1 DEF PaneWords, SentAsKept
  <2> QED BY <2>2, <2>3, <2>4, <2>5 DEF Over
<1> QED BY <1>2, <1>3

\* The words a reader types over a field are in its box, kept for it or given
\* up in sight, and kept for nothing else, unless an opening met another or a
\* card was carried (view.js, description-pane.js, findings.js).
THEOREM WordsAreKept ==
  ASSUME T!Bounds
  PROVE  T!Spec => []T!WordsStay
<1>1. T!Init => WritingInv
  BY WritingInvInit
<1>2. WritingInv /\ [T!Next]_T!vars => WritingInv'
  BY WritingInvStep, WritingInvStutter
<1>3. WritingInv => T!WordsStay
  BY WritingInvMeans
<1> QED BY <1>1, <1>2, <1>3, PTL DEF T!Spec
===============================================================================
