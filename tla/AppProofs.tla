------------------------------ MODULE AppProofs ------------------------------
(* Proofs about what the app's controller does. Of Posting: what goes out at  *)
(* a reader's press. Of Accounts: who it goes out as. Of SourceSwitch: what   *)
(* an opening has done so far is of the source it opens, so when it ends      *)
(* nothing of the source left is read through, and what the reader did        *)
(* meanwhile is told in the log it is about. Of AdapterWatch: what a watch    *)
(* last told is what it holds. Of Settings: a change is together or halfway,  *)
(* and what it changes is owed a sweep or told of by the youngest.            *)
EXTENDS Posting, FiniteSetTheorems, WellFoundedInduction, TLAPS

CONSTANTS Destination, Account, Call, MaxAsks, MaxFalters
VARIABLES
  listed, gone, token, preference, destinationId, destination, login, problem,
  call, asks, falters, overlapped, failed, mixed, orphaned
A == INSTANCE Accounts WITH MaxFaults <- MaxFalters, faults <- falters

CONSTANTS Source, Opening, MaxRequests, MaxDecisions, MaxOutages
VARIABLES
  attached, removed, source, adapter, written, alert, watching, timer, held, up, openings,
  selected, calls, waiting, logs, files, requests, decisions, outages, entangled, hurried
Switch == INSTANCE SourceSwitch WITH
  MaxAsks <- MaxRequests, gone <- removed, drafts <- written, problem <- alert, asks <- requests,
  overlapped <- entangled

CONSTANTS Round, Patience, MaxChanges, MaxStops
VARIABLES stored, answering, watch, ticking, round, troubled, changes, stops, slid, toldOf
W == INSTANCE AdapterWatch WITH
  Quiet <- Patience, MaxOutages <- MaxStops, up <- answering, timer <- ticking, outages <- stops

CONSTANTS MaxCorrections, MaxSlips
VARIABLES place, secret, open, built, health, edit, sweeps, arrived, corrections, slips,
          unproven, refused, outrun, blended
Settings == INSTANCE Settings WITH
  MaxAsks <- MaxCorrections, MaxFaults <- MaxSlips, gone <- removed, reader <- built, call <- edit,
  asks <- corrections, faults <- slips, failed <- refused, mixed <- blended, landed <- arrived

-----------------------------------------------------------------------------
(* Numbers.                                                                  *)

\* Any natural numbers have a least, ...
LEMMA HasLeast ==
  ASSUME NEW S \in SUBSET Nat, S # {}
  PROVE  \E m \in S : \A k \in S : m <= k
<1>1. IsWellFoundedOn(OpToRel(<, Nat), Nat)
  BY NatLessThanWellFounded
<1>2. PICK m \in S : \A k \in S : <<k, m>> \notin OpToRel(<, Nat)
  BY <1>1, WFMin
<1>3. \A k \in S : ~(k < m)
  BY <1>2 DEF OpToRel
<1>. QED
  BY <1>3

\* ... and those of an interval a greatest.
LEMMA HasGreatest ==
  ASSUME NEW n \in Nat, NEW S \in SUBSET (1..n), S # {}
  PROVE  \E m \in S : \A k \in S : k <= m
<1>1. {n - k : k \in S} \subseteq Nat /\ {n - k : k \in S} # {}
  <2>1. \A k \in S : n - k \in Nat
    OBVIOUS
  <2>. QED
    BY <2>1
<1>2. PICK j \in {n - k : k \in S} : \A i \in {n - k : k \in S} : j <= i
  BY <1>1, HasLeast
<1>3. PICK m \in S : j = n - m
  BY <1>2
<1>4. \A k \in S : n - m <= n - k
  BY <1>2, <1>3
<1>. QED
  BY <1>4

-----------------------------------------------------------------------------
(* The decisions.                                                            *)

\* The latest decision of some kinds is one of them, and none of them is later.
LEMMA LatestIs ==
  ASSUME NEW E, NEW events \in Seq(E), NEW acts,
         NEW n \in DOMAIN events, events[n].act \in acts
  PROVE  /\ Latest(events, acts) \in DOMAIN events
         /\ events[Latest(events, acts)].act \in acts
         /\ \A m \in DOMAIN events : events[m].act \in acts => m <= Latest(events, acts)
<1>. DEFINE at == {m \in DOMAIN events : events[m].act \in acts}
<1>1. at \in SUBSET (1..Len(events)) /\ at # {} /\ Len(events) \in Nat
  OBVIOUS
<1>2. \E m \in at : \A k \in at : k <= m
  BY <1>1, HasGreatest
<1>3. Latest(events, acts) = CHOOSE m \in at : \A k \in at : k <= m
  BY <1>1 DEF Latest
<1>. QED
  BY <1>2, <1>3

\* With none of them in the log there is no latest.
LEMMA NoLatest ==
  ASSUME NEW events, NEW acts, \A m \in DOMAIN events : events[m].act \notin acts
  PROVE  Latest(events, acts) = 0
BY DEF Latest

\* A decision holds when one was taken and nothing undid it later.
LEMMA SaysIs ==
  ASSUME NEW E, NEW events \in Seq(E), NEW act, NEW undo, act # undo
  PROVE  Says(events, act, undo) <=>
           \E n \in DOMAIN events : /\ events[n].act = act
                                    /\ \A m \in DOMAIN events : m > n => events[m].act # undo
<1>. DEFINE n == Latest(events, {act, undo})
<1>1. CASE \A m \in DOMAIN events : events[m].act \notin {act, undo}
  BY <1>1, NoLatest DEF Says
<1>2. ASSUME NEW k \in DOMAIN events, events[k].act \in {act, undo}
      PROVE  Says(events, act, undo) <=>
               \E i \in DOMAIN events : /\ events[i].act = act
                                        /\ \A m \in DOMAIN events : m > i => events[m].act # undo
  <2>1. /\ n \in DOMAIN events /\ events[n].act \in {act, undo} /\ n > 0
        /\ \A m \in DOMAIN events : events[m].act \in {act, undo} => m <= n
    <3>1. /\ n \in DOMAIN events /\ events[n].act \in {act, undo}
          /\ \A m \in DOMAIN events : events[m].act \in {act, undo} => m <= n
      BY <1>2, LatestIs, Zenon
    <3>2. \A m \in DOMAIN events : m > 0
      OBVIOUS
    <3>. QED
      BY <3>1, <3>2
  <2>2. Says(events, act, undo) <=> events[n].act = act
    BY <2>1 DEF Says
  <2>3. \A i, m \in DOMAIN events : i \in Int /\ m \in Int /\ (m > i <=> ~(m <= i))
    OBVIOUS
  <2>. HIDE DEF n
  <2>4. ASSUME events[n].act = act
        PROVE  \A m \in DOMAIN events : m > n => events[m].act # undo
    BY <2>1, <2>3
  <2>5. ASSUME NEW i \in DOMAIN events, events[i].act = act,
               \A m \in DOMAIN events : m > i => events[m].act # undo
        PROVE  events[n].act = act
    <3>1. i <= n
      BY <2>1, <2>5
    <3>2. n = i \/ n > i
      BY <2>1, <2>3, <3>1
    <3>. QED
      BY <2>1, <2>5, <3>2
  <2>. QED
    BY <2>1, <2>2, <2>4, <2>5
<1>. QED
  BY <1>1, <1>2

-----------------------------------------------------------------------------
(* The chain.                                                                *)

\* After a link comes the first later one the triage takes, if there is one.
LEMMA AfterIs ==
  ASSUME NEW d \in Nat, NEW s
  PROVE  /\ After(d, s) \in Links \cup {"landed"}
         /\ \A m \in 1..4 : m > d /\ Applies(Chain[m], s) => \E k \in (d + 1)..m : After(d, s) = Chain[k]
         /\ After(d, s) = "landed" \/ \E k \in 1..4 : k > d /\ After(d, s) = Chain[k] /\ Applies(Chain[k], s)
<1>. DEFINE left == {n \in DOMAIN Chain : n > d /\ Applies(Chain[n], s)}
<1>1. left \in SUBSET (1..4) /\ left \subseteq Nat
  BY DEF Chain
<1>2. CASE left = {}
  <2>1. After(d, s) = "landed"
    BY <1>2 DEF After
  <2>2. DOMAIN Chain = 1..4
    BY DEF Chain
  <2>. QED
    BY <1>2, <2>1, <2>2
<1>3. CASE left # {}
  <2>1. PICK least \in left : \A m \in left : least <= m
    BY <1>1, <1>3, HasLeast
  <2>. DEFINE first == CHOOSE n \in left : \A m \in left : n <= m
  <2>2. first \in left /\ \A m \in left : first <= m
    BY <2>1
  <2>3. After(d, s) = Chain[first]
    BY <1>3 DEF After
  <2>4. DOMAIN Chain = 1..4
    BY DEF Chain
  <2>5. \A n \in 1..4 : Chain[n] \in Links
    BY DEF Chain, Links
  <2>. HIDE DEF first
  <2>6. first \in 1..4 /\ first > d /\ Applies(Chain[first], s)
    BY <1>1, <2>2
  <2>7. ASSUME NEW m \in 1..4, m > d, Applies(Chain[m], s)
        PROVE  first \in (d + 1)..m
    <3>1. m \in left
      BY <2>4, <2>7
    <3>2. first <= m
      BY <2>2, <3>1
    <3>. QED
      BY <2>6, <3>2
  <2>. QED
    BY <2>3, <2>5, <2>6, <2>7
<1>. QED
  BY <1>2, <1>3

\* What follows a call is a later link, or nothing.
LEMMA FollowingIs ==
  ASSUME NEW s, s.what = "triage" => s.step \in Links
  PROVE  Following(s) \in Links \cup {"landed"}
<1>1. (CHOOSE n \in DOMAIN Chain : Chain[n] = s.step) \in Nat \/ s.what # "triage"
  <2>1. ASSUME s.step \in Links
        PROVE  \E n \in DOMAIN Chain : Chain[n] = s.step
    BY <2>1 DEF Links, Chain
  <2>2. DOMAIN Chain \subseteq Nat
    BY DEF Chain
  <2>. QED
    BY <2>1, <2>2
<1>. QED
  BY <1>1, AfterIs DEF Following

-----------------------------------------------------------------------------
(* Types, and which sends there are of which item.                           *)

PullSend(s) ==
  /\ s.what \in {"review", "alone"}
  /\ s.step \in {s.what, "landed", "refused", "recorded"}

IssueSend(s) == s.what = "triage" /\ s.step \notin {"review", "alone"}

OfItsKind(s) == IF kind = "pull" THEN PullSend(s) ELSE IssueSend(s)

SendTypes ==
  /\ sends \subseteq Send /\ IsFiniteSet(sends)
  /\ \A s \in sends : OfItsKind(s)

LogTypes == log \in Seq(Event)

Hub == [reviews : Nat, copies : Nat, labelled : BOOLEAN, body : Body, said : Nat, closed : BOOLEAN]

OtherTypes ==
  /\ kind \in Kind /\ staged \in SUBSET {"labels", "comment", "close"}
  /\ draft \in 0..MaxDrafts[kind] /\ drafts \in 1..MaxDrafts[kind]
  /\ sheet \in {"closed", "open", "sending"}
  /\ read \in Body /\ moves \in 0..MaxMoves
  /\ hub \in Hub
  /\ faults \in 0..MaxFaults /\ presses \in 0..MaxPresses
  /\ shown \subseteq Body /\ answered \subseteq 1..MaxDrafts[kind] /\ excused \in Nat

PostingTypes == SendTypes /\ LogTypes /\ OtherTypes

\* These are the types the run checks.
LEMMA PostingTypesMean == PostingTypes => TypeOK
BY DEF PostingTypes, SendTypes, LogTypes, OtherTypes, Hub, TypeOK

\* An item's kind does not change, so neither does what its sends and decisions
\* may be.
LEMMA KindStays ==
  ASSUME Next
  PROVE  /\ kind' = kind /\ staged' = staged /\ Event' = Event /\ Send' = Send
         /\ UNCHANGED log /\ LogTypes => LogTypes'
         /\ UNCHANGED sends /\ SendTypes => SendTypes'
<1>1. UNCHANGED <<kind, staged>>
  BY DEF Next, Work, fixed, Keep, CheckTicket, Land, Fail, Record, Finish, LoseWrite, LandUnheard, Refuse,
     OpenSheet, CloseSheet, PressPost, PressAlone, Dismiss, Restore, ClearDraft, ToggleClose, Reopen, Redraft,
     MoveTicket, PeerPosts, Crash
<1>2. Event' = Event /\ Send' = Send
  BY <1>1 DEF Event, Send
<1>. QED
  BY <1>1, <1>2 DEF LogTypes, SendTypes, OfItsKind

\* A press is counted, answers the draft it sends, and excuses what it repeats.
LEMMA PressCounts ==
  ASSUME Bounds, PostingTypes, draft # 0, NEW s, Press(s)
  PROVE  /\ presses' \in 0..MaxPresses /\ answered' \subseteq 1..MaxDrafts[kind]
         /\ Repeats(s) \in Nat /\ excused' \in Nat
<1>1. IsFiniteSet({t \in sends : t.what = s.what \/ (t.carries /\ s.carries)})
  BY FS_Subset DEF PostingTypes, SendTypes
<1>2. Repeats(s) \in Nat
  BY <1>1, FS_CardinalityType DEF Repeats
<1>3. excused' \in Nat
  BY <1>2 DEF Press, Excuse, Counted, PostingTypes, OtherTypes
<1>4. presses' \in 0..MaxPresses
  BY DEF Press, PostingTypes, OtherTypes, Bounds
<1>5. answered' \subseteq 1..MaxDrafts[kind]
  BY DEF Press, PostingTypes, OtherTypes, Bounds, Kind
<1>. QED
  BY <1>2, <1>3, <1>4, <1>5

\* It adds one send.
LEMMA PressTypes ==
  ASSUME Bounds, PostingTypes, UNCHANGED fixed, NEW s, Press(s), draft # 0, s.id = presses + 1,
         s.what \in {"review", "triage", "alone"}, s.step \in Step, s.seen = draft,
         s = [id |-> s.id, what |-> s.what, step |-> s.step, seen |-> s.seen, base |-> read, fresh |-> read,
              carries |-> s.carries],
         s.carries \in BOOLEAN, OfItsKind(s)
  PROVE  sends' \subseteq Send /\ IsFiniteSet(sends') /\ \A t \in sends' : OfItsKind(t)'
<1>. USE DEF fixed
<1>1. s \in Send
  BY DEF Send, PostingTypes, OtherTypes, Press, Bounds, Kind
<1>2. \A t \in sends' : OfItsKind(t)'
  BY DEF Press, PostingTypes, SendTypes, OfItsKind
<1>3. IsFiniteSet(sends')
  BY FS_AddElement DEF Press, PostingTypes, SendTypes
<1>. QED
  BY <1>1, <1>2, <1>3 DEF Press, PostingTypes, SendTypes

\* Taking a send from one step to another leaves the others alone.
LEMMA MoveTypes ==
  ASSUME PostingTypes, UNCHANGED kind, NEW s \in sends, NEW step \in Step, To(s, step), OfItsKind([s EXCEPT !.step = step])
  PROVE  sends' \subseteq Send /\ IsFiniteSet(sends') /\ \A t \in sends' : OfItsKind(t)'
<1>1. [s EXCEPT !.step = step] \in Send
  BY DEF PostingTypes, SendTypes, OtherTypes, Send
<1>2. sends' = (sends \ {s}) \cup {[s EXCEPT !.step = step]}
  BY DEF To, Move
<1>3. IsFiniteSet(sends')
  BY <1>2, FS_AddElement, FS_RemoveElement DEF PostingTypes, SendTypes
<1>. QED
  BY <1>1, <1>2, <1>3 DEF PostingTypes, SendTypes, OtherTypes, OfItsKind, PullSend, IssueSend

\* What a press makes is a send.
LEMMA NewIs ==
  ASSUME NEW what, NEW step
  PROVE  LET s == New(what, step) IN
         /\ s.id = presses + 1 /\ s.what = what /\ s.step = step /\ s.seen = draft /\ s.carries \in BOOLEAN
         /\ s.carries = (what # "triage" /\ Carried)
         /\ s = [id |-> s.id, what |-> s.what, step |-> s.step, seen |-> s.seen, base |-> read, fresh |-> read,
                 carries |-> s.carries]
BY DEF New

\* A page that goes away leaves decisions that were there, in their order.
LEMMA CrashTypes ==
  ASSUME PostingTypes, Crash
  PROVE  log' \in Seq(Event)
<1>1. IsFiniteSet(Kept)
  <2>1. IsFiniteSet(1..Len(log)) /\ Kept \subseteq 1..Len(log)
    BY FS_Interval DEF Kept, PostingTypes, LogTypes
  <2>. QED
    BY <2>1, FS_Subset
<1>2. Cardinality(Kept) \in Nat
  BY <1>1, FS_CardinalityType
<1>3. PICK at \in [1..Cardinality(Kept) -> Kept] : log' = [i \in DOMAIN at |-> log[at[i]]]
  BY DEF Crash
<1>4. \A n \in Kept : log[n] \in Event
  BY DEF Kept, PostingTypes, LogTypes
<1>5. \A i \in 1..Cardinality(Kept) : log[at[i]] \in Event
  BY <1>4
<1>. QED
  BY <1>2, <1>3, <1>5

\* Every step of the page, of GitHub and of everyone else keeps the types.
LEMMA SendTypesStep ==
  ASSUME Bounds, PostingTypes, Next
  PROVE  SendTypes'
<1>0. IsFiniteSet(sends) /\ sends \subseteq Send /\ \A s \in sends : OfItsKind(s)
  BY DEF PostingTypes, SendTypes
<1>k. kind' = kind /\ Send' = Send
  BY KindStays
<1>1. ASSUME sends' \subseteq Send, IsFiniteSet(sends'), \A t \in sends' : OfItsKind(t)'
      PROVE  SendTypes'
  BY <1>1, <1>k DEF SendTypes
<1>2. CASE CheckTicket
  <2>1. PICK s \in sends :
          /\ s.step = "check"
          /\ \/ sends' = sends \ {s}
             \/ Move(s, [[s EXCEPT !.fresh = hub.body] EXCEPT !.step = After(0, [s EXCEPT !.fresh = hub.body])])
    BY <1>2 DEF CheckTicket
  <2>2. CASE sends' = sends \ {s}
    BY <2>2, <1>0, <1>1, <1>k, FS_RemoveElement DEF OfItsKind
  <2>3. ASSUME NEW t, t = [[s EXCEPT !.fresh = hub.body] EXCEPT !.step = After(0, [s EXCEPT !.fresh = hub.body])],
               Move(s, t)
        PROVE  SendTypes'
    <3>1. After(0, [s EXCEPT !.fresh = hub.body]) \in Links \cup {"landed"}
      BY AfterIs
    <3>2. s \in Send /\ s.what = "triage" /\ kind # "pull"
      BY <2>1, <1>0 DEF OfItsKind, PullSend, IssueSend
    <3>3. t \in Send /\ OfItsKind(t)
      BY <2>3, <3>1, <3>2 DEF Send, Step, Links, OfItsKind, IssueSend, PostingTypes, OtherTypes, Hub
    <3>4. IsFiniteSet(sends') /\ sends' = (sends \ {s}) \cup {t}
      BY <2>3, <1>0, FS_RemoveElement, FS_AddElement DEF Move
    <3>. QED
      BY <1>0, <1>1, <1>k, <3>3, <3>4 DEF OfItsKind
  <2>. QED
    BY <2>1, <2>2, <2>3
<1>3. CASE Land \/ LandUnheard
  <2>1. PICK s \in sends : s.step \in Calls /\ (To(s, Following(s)) \/ To(s, "refused"))
    BY <1>3 DEF Land, LandUnheard
  <2>2. Following(s) \in Links \cup {"landed"}
    BY <2>1, <1>0, FollowingIs DEF OfItsKind, PullSend, IssueSend, Calls, Links
  <2>3. s.what # "triage" => Following(s) = "landed"
    BY DEF Following
  <2>4. s \in Send
    BY <1>0
  <2>5. OfItsKind([s EXCEPT !.step = Following(s)]) /\ OfItsKind([s EXCEPT !.step = "refused"])
    BY <2>2, <2>3, <2>4, <1>0 DEF OfItsKind, PullSend, IssueSend, Links, Send
  <2>6. Following(s) \in Step /\ "refused" \in Step
    BY <2>2 DEF Step, Links
  <2>. QED
    BY <1>1, <1>k, <2>1, <2>5, <2>6, MoveTypes
<1>4. CASE Refuse \/ Record
  <2>1. PICK s \in sends : To(s, "refused") \/ To(s, "recorded")
    BY <1>4 DEF Refuse, Record
  <2>2. OfItsKind([s EXCEPT !.step = "refused"]) /\ OfItsKind([s EXCEPT !.step = "recorded"])
    BY <1>0 DEF OfItsKind, PullSend, IssueSend, Send
  <2>3. "refused" \in Step /\ "recorded" \in Step
    BY DEF Step
  <2>. QED
    BY <1>1, <1>k, <2>1, <2>2, <2>3, MoveTypes
<1>5. CASE Fail \/ Finish \/ Crash
  <2>1. sends' \subseteq sends
    BY <1>5 DEF Fail, Finish, Crash
  <2>2. IsFiniteSet(sends')
    BY <2>1, <1>0, FS_Subset
  <2>. QED
    BY <1>0, <1>1, <1>k, <2>1, <2>2 DEF OfItsKind
<1>6. CASE PressPost
  <2>1. \/ kind = "pull" /\ Press(New("review", "review"))
        \/ kind = "issue" /\ Press(New("triage", "check"))
        \/ kind = "issue" /\ Press(New("triage", After(0, New("triage", "check"))))
    BY <1>6 DEF PressPost
  <2>2. After(0, New("triage", "check")) \in Links \cup {"landed"}
    BY AfterIs
  <2>3. ASSUME NEW what, NEW step, Press(New(what, step)), what \in {"review", "triage"}, step \in Step,
               IF kind = "pull" THEN what = "review" /\ step = "review" ELSE what = "triage" /\ step \notin {"review", "alone"}
        PROVE  SendTypes'
    <3>1. OfItsKind(New(what, step))
      BY <2>3, NewIs DEF OfItsKind, PullSend, IssueSend
    <3>2. draft # 0 /\ UNCHANGED fixed
      BY <1>6 DEF PressPost
    <3>. QED
      BY <1>1, <2>3, <3>1, <3>2, NewIs, PressTypes
  <2>. QED
    BY <2>1, <2>2, <2>3 DEF Step, Links
<1>7. CASE PressAlone
  <2>1. OfItsKind(New("alone", "alone"))
    BY <1>7, NewIs DEF OfItsKind, PullSend, PressAlone
  <2>2. draft # 0 /\ UNCHANGED fixed /\ Press(New("alone", "alone")) /\ "alone" \in Step
    BY <1>7 DEF PressAlone, Step
  <2>. QED
    BY <1>1, <2>1, <2>2, NewIs, PressTypes
<1>8. CASE UNCHANGED sends
  BY <1>8, KindStays DEF PostingTypes
<1>. QED
  BY <1>2, <1>3, <1>4, <1>5, <1>6, <1>7, <1>8
     DEF Next, Work, Keep, LoseWrite, OpenSheet, CloseSheet, Dismiss, Restore, ClearDraft, ToggleClose, Reopen,
         Redraft, MoveTicket, PeerPosts

\* What is written down is a decision about a draft there is.
LEMMA EntryIs ==
  ASSUME Bounds, PostingTypes, NEW act \in Acts, NEW seen \in 0..MaxDrafts[kind]
  PROVE  Entry(act, seen) \in Event /\ [Entry(act, seen) EXCEPT !.disk = "kept"] \in Event
BY DEF Entry, Event

\* Each decision of the log is one.
LEMMA EntryTypes ==
  ASSUME NEW E, NEW events \in Seq(E), NEW n \in DOMAIN events
  PROVE  events[n] \in E
OBVIOUS

\* What becomes of a decision's write changes nothing else about it.
LEMMA WrittenTypes ==
  ASSUME NEW E, NEW events \in Seq(E), NEW n \in DOMAIN events, NEW disk, [events[n] EXCEPT !.disk = disk] \in E
  PROVE  [events EXCEPT ![n].disk = disk] \in Seq(E)
OBVIOUS

\* The log grows at its end.
LEMMA LongerTypes ==
  ASSUME NEW E, NEW events \in Seq(E), NEW a \in E, NEW b \in E
  PROVE  Append(events, a) \in Seq(E) /\ events \o <<a>> \in Seq(E) /\ events \o <<a, b>> \in Seq(E)
OBVIOUS

\* Every step keeps the log a list of decisions.
LEMMA LogTypesStep ==
  ASSUME Bounds, PostingTypes, Next
  PROVE  LogTypes'
<1>0. log \in Seq(Event) /\ draft \in 0..MaxDrafts[kind] /\ Event' = Event
  BY KindStays DEF PostingTypes, LogTypes, OtherTypes
<1>a. {"post", "redraft", "dismiss", "restore", "dropClose", "restoreClose", "sentAlone"} \subseteq Acts
  BY DEF Acts
<1>1. ASSUME log' \in Seq(Event) PROVE LogTypes'
  BY <1>0, <1>1 DEF LogTypes
<1>b. ASSUME NEW a \in Acts, NEW b \in Acts, NEW seen \in 0..MaxDrafts[kind]
      PROVE  /\ Append(log, Entry(a, seen)) \in Seq(Event) /\ log \o <<Entry(a, seen)>> \in Seq(Event)
             /\ log \o <<Entry(a, seen), Entry(b, seen)>> \in Seq(Event)
             /\ log \o <<[Entry(a, seen) EXCEPT !.disk = "kept"], [Entry(b, seen) EXCEPT !.disk = "kept"]>> \in Seq(Event)
  <2>1. /\ Entry(a, seen) \in Event /\ [Entry(a, seen) EXCEPT !.disk = "kept"] \in Event
        /\ Entry(b, seen) \in Event /\ [Entry(b, seen) EXCEPT !.disk = "kept"] \in Event
    BY EntryIs
  <2>2. /\ Append(log, Entry(a, seen)) \in Seq(Event) /\ log \o <<Entry(a, seen)>> \in Seq(Event)
        /\ log \o <<Entry(a, seen), Entry(b, seen)>> \in Seq(Event)
    BY <1>0, <2>1, LongerTypes, Zenon
  <2>3. log \o <<[Entry(a, seen) EXCEPT !.disk = "kept"], [Entry(b, seen) EXCEPT !.disk = "kept"]>> \in Seq(Event)
    BY <1>0, <2>1, LongerTypes, Zenon
  <2>. QED
    BY <2>2, <2>3
<1>2. ASSUME NEW n \in DOMAIN log, NEW disk \in {"kept", "lost"}, log' = [log EXCEPT ![n].disk = disk]
      PROVE  LogTypes'
  <2>1. log[n] \in Event
    BY <1>0, EntryTypes, Zenon
  <2>2. [log[n] EXCEPT !.disk = disk] \in Event
    BY <1>2, <2>1 DEF Event
  <2>. QED
    BY <1>0, <1>1, <1>2, <2>2, WrittenTypes, Zenon
<1>3. CASE Record
  <2>1. PICK s \in sends : log' = log \o Recording(s)
    BY <1>3 DEF Record
  <2>2. s.seen \in 0..MaxDrafts[kind]
    BY DEF PostingTypes, SendTypes, Send
  <2>3. CASE s.what = "alone"
    BY <1>1, <1>a, <1>b, <2>1, <2>2, <2>3 DEF Recording
  <2>4. CASE s.what # "alone"
    BY <1>1, <1>a, <1>b, <2>1, <2>2, <2>4 DEF Recording
  <2>. QED
    BY <2>3, <2>4
<1>4. CASE Dismiss
  BY <1>0, <1>1, <1>4, <1>a, <1>b DEF Dismiss
<1>5. CASE Restore
  BY <1>0, <1>1, <1>5, <1>a, <1>b DEF Restore
<1>6. CASE ClearDraft
  BY <1>0, <1>1, <1>6, <1>a, <1>b DEF ClearDraft
<1>7. CASE ToggleClose
  <2>1. \E a \in Acts : log' = Append(log, Entry(a, draft))
    BY <1>7, <1>a DEF ToggleClose
  <2>. QED
    BY <1>0, <1>1, <1>b, <2>1
<1>8. CASE PeerPosts
  BY <1>0, <1>1, <1>8, <1>a, <1>b DEF PeerPosts
<1>9. CASE Keep \/ LoseWrite
  BY <1>2, <1>9 DEF Keep, LoseWrite
<1>10. CASE Crash
  BY <1>1, <1>10, CrashTypes
<1>11. CASE UNCHANGED log
  BY <1>0, <1>1, <1>11
<1>. QED
  BY <1>3, <1>4, <1>5, <1>6, <1>7, <1>8, <1>9, <1>10, <1>11
     DEF Next, Work, CheckTicket, Land, Fail, Finish, LandUnheard, Refuse, OpenSheet, CloseSheet, PressPost,
         PressAlone, Reopen, Redraft, MoveTicket

\* What a crash excuses is a number.
LEMMA CrashCounts ==
  ASSUME PostingTypes, Crash
  PROVE  /\ Cardinality({s \in sends : s.step \in {"landed", "close"}}) \in Nat
         /\ Cardinality({n \in DOMAIN log \ Kept : log[n].act \in {"post", "sentAlone"}}) \in Nat
         /\ IsFiniteSet({s \in sends : s.step \in {"landed", "close"}})
         /\ IsFiniteSet({n \in DOMAIN log \ Kept : log[n].act \in {"post", "sentAlone"}})
<1>1. IsFiniteSet({s \in sends : s.step \in {"landed", "close"}})
  BY FS_Subset DEF PostingTypes, SendTypes
<1>2. IsFiniteSet(DOMAIN log)
  BY FS_Interval DEF PostingTypes, LogTypes
<1>3. IsFiniteSet({n \in DOMAIN log \ Kept : log[n].act \in {"post", "sentAlone"}})
  BY <1>2, FS_Subset
<1>. QED
  BY <1>1, <1>3, FS_CardinalityType

\* What a send leaves on GitHub.
LEMMA EffectTypes ==
  ASSUME Bounds, hub \in Hub, NEW s, s.step \in Calls
  PROVE  Effect(s) \in Hub
<1>1. Proposed \in Body
  BY DEF Proposed, Body, Bounds
<1>2. s.step \in {"review", "alone", "labels", "patch", "comment", "close"}
  BY DEF Calls, Links
<1>3. CASE s.step = "review"
  <2>1. ASSUME NEW n \in Nat PROVE [hub EXCEPT !.reviews = @ + 1, !.copies = @ + n] \in Hub
    <3>0. [hub EXCEPT !.reviews = @ + 1] \in Hub
      BY DEF Hub
    <3>1. PICK h \in Hub : h = [hub EXCEPT !.reviews = @ + 1]
      BY <3>0, Zenon
    <3>2. [h EXCEPT !.copies = @ + n] \in Hub
      BY DEF Hub
    <3>3. [hub EXCEPT !.reviews = @ + 1, !.copies = @ + n] = [h EXCEPT !.copies = @ + n]
      BY <3>1 DEF Hub
    <3>. QED
      BY <3>2, <3>3
  <2>2. (IF s.carries THEN 1 ELSE 0) \in Nat
    OBVIOUS
  <2>. QED
    BY <1>3, <2>1, <2>2 DEF Effect
<1>4. CASE s.step = "alone"
  BY <1>4 DEF Effect, Hub
<1>5. CASE s.step = "labels"
  BY <1>5 DEF Effect, Hub
<1>6. CASE s.step = "patch"
  BY <1>1, <1>6 DEF Effect, Hub
<1>7. CASE s.step = "comment"
  BY <1>7 DEF Effect, Hub
<1>8. CASE s.step = "close"
  BY <1>8 DEF Effect, Hub
<1>. QED
  BY <1>2, <1>3, <1>4, <1>5, <1>6, <1>7, <1>8

\* Every step keeps the rest of the state of its types.
LEMMA OtherTypesStep ==
  ASSUME Bounds, PostingTypes, Next
  PROVE  OtherTypes'
<1>. USE DEF fixed, agent, github, history
<1>0. OtherTypes /\ kind' = kind /\ staged' = staged /\ Hub' = Hub
  BY KindStays DEF PostingTypes, Hub
<1>a. hub.body \in Body
  BY <1>0 DEF OtherTypes, Hub
<1>b. draft # 0 => draft \in 1..MaxDrafts[kind]
  BY <1>0 DEF OtherTypes, Bounds, Kind
<1>c. faults < MaxFaults => faults + 1 \in 0..MaxFaults
  BY <1>0 DEF OtherTypes, Bounds
<1>1. CASE Keep
  BY <1>0, <1>1 DEF Keep, OtherTypes
<1>2. CASE LoseWrite
  BY <1>0, <1>2, <1>c DEF LoseWrite, OtherTypes
<1>3. CASE CheckTicket
  BY <1>0, <1>3, <1>a DEF CheckTicket, OtherTypes
<1>4. CASE Land
  <2>1. hub' \in Hub
    BY <1>0, <1>4, EffectTypes DEF Land, OtherTypes
  <2>. QED
    BY <1>0, <1>4, <2>1 DEF Land, OtherTypes
<1>5. CASE LandUnheard
  <2>1. hub' \in Hub
    BY <1>0, <1>5, EffectTypes DEF LandUnheard, OtherTypes
  <2>2. excused' \in Nat
    BY <1>0, <1>5 DEF LandUnheard, Excuse, Counted, OtherTypes
  <2>. QED
    BY <1>0, <1>5, <1>c, <2>1, <2>2 DEF LandUnheard, OtherTypes
<1>6. CASE Refuse
  <2>1. excused' \in Nat
    BY <1>0, <1>6 DEF Refuse, Excuse, Counted, OtherTypes
  <2>. QED
    BY <1>0, <1>6, <1>c, <2>1 DEF Refuse, OtherTypes
<1>7. CASE Fail
  BY <1>0, <1>7 DEF Fail, GivenBack, OtherTypes
<1>8. CASE Record
  BY <1>0, <1>8 DEF Record, OtherTypes
<1>9. CASE Finish
  BY <1>0, <1>9 DEF Finish, OtherTypes
<1>10. CASE OpenSheet
  BY <1>0, <1>10 DEF OpenSheet, OtherTypes
<1>11. CASE CloseSheet
  BY <1>0, <1>11 DEF CloseSheet, OtherTypes
<1>12. CASE PressPost
  <2>1. \E s : Press(s)
    BY <1>12 DEF PressPost
  <2>2. presses' \in 0..MaxPresses /\ answered' \subseteq 1..MaxDrafts[kind] /\ excused' \in Nat
    BY <1>12, <2>1, PressCounts DEF PressPost
  <2>. QED
    BY <1>0, <1>12, <2>2 DEF PressPost, OtherTypes
<1>13. CASE PressAlone
  <2>1. \E s : Press(s)
    BY <1>13 DEF PressAlone
  <2>2. presses' \in 0..MaxPresses /\ answered' \subseteq 1..MaxDrafts[kind] /\ excused' \in Nat
    BY <1>13, <2>1, PressCounts DEF PressAlone
  <2>. QED
    BY <1>0, <1>13, <2>2 DEF PressAlone, OtherTypes
<1>14. CASE Dismiss
  BY <1>0, <1>14, <1>b DEF Dismiss, OtherTypes
<1>15. CASE Restore
  <2>1. excused' \in Nat
    BY <1>0, <1>15 DEF Restore, Excuse, Counted, OtherTypes
  <2>. QED
    BY <1>0, <1>15, <2>1 DEF Restore, OtherTypes
<1>16. CASE ClearDraft
  <2>1. excused' \in Nat
    BY <1>0, <1>16 DEF ClearDraft, Excuse, Counted, OtherTypes
  <2>2. draft' \in 0..MaxDrafts[kind]
    BY <1>0, <1>16 DEF ClearDraft, OtherTypes, Bounds, Kind
  <2>. QED
    BY <1>0, <1>16, <2>1, <2>2 DEF ClearDraft, OtherTypes
<1>17. CASE ToggleClose
  BY <1>0, <1>17 DEF ToggleClose, OtherTypes
<1>18. CASE Reopen
  BY <1>0, <1>18, <1>a DEF Reopen, OtherTypes
<1>19. CASE Redraft
  <2>1. drafts' \in 1..MaxDrafts[kind] /\ draft' \in 0..MaxDrafts[kind]
    BY <1>0, <1>19 DEF Redraft, OtherTypes, Bounds, Kind
  <2>. QED
    BY <1>0, <1>19, <2>1 DEF Redraft, OtherTypes
<1>20. CASE MoveTicket
  <2>1. hub' = [hub EXCEPT !.body = moves + 1] /\ moves + 1 \in Body /\ moves' \in 0..MaxMoves
    BY <1>0, <1>20 DEF MoveTicket, OtherTypes, Body, Bounds
  <2>2. \A b \in Body : [hub EXCEPT !.body = b] \in Hub
    BY <1>0 DEF OtherTypes, Hub
  <2>. QED
    BY <1>0, <1>20, <2>1, <2>2 DEF MoveTicket, OtherTypes
<1>21. CASE PeerPosts
  <2>0. [hub EXCEPT !.reviews = @ + 1] \in Hub
    BY <1>0 DEF OtherTypes, Hub
  <2>1. hub' \in Hub
    BY <1>21, <2>0 DEF PeerPosts
  <2>2. excused' \in Nat
    <3>1. excused \in Nat /\ excused + 0 \in Nat /\ excused + 1 \in Nat /\ excused + 2 \in Nat
      BY <1>0 DEF OtherTypes
    <3>2. excused' \in {excused + 0, excused + 1, excused + 2}
      BY <1>21 DEF PeerPosts, Excuse, Counted
    <3>. QED
      BY <3>1, <3>2
  <2>3. presses' \in 0..MaxPresses
    BY <1>0, <1>21 DEF PeerPosts, OtherTypes, Bounds
  <2>. QED
    BY <1>0, <1>21, <1>b, <2>1, <2>2, <2>3 DEF PeerPosts, OtherTypes
<1>22. CASE Crash
  <2>. DEFINE landed == Cardinality({s \in sends : s.step \in {"landed", "close"}})
              unwritten == Cardinality({n \in DOMAIN log \ Kept : log[n].act \in {"post", "sentAlone"}})
  <2>2. landed \in Nat /\ unwritten \in Nat
    BY <1>22, CrashCounts
  <2>3. excused' = excused + (IF Counted THEN landed + unwritten ELSE 0)
    BY <1>22 DEF Crash, Excuse
  <2>. HIDE DEF landed, unwritten
  <2>1. excused' \in Nat
    BY <1>0, <2>2, <2>3 DEF OtherTypes
  <2>. QED
    BY <1>0, <1>22, <1>a, <1>c, <2>1 DEF Crash, OtherTypes
<1>. QED
  BY <1>1, <1>2, <1>3, <1>4, <1>5, <1>6, <1>7, <1>8, <1>9, <1>10, <1>11, <1>12, <1>13, <1>14, <1>15, <1>16, <1>17,
     <1>18, <1>19, <1>20, <1>21, <1>22 DEF Next, Work
-----------------------------------------------------------------------------
(* Where the decisions of the log come from.                                 *)

\* A decision that is added comes last, and those before it stay.
LEMMA LongerIs ==
  ASSUME NEW E, NEW events \in Seq(E), NEW a
  PROVE  /\ \A n \in DOMAIN Append(events, a) :
              (n \in DOMAIN events /\ Append(events, a)[n] = events[n]) \/ Append(events, a)[n] = a
         /\ \A n \in DOMAIN (events \o <<a>>) :
              (n \in DOMAIN events /\ (events \o <<a>>)[n] = events[n]) \/ (events \o <<a>>)[n] = a
OBVIOUS

\* So do two.
LEMMA LongerByTwo ==
  ASSUME NEW E, NEW events \in Seq(E), NEW a, NEW b
  PROVE  \A n \in DOMAIN (events \o <<a, b>>) :
           \/ n \in DOMAIN events /\ (events \o <<a, b>>)[n] = events[n]
           \/ (events \o <<a, b>>)[n] = a
           \/ (events \o <<a, b>>)[n] = b
OBVIOUS

\* A decision of the log was there before a step, or records a send that landed,
\* or is the reader's own, about the draft of the moment.
Stood(e) == \E m \in DOMAIN log : e.act = log[m].act /\ e.seen = log[m].seen

Records(e) == \E s \in sends : s.step = "landed" /\ e.seen = s.seen /\ (e.act = "post" => s.what # "alone")

Decides(e) ==
  /\ e.act = "dismiss" => e.seen \in answered'
  /\ e.act = "post" => kind = "pull"

\* Every decision of the log after a step is one of these.
LEMMA Origins ==
  ASSUME Bounds, PostingTypes, Next, NEW n \in DOMAIN log'
  PROVE  Stood(log'[n]) \/ Records(log'[n]) \/ Decides(log'[n])
<1>0. log \in Seq(Event)
  BY DEF PostingTypes, LogTypes
<1>1. CASE UNCHANGED log
  BY <1>1 DEF Stood
<1>2. CASE Keep \/ LoseWrite
  <2>1. PICK m \in DOMAIN log, disk \in {"kept", "lost"} : log' = [log EXCEPT ![m].disk = disk]
    BY <1>2 DEF Keep, LoseWrite
  <2>2. DOMAIN log' = DOMAIN log /\ \A i \in DOMAIN log : log'[i].act = log[i].act /\ log'[i].seen = log[i].seen
    <3>1. DOMAIN log' = DOMAIN log
      BY <2>1
    <3>2. \A i \in DOMAIN log : i # m => log'[i] = log[i]
      BY <2>1
    <3>3. log[m] \in Event
      BY <1>0, EntryTypes, Zenon
    <3>4. log'[m] = [log[m] EXCEPT !.disk = disk]
      BY <2>1
    <3>5. log'[m].act = log[m].act /\ log'[m].seen = log[m].seen
      BY <3>3, <3>4 DEF Event
    <3>. QED
      BY <3>1, <3>2, <3>5
  <2>. QED
    BY <2>2 DEF Stood
<1>3. CASE Record
  <2>1. PICK s \in sends : s.step = "landed" /\ log' = log \o Recording(s)
    BY <1>3 DEF Record
  <2>2. CASE s.what = "alone"
    <3>1. (n \in DOMAIN log /\ log'[n] = log[n]) \/ log'[n] = Entry("sentAlone", s.seen)
      <4>1. log' = log \o <<Entry("sentAlone", s.seen)>>
        BY <2>1, <2>2 DEF Recording
      <4>. QED
        BY <1>0, <4>1, LongerIs
    <3>. QED
      BY <2>1, <2>2, <3>1 DEF Stood, Records, Entry
  <2>3. CASE s.what # "alone"
    <3>1. (n \in DOMAIN log /\ log'[n] = log[n]) \/ log'[n] = Entry("post", s.seen) \/ log'[n] = Entry("dismiss", s.seen)
      BY <1>0, <2>1, <2>3, LongerByTwo DEF Recording
    <3>. QED
      BY <2>1, <2>3, <3>1 DEF Stood, Records, Entry
  <2>. QED
    BY <2>2, <2>3
<1>4. CASE Dismiss
  <2>1. (n \in DOMAIN log /\ log'[n] = log[n]) \/ log'[n] = Entry("dismiss", draft)
    BY <1>0, <1>4, LongerIs DEF Dismiss
  <2>. QED
    BY <1>4, <2>1 DEF Dismiss, Stood, Decides, Entry
<1>5. CASE Restore
  <2>1. (n \in DOMAIN log /\ log'[n] = log[n]) \/ log'[n] = Entry("restore", draft) \/ log'[n] = Entry("redraft", draft)
    BY <1>0, <1>5, LongerByTwo DEF Restore
  <2>. QED
    BY <2>1 DEF Stood, Decides, Entry
<1>6. CASE ClearDraft
  <2>1. (n \in DOMAIN log /\ log'[n] = log[n]) \/ log'[n] = Entry("redraft", draft)
    BY <1>0, <1>6, LongerIs DEF ClearDraft
  <2>. QED
    BY <2>1 DEF Stood, Decides, Entry
<1>7. CASE ToggleClose
  <2>1. PICK a \in {"restoreClose", "dropClose"} : log' = Append(log, Entry(a, draft))
    BY <1>7 DEF ToggleClose
  <2>2. (n \in DOMAIN log /\ log'[n] = log[n]) \/ log'[n] = Entry(a, draft)
    BY <1>0, <2>1, LongerIs
  <2>. QED
    BY <2>2 DEF Stood, Decides, Entry
<1>8. CASE PeerPosts
  <2>1. \/ n \in DOMAIN log /\ log'[n] = log[n]
        \/ log'[n] = [Entry("post", draft) EXCEPT !.disk = "kept"]
        \/ log'[n] = [Entry("dismiss", draft) EXCEPT !.disk = "kept"]
    <3>. DEFINE a == [Entry("post", draft) EXCEPT !.disk = "kept"]
                b == [Entry("dismiss", draft) EXCEPT !.disk = "kept"]
    <3>1. log' = log \o <<a, b>>
      BY <1>8 DEF PeerPosts
    <3>. HIDE DEF a, b
    <3>2. (n \in DOMAIN log /\ log'[n] = log[n]) \/ log'[n] = a \/ log'[n] = b
      BY <1>0, <3>1, LongerByTwo
    <3>. QED
      BY <3>2 DEF a, b
  <2>. QED
    BY <1>8, <2>1 DEF PeerPosts, Stood, Decides, Entry
<1>9. CASE Crash
  <2>1. PICK at \in [1..Cardinality(Kept) -> Kept] : log' = [i \in DOMAIN at |-> log[at[i]]]
    BY <1>9 DEF Crash
  <2>2. n \in DOMAIN at /\ log'[n] = log[at[n]] /\ at[n] \in Kept
    BY <2>1
  <2>3. at[n] \in DOMAIN log
    BY <2>2 DEF Kept
  <2>. QED
    BY <2>2, <2>3 DEF Stood
<1>. QED
  BY <1>1, <1>2, <1>3, <1>4, <1>5, <1>6, <1>7, <1>8, <1>9
     DEF Next, Work, CheckTicket, Land, Fail, Finish, LandUnheard, Refuse, OpenSheet, CloseSheet, PressPost,
         PressAlone, Reopen, Redraft, MoveTicket

-----------------------------------------------------------------------------
(* What a dismissal answers.                                                 *)

UnseenInv ==
  /\ 1 \in answered
  /\ \A s \in sends : s.seen \in answered
  /\ \A n \in DOMAIN log : log[n].act = "dismiss" => log[n].seen \in answered \cup {NoStamp}

\* Every send is of a draft the press decided about, and every dismissal of one
\* the reader did.
LEMMA UnseenStep ==
  ASSUME Bounds, PostingTypes, UnseenInv, Next
  PROVE  UnseenInv'
<1>. USE DEF fixed, agent, github, history
<1>1. answered \subseteq answered'
  BY DEF Next, Work, Keep, CheckTicket, Land, Fail, Record, Finish, LoseWrite, LandUnheard, Refuse,
     OpenSheet, CloseSheet, PressPost, PressAlone, Press, Dismiss, Restore, ClearDraft, ToggleClose, Reopen, Redraft,
     MoveTicket, PeerPosts, Crash
<1>2. ASSUME NEW t \in sends' PROVE t.seen \in answered'
  <2>1. CASE t \in sends
    BY <1>1, <2>1 DEF UnseenInv
  <2>2. CASE \E s \in sends : \E step : To(s, step) \/ Move(s, [[s EXCEPT !.fresh = hub.body] EXCEPT !.step = step])
    <3>0. PICK s \in sends : \E step : To(s, step) \/ Move(s, [[s EXCEPT !.fresh = hub.body] EXCEPT !.step = step])
      BY <2>2
    <3>1. PICK step : To(s, step) \/ Move(s, [[s EXCEPT !.fresh = hub.body] EXCEPT !.step = step])
      BY <3>0
    <3>2. s \in Send
      BY DEF PostingTypes, SendTypes
    <3>3. [s EXCEPT !.step = step].seen = s.seen
      BY <3>2 DEF Send
    <3>4. [[s EXCEPT !.fresh = hub.body] EXCEPT !.step = step].seen = s.seen
      BY <3>2 DEF Send
    <3>5. t \in sends \/ t.seen = s.seen
      BY <3>1, <3>3, <3>4 DEF To, Move
    <3>. QED
      BY <1>1, <3>5 DEF UnseenInv
  <2>3. CASE \E s : Press(s) /\ s.seen = draft
    BY <1>1, <2>3 DEF Press, UnseenInv
  <2>4. CASE sends' \subseteq sends
    BY <2>1, <2>4
  <2>5. CASE CheckTicket
    BY <2>2, <2>4, <2>5 DEF CheckTicket
  <2>6. CASE Land \/ LandUnheard \/ Refuse \/ Record
    BY <2>2, <2>6 DEF Land, LandUnheard, Refuse, Record
  <2>7. CASE PressPost \/ PressAlone
    <3>1. \A what, step : New(what, step).seen = draft
      BY NewIs
    <3>. QED
      BY <2>3, <2>7, <3>1 DEF PressPost, PressAlone
  <2>. QED
    BY <2>4, <2>5, <2>6, <2>7
       DEF Next, Work, Keep, Fail, Finish, LoseWrite, OpenSheet, CloseSheet, Dismiss, Restore, ClearDraft,
           ToggleClose, Reopen, Redraft, MoveTicket, PeerPosts, Crash
<1>3. ASSUME NEW n \in DOMAIN log', log'[n].act = "dismiss"
      PROVE  log'[n].seen \in answered' \cup {NoStamp}
  <2>1. CASE Stood(log'[n])
    BY <1>1, <1>3, <2>1 DEF Stood, UnseenInv
  <2>2. CASE Records(log'[n])
    BY <1>1, <2>2 DEF Records, UnseenInv
  <2>3. CASE Decides(log'[n])
    BY <1>3, <2>3 DEF Decides
  <2>. QED
    BY <2>1, <2>2, <2>3, Origins
<1>. QED
  BY <1>1, <1>2, <1>3 DEF UnseenInv

\* So a draft that is off the queue is one the reader answered.
LEMMA UnseenMeans ==
  ASSUME PostingTypes, UnseenInv
  PROVE  UnseenReachesReader
<1>. SUFFICES ASSUME draft # 0, Dismissed, ~Posted PROVE draft \in answered
  BY DEF UnseenReachesReader
<1>0. log \in Seq(Event)
  BY DEF PostingTypes, LogTypes
<1>1. PICK k \in DOMAIN log : log[k].act = "dismiss"
  <2>1. Says(log, "dismiss", "restore") /\ "dismiss" # "restore"
    BY DEF Dismissed
  <2>. QED
    BY <1>0, <2>1, SaysIs
<1>. DEFINE n == Latest(log, {"dismiss"})
<1>2. n \in DOMAIN log /\ log[n].act \in {"dismiss"}
  BY <1>0, <1>1, LatestIs, Zenon
<1>3. SameDraft(log[n].seen)
  BY DEF Dismissed
<1>4. log[n].seen \in answered \cup {NoStamp}
  BY <1>2 DEF UnseenInv
<1>. QED
  BY <1>3, <1>4 DEF SameDraft, UnseenInv, NoStamp
-----------------------------------------------------------------------------
(* An issue's triage.                                                        *)

\* What a link of the chain leaves on the issue, when the draft stages it.
Has(k) ==
  /\ k = 1 => ("labels" \in staged => hub.labelled)
  /\ k = 2 => hub.body = Proposed
  /\ k = 3 => ("comment" \in staged => hub.said > 0)

\* The links a triage has behind it by the time it gets to a step.
Before(step) ==
  CASE step = "patch" -> {1}
    [] step = "comment" -> {1, 2}
    [] step \in {"close", "landed", "recorded"} -> {1, 2, 3}
    [] OTHER -> {}

TriageInv(s) ==
  /\ s.base = Proposed => hub.body = Proposed
  /\ \A k \in Before(s.step) : Has(k)

IssueInv == kind = "issue" =>
  /\ hub.reviews = 0 /\ hub.copies = 0
  /\ read = Proposed => hub.body = Proposed
  /\ \A s \in sends : TriageInv(s)
  /\ hub.closed => Has(3)
  /\ (\E n \in DOMAIN log : log[n].act = "post") => \A k \in {1, 2, 3} : Has(k)

\* A link the chain jumps over is one the triage does not take.
LEMMA AfterPasses ==
  ASSUME NEW d \in 0..4, NEW s, NEW k \in Before(After(d, s)), k > d
  PROVE  ~Applies(Chain[k], s)
<1>. SUFFICES ASSUME Applies(Chain[k], s) PROVE FALSE
  OBVIOUS
<1>1. k \in 1..3
  BY DEF Before
<1>2. PICK j \in (d + 1)..k : After(d, s) = Chain[j]
  BY <1>1, AfterIs
<1>3. j \in {1, 2, 3} /\ j <= k
  BY <1>1, <1>2
<1>. QED
  BY <1>1, <1>2, <1>3 DEF Chain, Before

\* So after a link that has done its work, all the links before the next have.
LEMMA AfterHas ==
  ASSUME PostingTypes, kind = "issue", NEW d \in 0..4, NEW s, s.base = Proposed => hub.body = Proposed,
         \A k \in {1, 2, 3} : k <= d => Has(k)
  PROVE  \A k \in Before(After(d, s)) : Has(k)
<1>. TAKE k \in Before(After(d, s))
<1>1. k \in {1, 2, 3}
  BY DEF Before
<1>2. CASE k <= d
  BY <1>1, <1>2
<1>3. CASE k > d
  <2>1. ~Applies(Chain[k], s)
    BY <1>3, AfterPasses
  <2>2. Chain[1] = "labels" /\ Chain[2] = "patch" /\ Chain[3] = "comment"
    BY DEF Chain
  <2>3. CASE k = 1
    BY <2>1, <2>2, <2>3 DEF Applies, Has
  <2>4. CASE k = 2
    BY <2>1, <2>2, <2>4 DEF Applies, Has
  <2>5. CASE k = 3
    BY <2>1, <2>2, <2>5 DEF Applies, Has
  <2>. QED
    BY <1>1, <2>3, <2>4, <2>5
<1>. QED
  BY <1>1, <1>2, <1>3

\* On an issue, what stands stands: only the body can change back, and not the
\* one the agent proposed.
LEMMA IssueGains ==
  ASSUME Bounds, PostingTypes, kind = "issue", hub.reviews = 0, hub.copies = 0, Next
  PROVE  /\ hub'.reviews = 0 /\ hub'.copies = 0
         /\ hub.labelled => hub'.labelled
         /\ hub.body = Proposed => hub'.body = Proposed
         /\ hub.said > 0 => hub'.said > 0
<1>. USE DEF fixed, agent, github, history
<1>0. hub \in Hub
  BY DEF PostingTypes, OtherTypes
<1>1. CASE UNCHANGED hub
  BY <1>1
<1>2. CASE Land \/ LandUnheard
  <2>1. PICK s \in sends : s.step \in Calls /\ hub' = Effect(s)
    BY <1>2 DEF Land, LandUnheard
  <2>2. s.step \in Links
    BY <2>1 DEF PostingTypes, SendTypes, OfItsKind, IssueSend, Calls
  <2>3. CASE s.step = "labels"
    BY <1>0, <2>1, <2>3 DEF Effect, Hub
  <2>4. CASE s.step = "patch"
    BY <1>0, <2>1, <2>4 DEF Effect, Hub
  <2>5. CASE s.step = "comment"
    BY <1>0, <2>1, <2>5 DEF Effect, Hub
  <2>6. CASE s.step = "close"
    BY <1>0, <2>1, <2>6 DEF Effect, Hub
  <2>. QED
    BY <2>2, <2>3, <2>4, <2>5, <2>6 DEF Links
<1>3. CASE MoveTicket
  BY <1>0, <1>3 DEF MoveTicket, Hub
<1>4. CASE PeerPosts
  BY <1>4 DEF PeerPosts
<1>. QED
  BY <1>1, <1>2, <1>3, <1>4
     DEF Next, Work, Keep, CheckTicket, Fail, Record, Finish, LoseWrite, Refuse, OpenSheet, CloseSheet, PressPost,
         PressAlone, Press, Dismiss, Restore, ClearDraft, ToggleClose, Reopen, Redraft, Crash

\* What a link did is there after it.
LEMMA LinkLeaves ==
  ASSUME PostingTypes, kind = "issue", NEW s \in sends, s.step \in Calls, hub' = Effect(s), UNCHANGED staged
  PROVE  \A k \in {1, 2, 3} : Chain[k] = s.step => Has(k)'
<1>0. hub \in Hub
  BY DEF PostingTypes, OtherTypes
<1>1. Chain[1] = "labels" /\ Chain[2] = "patch" /\ Chain[3] = "comment"
  BY DEF Chain
<1>2. s.step = "labels" => Has(1)'
  BY <1>0 DEF Has, Effect, Hub
<1>3. s.step = "patch" => Has(2)'
  BY <1>0 DEF Has, Effect, Hub, Proposed
<1>4. s.step = "comment" => Has(3)'
  BY <1>0 DEF Has, Effect, Hub
<1>. QED
  BY <1>1, <1>2, <1>3, <1>4

\* A triage that goes on has behind it what its next step needs.
LEMMA TriageGoesOn ==
  ASSUME Bounds, PostingTypes, IssueInv, kind = "issue", Next,
         NEW s \in sends, s.step \in Calls, hub' = Effect(s)
  PROVE  \A k \in Before(Following(s)) : Has(k)'
<1>0. staged' = staged
  BY KindStays
<1>g. \A k \in {1, 2, 3} : Has(k) => Has(k)'
  BY <1>0, IssueGains DEF IssueInv, Has, Proposed
<1>1. s.what = "triage" /\ s.step \in Links /\ TriageInv(s)
  BY DEF PostingTypes, SendTypes, OfItsKind, IssueSend, IssueInv, Calls
<1>. DEFINE d == CHOOSE n \in DOMAIN Chain : Chain[n] = s.step
<1>2. d \in 1..4 /\ Chain[d] = s.step
  <2>1. \E n \in DOMAIN Chain : Chain[n] = s.step
    BY <1>1 DEF Links, Chain
  <2>2. DOMAIN Chain = 1..4
    BY DEF Chain
  <2>3. d \in DOMAIN Chain /\ Chain[d] = s.step
    BY <2>1
  <2>. QED
    BY <2>2, <2>3
<1>3. Following(s) = After(d, s)
  BY <1>1 DEF Following
<1>. HIDE DEF d
<1>4. ASSUME NEW k \in {1, 2, 3}, k < d PROVE Has(k)
  <2>1. k \in Before(s.step)
    BY <1>2, <1>4 DEF Chain, Before
  <2>. QED
    BY <1>1, <2>1 DEF TriageInv
<1>5. ASSUME NEW k \in {1, 2, 3}, k <= d PROVE Has(k)'
  <2>1. CASE k = d
    BY <1>0, <1>2, <2>1, LinkLeaves
  <2>2. CASE k < d
    BY <1>g, <1>4, <2>2
  <2>. QED
    BY <1>2, <1>5, <2>1, <2>2
<1>6. ASSUME NEW k \in Before(After(d, s)) PROVE Has(k)'
  <2>1. k \in {1, 2, 3}
    BY DEF Before
  <2>2. CASE k <= d
    BY <1>5, <2>1, <2>2
  <2>3. CASE k > d
    <3>1. ~Applies(Chain[k], s)
      BY <1>2, <2>3, AfterPasses
    <3>2. Chain[1] = "labels" /\ Chain[2] = "patch" /\ Chain[3] = "comment"
      BY DEF Chain
    <3>3. Has(k)
      BY <1>1, <2>1, <3>1, <3>2 DEF Applies, Has, TriageInv
    <3>. QED
      BY <1>g, <2>1, <3>3
  <2>. QED
    BY <1>2, <2>1, <2>2, <2>3
<1>. QED
  BY <1>3, <1>6
\* A send that changes step keeps what it was started from.
LEMMA StepIs ==
  ASSUME NEW s \in Send, NEW step
  PROVE  /\ [s EXCEPT !.step = step].step = step
         /\ [s EXCEPT !.step = step].what = s.what
         /\ [s EXCEPT !.step = step].base = s.base
         /\ [s EXCEPT !.step = step].carries = s.carries
         /\ [s EXCEPT !.step = step].fresh = s.fresh
BY DEF Send

\* A triage that was given a body the agent proposed found it there, and every
\* link behind it has done its work or had none to do.
LEMMA TriageStep ==
  ASSUME Bounds, PostingTypes, IssueInv, kind = "issue", Next, NEW t \in sends'
  PROVE  TriageInv(t)'
<1>0. staged' = staged /\ IssueInv /\ sends \subseteq Send
  BY KindStays DEF PostingTypes, SendTypes
<1>g. /\ \A k \in {1, 2, 3} : Has(k) => Has(k)'
      /\ hub.body = Proposed => hub'.body = Proposed
  BY <1>0, IssueGains DEF IssueInv, Has, Proposed
<1>b. \A step : Before(step) \subseteq {1, 2, 3}
  BY DEF Before
<1>p. Proposed' = Proposed
  BY DEF Proposed
<1>1. ASSUME NEW s \in sends, t.base = s.base, Before(t.step) \subseteq Before(s.step)
      PROVE  TriageInv(t)'
  BY <1>0, <1>1, <1>b, <1>g, <1>p DEF IssueInv, TriageInv
<1>2. CASE t \in sends
  BY <1>1, <1>2
<1>3. ASSUME NEW s \in sends, NEW step, To(s, step), Before(step) \subseteq Before(s.step)
      PROVE  TriageInv(t)'
  <2>0. s \in Send
    BY <1>0
  <2>2. [s EXCEPT !.step = step].step = step /\ [s EXCEPT !.step = step].base = s.base
    BY <2>0, StepIs
  <2>1. t \in sends \/ (t.base = s.base /\ t.step = step)
    BY <1>3, <2>2 DEF To, Move
  <2>. QED
    BY <1>1, <1>2, <1>3, <2>1
<1>4. CASE CheckTicket
  <2>1. PICK s \in sends :
          \/ sends' = sends \ {s}
          \/ Move(s, [[s EXCEPT !.fresh = hub.body] EXCEPT !.step = After(0, [s EXCEPT !.fresh = hub.body])])
    BY <1>4 DEF CheckTicket
  <2>. DEFINE f == [s EXCEPT !.fresh = hub.body]
  <2>2. f.base = s.base /\ f \in Send
    BY <1>0 DEF Send, PostingTypes, OtherTypes, Hub
  <2>3. hub' = hub /\ UNCHANGED staged
    BY <1>4 DEF CheckTicket, fixed
  <2>4. f.base = Proposed => hub.body = Proposed
    BY <1>0, <2>2 DEF IssueInv, TriageInv
  <2>5. \A k \in Before(After(0, f)) : Has(k)
    <3>1. \A k \in {1, 2, 3} : k <= 0 => Has(k)
      OBVIOUS
    <3>. HIDE DEF f
    <3>. QED
      BY <1>0, <2>4, <3>1, AfterHas
  <2>6. t \in sends \/ t = [f EXCEPT !.step = After(0, f)]
    BY <2>1 DEF Move
  <2>7. [f EXCEPT !.step = After(0, f)].step = After(0, f) /\ [f EXCEPT !.step = After(0, f)].base = f.base
    BY <2>2, StepIs
  <2>. HIDE DEF f
  <2>8. CASE t = [f EXCEPT !.step = After(0, f)]
    BY <1>b, <1>g, <1>p, <2>3, <2>4, <2>5, <2>7, <2>8 DEF TriageInv
  <2>. QED
    BY <1>2, <2>6, <2>8
<1>5. CASE Land
  <2>1. PICK s \in sends : s.step \in Calls /\ hub' = Effect(s) /\ To(s, Following(s))
    BY <1>5 DEF Land
  <2>2. \A k \in Before(Following(s)) : Has(k)'
    BY <2>1, TriageGoesOn
  <2>0. s \in Send
    BY <1>0
  <2>5. [s EXCEPT !.step = Following(s)].step = Following(s) /\ [s EXCEPT !.step = Following(s)].base = s.base
    BY <2>0, StepIs
  <2>3. t \in sends \/ (t.base = s.base /\ t.step = Following(s))
    BY <2>1, <2>5 DEF To, Move
  <2>4. CASE t.base = s.base /\ t.step = Following(s)
    BY <1>0, <1>g, <1>p, <2>2, <2>4 DEF TriageInv, IssueInv
  <2>. QED
    BY <1>2, <2>3, <2>4
<1>6. CASE LandUnheard \/ Refuse
  <2>1. PICK s \in sends : To(s, "refused")
    BY <1>6 DEF LandUnheard, Refuse
  <2>2. Before("refused") = {}
    BY DEF Before
  <2>. QED
    BY <1>3, <2>1, <2>2
<1>7. CASE Record
  <2>1. PICK s \in sends : s.step = "landed" /\ To(s, "recorded")
    BY <1>7 DEF Record
  <2>2. Before("recorded") = Before(s.step)
    BY <2>1 DEF Before
  <2>. QED
    BY <1>3, <2>1, <2>2
<1>8. CASE PressPost
  <2>1. PICK step : /\ Press(New("triage", step))
                    /\ step = "check" \/ (step = After(0, New("triage", "check")))
    BY <1>8 DEF PressPost
  <2>2. t \in sends \/ (t.base = read /\ t.step = step)
    BY <2>1, NewIs DEF Press, New
  <2>3. hub' = hub
    BY <1>8 DEF PressPost, github
  <2>4. \A k \in Before(step) : Has(k)
    <3>1. New("triage", "check").base = read
      BY DEF New
    <3>2. \A k \in {1, 2, 3} : k <= 0 => Has(k)
      OBVIOUS
    <3>3. \A k \in Before(After(0, New("triage", "check"))) : Has(k)
      BY <1>0, <3>1, <3>2, AfterHas DEF IssueInv
    <3>4. Before("check") = {}
      BY DEF Before
    <3>. QED
      BY <2>1, <3>3, <3>4
  <2>5. CASE t.base = read /\ t.step = step
    BY <1>0, <1>b, <1>g, <1>p, <2>3, <2>4, <2>5 DEF TriageInv, IssueInv
  <2>. QED
    BY <1>2, <2>2, <2>5
<1>9. CASE sends' \subseteq sends
  BY <1>2, <1>9
<1>. QED
  BY <1>4, <1>5, <1>6, <1>7, <1>8, <1>9
     DEF Next, Work, Keep, Fail, Finish, LoseWrite, OpenSheet, CloseSheet, PressAlone, Dismiss, Restore,
         ClearDraft, ToggleClose, Reopen, Redraft, MoveTicket, PeerPosts, Crash, agent, github, history

\* Every step keeps an issue's triage in order.
LEMMA IssueStep ==
  ASSUME Bounds, PostingTypes, IssueInv, Next
  PROVE  IssueInv'
<1>. SUFFICES ASSUME kind' = "issue" PROVE IssueInv'
  BY DEF IssueInv
<1>0. kind = "issue" /\ staged' = staged
  BY KindStays
<1>p. Proposed' = Proposed
  BY DEF Proposed
<1>g. /\ \A k \in {1, 2, 3} : Has(k) => Has(k)'
      /\ hub.body = Proposed => hub'.body = Proposed
      /\ hub'.reviews = 0 /\ hub'.copies = 0
  BY <1>0, IssueGains DEF IssueInv, Has, Proposed
<1>1. read' = Proposed => hub'.body = Proposed
  <2>1. CASE UNCHANGED read
    BY <1>0, <1>g, <2>1 DEF IssueInv
  <2>2. CASE read' = hub.body
    BY <1>g, <2>2
  <2>. QED
    BY <2>1, <2>2
       DEF Next, Work, Keep, CheckTicket, Land, Fail, Record, Finish, LoseWrite, LandUnheard, Refuse, OpenSheet,
           CloseSheet, PressPost, PressAlone, Dismiss, Restore, ClearDraft, ToggleClose, Reopen, Redraft,
           MoveTicket, PeerPosts, Crash, agent, github, history
<1>2. hub'.closed => Has(3)'
  <2>1. CASE hub'.closed = hub.closed
    BY <1>0, <1>g, <2>1 DEF IssueInv
  <2>2. CASE Land \/ LandUnheard
    <3>1. PICK s \in sends : s.step \in Calls /\ hub' = Effect(s)
      BY <2>2 DEF Land, LandUnheard
    <3>2. CASE s.step = "close"
      <4>1. 3 \in Before(s.step)
        BY <3>2 DEF Before
      <4>. QED
        BY <1>0, <1>g, <4>1 DEF IssueInv, TriageInv
    <3>3. CASE s.step # "close"
      <4>1. hub \in Hub /\ s.step \in Links
        BY <1>0, <3>1 DEF PostingTypes, OtherTypes, SendTypes, OfItsKind, IssueSend, Calls
      <4>2. s.step \in {"labels", "patch", "comment"}
        BY <3>3, <4>1 DEF Links
      <4>3. hub'.closed = hub.closed
        BY <3>1, <4>1, <4>2 DEF Effect, Hub
      <4>. QED
        BY <2>1, <4>3
    <3>. QED
      BY <3>2, <3>3
  <2>3. CASE MoveTicket
    <3>1. hub \in Hub
      BY DEF PostingTypes, OtherTypes
    <3>2. hub'.closed = hub.closed
      BY <2>3, <3>1 DEF MoveTicket, Hub
    <3>. QED
      BY <2>1, <3>2
  <2>4. CASE UNCHANGED hub
    BY <2>1, <2>4
  <2>. QED
    BY <1>0, <2>2, <2>3, <2>4
       DEF Next, Work, Keep, CheckTicket, Fail, Record, Finish, LoseWrite, Refuse, OpenSheet, CloseSheet, PressPost,
           PressAlone, Press, Dismiss, Restore, ClearDraft, ToggleClose, Reopen, Redraft, PeerPosts, Crash, agent,
           github, history
<1>3. ASSUME NEW n \in DOMAIN log', log'[n].act = "post" PROVE \A k \in {1, 2, 3} : Has(k)'
  <2>1. CASE Stood(log'[n])
    BY <1>0, <1>3, <1>g, <2>1 DEF Stood, IssueInv
  <2>2. CASE Records(log'[n])
    <3>1. PICK s \in sends : s.step = "landed"
      BY <2>2 DEF Records
    <3>2. Before(s.step) = {1, 2, 3}
      BY <3>1 DEF Before
    <3>. QED
      BY <1>0, <1>g, <3>2 DEF IssueInv, TriageInv
  <2>3. CASE Decides(log'[n])
    BY <1>0, <1>3, <2>3 DEF Decides
  <2>. QED
    BY <2>1, <2>2, <2>3, Origins
<1>. QED
  BY <1>0, <1>g, <1>p, <1>1, <1>2, <1>3, TriageStep DEF IssueInv

\* So what the issue holds is what was staged, in its order.
LEMMA IssueMeans ==
  ASSUME PostingTypes, IssueInv
  PROVE  /\ kind = "issue" => hub.reviews <= 1 + excused /\ hub.copies <= 1 + excused
         /\ kind = "issue" => ClosedWithReason
         /\ RecordedMeansLanded
<1>1. kind = "issue" => hub.reviews <= 1 + excused /\ hub.copies <= 1 + excused
  BY DEF IssueInv, PostingTypes, OtherTypes
<1>2. kind = "issue" => ClosedWithReason
  BY DEF IssueInv, ClosedWithReason, Has
<1>3. RecordedMeansLanded
  BY DEF IssueInv, RecordedMeansLanded, Has
<1>. QED
  BY <1>1, <1>2, <1>3
-----------------------------------------------------------------------------
(* What a step of the log makes of its two questions.                        *)

\* A decision that comes last decides, when it is of the kind asked for.
LEMMA SaysAfter ==
  ASSUME NEW E, NEW events \in Seq(E), NEW a, NEW act, NEW undo, act # undo
  PROVE  Says(Append(events, a), act, undo) <=> IF a.act \in {act, undo} THEN a.act = act ELSE Says(events, act, undo)
<1>. DEFINE longer == Append(events, a)
<1>1. longer \in Seq(E \cup {a}) /\ DOMAIN longer = 1..(Len(events) + 1) /\ DOMAIN events = 1..Len(events)
      /\ Len(events) \in Nat /\ longer[Len(events) + 1] = a /\ \A n \in DOMAIN events : longer[n] = events[n]
  OBVIOUS
<1>. HIDE DEF longer
<1>2. Says(longer, act, undo) <=>
        \E n \in DOMAIN longer : /\ longer[n].act = act
                                 /\ \A m \in DOMAIN longer : m > n => longer[m].act # undo
  BY <1>1, SaysIs
<1>3. Says(events, act, undo) <=>
        \E n \in DOMAIN events : /\ events[n].act = act
                                 /\ \A m \in DOMAIN events : m > n => events[m].act # undo
  BY SaysIs
<1>4. CASE a.act = act
  <2>1. \A m \in DOMAIN longer : ~(m > Len(events) + 1)
    BY <1>1
  <2>2. Len(events) + 1 \in DOMAIN longer
    BY <1>1
  <2>. QED
    BY <1>1, <1>2, <1>4, <2>1, <2>2 DEF longer
<1>5. CASE a.act = undo
  <2>1. \A n \in DOMAIN longer : longer[n].act = act => n < Len(events) + 1
    BY <1>1, <1>5
  <2>2. Len(events) + 1 \in DOMAIN longer
    BY <1>1
  <2>3. \A n \in DOMAIN longer : n < Len(events) + 1 => Len(events) + 1 > n
    BY <1>1
  <2>. QED
    BY <1>1, <1>2, <1>5, <2>1, <2>2, <2>3 DEF longer
<1>6. CASE a.act \notin {act, undo}
  <2>1. \A n \in DOMAIN longer : longer[n].act \in {act, undo} => n \in DOMAIN events
    BY <1>1, <1>6
  <2>2. DOMAIN events \subseteq DOMAIN longer
    BY <1>1
  <2>3. Says(longer, act, undo) <=> Says(events, act, undo)
    BY <1>1, <1>2, <1>3, <2>1, <2>2
  <2>. QED
    BY <1>6, <2>3 DEF longer
<1>. QED
  BY <1>4, <1>5, <1>6

\* Whether an item is posted, and whether its comment goes with it, after one
\* more decision ...
LEMMA OneMore ==
  ASSUME NEW E, log \in Seq(E), NEW a, log' = Append(log, a) \/ log' = log \o <<a>>
  PROVE  /\ Posted' <=> IF a.act \in {"post", "redraft"} THEN a.act = "post" ELSE Posted
         /\ Carried' <=> Carried /\ a.act # "sentAlone"
<1>1. log' = Append(log, a)
  OBVIOUS
<1>2. Posted' <=> IF a.act \in {"post", "redraft"} THEN a.act = "post" ELSE Posted
  BY <1>1, SaysAfter DEF Posted
<1>3. DOMAIN log' = 1..(Len(log) + 1) /\ DOMAIN log = 1..Len(log) /\ Len(log) \in Nat
      /\ log'[Len(log) + 1] = a /\ \A n \in DOMAIN log : log'[n] = log[n]
  BY <1>1
<1>4. Carried' <=> Carried /\ a.act # "sentAlone"
  <2>1. \A n \in DOMAIN log' : n \in DOMAIN log \/ n = Len(log) + 1
    BY <1>3
  <2>2. DOMAIN log \subseteq DOMAIN log' /\ Len(log) + 1 \in DOMAIN log'
    BY <1>3
  <2>. QED
    BY <1>3, <2>1, <2>2 DEF Carried
<1>. QED
  BY <1>2, <1>4

\* ... and after two.
LEMMA TwoMore ==
  ASSUME NEW E, log \in Seq(E), NEW a, NEW b, log' = log \o <<a, b>>, b.act \notin {"post", "sentAlone"},
         a.act \notin {"redraft", "sentAlone"}
  PROVE  /\ Posted' <=> b.act # "redraft" /\ (a.act = "post" \/ Posted)
         /\ Carried' <=> Carried
<1>. DEFINE one == Append(log, a)
<1>1. one \in Seq(E \cup {a}) /\ log' = Append(one, b)
  OBVIOUS
<1>2. /\ DOMAIN log' = 1..(Len(log) + 2) /\ DOMAIN log = 1..Len(log) /\ Len(log) \in Nat
      /\ log'[Len(log) + 1] = a /\ log'[Len(log) + 2] = b /\ \A n \in DOMAIN log : log'[n] = log[n]
  OBVIOUS
<1>3. Says(one, "post", "redraft") <=> (a.act = "post" \/ Posted)
  BY SaysAfter DEF Posted
<1>. HIDE DEF one
<1>4. Posted' <=> b.act # "redraft" /\ Says(one, "post", "redraft")
  <2>1. Posted' <=> Says(Append(one, b), "post", "redraft")
    BY <1>1 DEF Posted
  <2>2. Says(Append(one, b), "post", "redraft") <=>
          IF b.act \in {"post", "redraft"} THEN b.act = "post" ELSE Says(one, "post", "redraft")
    BY <1>1, SaysAfter
  <2>. QED
    BY <2>1, <2>2
<1>5. Carried' <=> Carried
  <2>1. \A n \in DOMAIN log' : n \in DOMAIN log \/ n = Len(log) + 1 \/ n = Len(log) + 2
    BY <1>2
  <2>2. DOMAIN log \subseteq DOMAIN log'
    BY <1>2
  <2>. QED
    BY <1>2, <2>1, <2>2 DEF Carried
<1>. QED
  BY <1>3, <1>4, <1>5

\* What becomes of a write changes neither.
LEMMA WrittenSame ==
  ASSUME PostingTypes, Keep \/ LoseWrite
  PROVE  (Posted' <=> Posted) /\ (Carried' <=> Carried)
<1>0. log \in Seq(Event)
  BY DEF PostingTypes, LogTypes
<1>1. PICK n \in DOMAIN log, disk \in {"kept", "lost"} : log' = [log EXCEPT ![n].disk = disk]
  BY DEF Keep, LoseWrite
<1>2. DOMAIN log' = DOMAIN log /\ \A i \in DOMAIN log : log'[i].act = log[i].act
  <2>1. DOMAIN log' = DOMAIN log /\ \A i \in DOMAIN log : i # n => log'[i] = log[i]
    BY <1>1
  <2>2. log[n] \in Event
    BY <1>0, EntryTypes, Zenon
  <2>3. log'[n] = [log[n] EXCEPT !.disk = disk]
    BY <1>1
  <2>4. log'[n].act = log[n].act
    BY <2>2, <2>3 DEF Event
  <2>. QED
    BY <2>1, <2>4
<1>3. log' \in Seq(Event)
  <2>1. log[n] \in Event
    BY <1>0, EntryTypes, Zenon
  <2>2. [log[n] EXCEPT !.disk = disk] \in Event
    BY <2>1 DEF Event
  <2>. QED
    BY <1>0, <1>1, <2>2, WrittenTypes, Zenon
<1>4. Posted <=> \E i \in DOMAIN log : log[i].act = "post" /\ \A m \in DOMAIN log : m > i => log[m].act # "redraft"
  BY <1>0, SaysIs DEF Posted
<1>5. Posted' <=> \E i \in DOMAIN log' : log'[i].act = "post" /\ \A m \in DOMAIN log' : m > i => log'[m].act # "redraft"
  BY <1>3, SaysIs DEF Posted
<1>6. Carried' <=> Carried
  BY <1>2 DEF Carried
<1>. QED
  BY <1>2, <1>4, <1>5, <1>6

\* A crash forgets neither unless it forgets the decision that said so.
LEMMA CrashForgets ==
  ASSUME PostingTypes, Crash
  PROVE  /\ Posted /\ ~Posted' => \E n \in DOMAIN log \ Kept : log[n].act = "post"
         /\ ~Carried /\ Carried' => \E n \in DOMAIN log \ Kept : log[n].act = "sentAlone"
<1>. DEFINE c == Cardinality(Kept)
<1>0. log \in Seq(Event) /\ log' \in Seq(Event)
  BY CrashTypes DEF PostingTypes, LogTypes
<1>1. IsFiniteSet(Kept) /\ c \in Nat /\ Kept \subseteq DOMAIN log
  <2>1. IsFiniteSet(1..Len(log)) /\ Kept \subseteq 1..Len(log)
    BY FS_Interval DEF Kept, PostingTypes, LogTypes
  <2>. QED
    BY <2>1, FS_Subset, FS_CardinalityType DEF Kept
<1>2. PICK at \in [1..c -> Kept] :
        (\A i, j \in DOMAIN at : i < j => at[i] < at[j]) /\ log' = [i \in DOMAIN at |-> log[at[i]]]
  BY DEF Crash
<1>. HIDE DEF c
<1>3. \A i \in 1..c : at[i] \in Nat
  <2>1. DOMAIN log \subseteq Nat
    BY <1>0
  <2>. QED
    BY <1>1, <2>1
<1>4. at \in Injection(1..c, Kept)
  <2>1. ASSUME NEW i \in 1..c, NEW j \in 1..c, at[i] = at[j] PROVE i = j
    <3>1. ~(i < j) /\ ~(j < i)
      BY <1>2, <1>3, <2>1
    <3>. QED
      BY <1>1, <3>1
  <2>. QED
    BY <2>1 DEF Injection, IsInjective
<1>5. at \in Surjection(1..c, Kept)
  <2>1. Cardinality(1..c) = c
    BY <1>1, FS_Interval
  <2>. QED
    BY <1>1, <1>4, <2>1, FS_Injection DEF c
<1>6. \A n \in Kept : \E i \in 1..c : at[i] = n
  BY <1>5 DEF Surjection
<1>7. DOMAIN log' = 1..c /\ \A i \in 1..c : log'[i] = log[at[i]]
  BY <1>2
<1>8. ASSUME Posted, ~Posted', \A n \in DOMAIN log \ Kept : log[n].act # "post" PROVE FALSE
  <2>1. PICK n \in DOMAIN log : log[n].act = "post" /\ \A m \in DOMAIN log : m > n => log[m].act # "redraft"
    BY <1>0, <1>8, SaysIs DEF Posted
  <2>2. PICK i \in 1..c : at[i] = n
    BY <1>6, <1>8, <2>1
  <2>3. ASSUME NEW m \in 1..c, m > i PROVE log'[m].act # "redraft"
    <3>1. at[i] < at[m] /\ at[m] \in DOMAIN log
      BY <1>1, <1>2, <2>3
    <3>2. at[m] > n
      BY <1>3, <2>2, <3>1
    <3>. QED
      BY <1>7, <2>1, <3>1, <3>2
  <2>4. Posted' <=> \E k \in DOMAIN log' : log'[k].act = "post" /\ \A m \in DOMAIN log' : m > k => log'[m].act # "redraft"
    BY <1>0, SaysIs DEF Posted
  <2>5. Posted'
    BY <1>7, <2>1, <2>2, <2>3, <2>4
  <2>. QED
    BY <1>8, <2>5
<1>9. ASSUME ~Carried, Carried', \A n \in DOMAIN log \ Kept : log[n].act # "sentAlone" PROVE FALSE
  <2>1. PICK n \in DOMAIN log : log[n].act = "sentAlone"
    BY <1>9 DEF Carried
  <2>2. PICK i \in 1..c : at[i] = n
    BY <1>6, <1>9, <2>1
  <2>. QED
    BY <1>7, <1>9, <2>1, <2>2 DEF Carried
<1>. QED
  BY <1>8, <1>9
-----------------------------------------------------------------------------
(* What has been sent of a pull request.                                     *)

\* A send that is at its call has not reached GitHub yet; it is counted as if it
\* had, so that the answer changes no number.
AtReview == {s \in sends : s.step = "review"}
WithCopy == {s \in sends : s.step \in {"review", "alone"} /\ s.carries}

ReviewsSent == hub.reviews + Cardinality(AtReview)
CopiesSent == hub.copies + Cardinality(WithCopy)

\* A send whose record is still to come, ...
ReviewOut == \E s \in sends : s.what = "review" /\ s.step \in {"review", "landed"}
CopyOut == \E s \in sends : s.carries /\ s.step \in {"review", "alone", "landed"}

\* ... and one that has not failed.
ReviewUnderWay == \E s \in sends : s.what = "review" /\ s.step # "refused"

\* One review more than is excused needs a record that it went, or a send that
\* will write one; so does one copy of the comment; and a sheet that stands open
\* over a post nobody is sending here was opened before it.
PullInv == kind = "pull" =>
  /\ staged = {}
  /\ \A s \in sends : (s.carries \/ ~Carried) /\ (s.what = "alone" => s.carries)
  /\ ReviewsSent <= excused + 1 /\ CopiesSent <= excused + 1
  /\ ~Posted /\ ~ReviewOut => ReviewsSent <= excused
  /\ ~Posted /\ Carried /\ ~CopyOut => CopiesSent <= excused
  /\ sheet # "closed" /\ Posted /\ ~ReviewUnderWay => ReviewsSent <= excused /\ (Carried => CopiesSent <= excused)

\* These are numbers.
LEMMA CountTypes ==
  ASSUME PostingTypes
  PROVE  /\ IsFiniteSet(AtReview) /\ IsFiniteSet(WithCopy)
         /\ Cardinality(AtReview) \in Nat /\ Cardinality(WithCopy) \in Nat
         /\ hub.reviews \in Nat /\ hub.copies \in Nat /\ excused \in Nat
         /\ ReviewsSent \in Nat /\ CopiesSent \in Nat
<1>1. IsFiniteSet(AtReview) /\ IsFiniteSet(WithCopy)
  <2>1. AtReview \subseteq sends /\ WithCopy \subseteq sends
    BY DEF AtReview, WithCopy
  <2>. QED
    BY <2>1, FS_Subset DEF PostingTypes, SendTypes
<1>2. Cardinality(AtReview) \in Nat /\ Cardinality(WithCopy) \in Nat
  BY <1>1, FS_CardinalityType
<1>3. hub.reviews \in Nat /\ hub.copies \in Nat /\ excused \in Nat
  BY DEF PostingTypes, OtherTypes, Hub
<1>. QED
  BY <1>1, <1>2, <1>3 DEF ReviewsSent, CopiesSent

\* A step that sends nothing and forgets nothing leaves them as they are.
LEMMA PullQuiet ==
  ASSUME PullInv, kind = "pull", UNCHANGED <<kind, staged, sends, hub, excused>>,
         Posted' <=> Posted, Carried' <=> Carried, sheet' \in {sheet, "closed"}
  PROVE  PullInv'
<1>1. AtReview' = AtReview /\ WithCopy' = WithCopy
  BY DEF AtReview, WithCopy
<1>2. ReviewsSent' = ReviewsSent /\ CopiesSent' = CopiesSent
  BY <1>1 DEF ReviewsSent, CopiesSent
<1>3. (ReviewOut' <=> ReviewOut) /\ (CopyOut' <=> CopyOut) /\ (ReviewUnderWay' <=> ReviewUnderWay)
  BY DEF ReviewOut, CopyOut, ReviewUnderWay
<1>. QED
  BY <1>2, <1>3 DEF PullInv

\* A send that leaves its call, for whatever comes after it, is at it no more.
LEMMA LeavesCall ==
  ASSUME PostingTypes, NEW s \in sends, NEW t, t.step \notin {"review", "alone"},
         sends' = sends \ {s} \/ sends' = (sends \ {s}) \cup {t}
  PROVE  /\ Cardinality(AtReview') = Cardinality(AtReview) - (IF s.step = "review" THEN 1 ELSE 0)
         /\ Cardinality(WithCopy') = Cardinality(WithCopy) - (IF s.step \in {"review", "alone"} /\ s.carries THEN 1 ELSE 0)
<1>0. /\ IsFiniteSet(AtReview) /\ IsFiniteSet(WithCopy)
      /\ Cardinality(AtReview) \in Nat /\ Cardinality(WithCopy) \in Nat
  BY CountTypes
<1>1. AtReview' = AtReview \ {s} /\ (s \in AtReview <=> s.step = "review")
  BY DEF AtReview
<1>2. WithCopy' = WithCopy \ {s} /\ (s \in WithCopy <=> s.step \in {"review", "alone"} /\ s.carries)
  BY DEF WithCopy
<1>3. Cardinality(AtReview \ {s}) = IF s \in AtReview THEN Cardinality(AtReview) - 1 ELSE Cardinality(AtReview)
  BY <1>0, FS_RemoveElement, Zenon
<1>4. Cardinality(WithCopy \ {s}) = IF s \in WithCopy THEN Cardinality(WithCopy) - 1 ELSE Cardinality(WithCopy)
  BY <1>0, FS_RemoveElement, Zenon
<1>. QED
  BY <1>0, <1>1, <1>2, <1>3, <1>4

\* The other sends are out, and under way, as before.
LEMMA OthersOut ==
  ASSUME NEW s \in sends, sends \ {s} \subseteq sends'
  PROVE  /\ ReviewOut => ReviewOut' \/ (s.what = "review" /\ s.step \in {"review", "landed"})
         /\ CopyOut => CopyOut' \/ (s.carries /\ s.step \in {"review", "alone", "landed"})
         /\ ReviewUnderWay => ReviewUnderWay' \/ (s.what = "review" /\ s.step # "refused")
BY DEF ReviewOut, CopyOut, ReviewUnderWay

\* A call that lands.
LEMMA PullLand ==
  ASSUME PostingTypes, PostingTypes', PullInv, kind = "pull", UNCHANGED <<kind, staged, log>>,
         NEW s \in sends, NEW step \in {"landed", "refused"}, s.step \in Calls, hub' = Effect(s), To(s, step), sheet' = sheet,
         excused' = excused + (IF step = "refused" THEN 1 ELSE 0)
  PROVE  PullInv'
<1>0. /\ hub.reviews \in Nat /\ hub.copies \in Nat /\ excused \in Nat
      /\ ReviewsSent \in Nat /\ CopiesSent \in Nat /\ hub \in Hub
      /\ Cardinality(AtReview) \in Nat /\ Cardinality(WithCopy) \in Nat
  BY CountTypes DEF PostingTypes, OtherTypes
<1>. DEFINE t == [s EXCEPT !.step = step]
<1>1. /\ s \in Send /\ t.step = step /\ t.what = s.what /\ t.carries = s.carries
      /\ sends' = (sends \ {s}) \cup {t}
  <2>1. s \in Send
    BY DEF PostingTypes, SendTypes
  <2>2. sends' = (sends \ {s}) \cup {t}
    BY DEF To, Move
  <2>. QED
    BY <2>1, <2>2, StepIs
<1>2. s.step = s.what /\ s.what \in {"review", "alone"}
  BY DEF PostingTypes, SendTypes, OfItsKind, PullSend, Calls, Links
<1>. HIDE DEF t
<1>3. /\ Cardinality(AtReview') = Cardinality(AtReview) - (IF s.step = "review" THEN 1 ELSE 0)
      /\ Cardinality(WithCopy') = Cardinality(WithCopy) - (IF s.carries THEN 1 ELSE 0)
  BY <1>1, <1>2, LeavesCall
<1>4. /\ hub'.reviews = hub.reviews + (IF s.step = "review" THEN 1 ELSE 0)
      /\ hub'.copies = hub.copies + (IF s.carries THEN 1 ELSE 0)
  <2>1. CASE s.step = "review"
    BY <1>0, <2>1 DEF Effect, Hub
  <2>2. CASE s.step = "alone"
    <3>1. s.carries
      BY <1>2, <2>2 DEF PullInv
    <3>. QED
      BY <1>0, <2>2, <3>1 DEF Effect, Hub
  <2>. QED
    BY <1>2, <2>1, <2>2
<1>5. ReviewsSent' = ReviewsSent /\ CopiesSent' = CopiesSent
  BY <1>0, <1>3, <1>4 DEF ReviewsSent, CopiesSent
<1>6. (Posted' <=> Posted) /\ (Carried' <=> Carried)
  BY DEF Posted, Carried
<1>7. \A u \in sends' : (u.carries \/ ~Carried') /\ (u.what = "alone" => u.carries)
  BY <1>1, <1>6 DEF PullInv
<1>8. t \in sends' /\ sends \ {s} \subseteq sends'
  BY <1>1
<1>9. CASE step = "landed"
  <2>1. /\ s.what = "review" => ReviewOut' /\ ReviewUnderWay'
        /\ s.carries => CopyOut'
    BY <1>1, <1>8, <1>9 DEF ReviewOut, ReviewUnderWay, CopyOut
  <2>2. (ReviewOut => ReviewOut') /\ (CopyOut => CopyOut') /\ (ReviewUnderWay => ReviewUnderWay')
    BY <1>8, <2>1, OthersOut
  <2>3. excused' = excused
    BY <1>0, <1>9
  <2>. QED
    BY <1>5, <1>6, <1>7, <2>2, <2>3 DEF PullInv
<1>10. CASE step = "refused"
  <2>1. excused' = excused + 1
    BY <1>10
  <2>2. ReviewsSent <= excused + 1 /\ CopiesSent <= excused + 1
    BY DEF PullInv
  <2>3. ReviewsSent' <= excused' /\ CopiesSent' <= excused' /\ excused' \in Nat
    BY <1>0, <1>5, <2>1, <2>2
  <2>4. ReviewsSent' <= excused' + 1 /\ CopiesSent' <= excused' + 1
    BY <1>0, <1>5, <2>3
  <2>. QED
    BY <1>7, <2>3, <2>4 DEF PullInv
<1>. QED
  BY <1>9, <1>10
\* A call GitHub turns down, or nobody answers: it is not out any more.
LEMMA PullRefuse ==
  ASSUME PostingTypes, PullInv, kind = "pull", Refuse
  PROVE  PullInv'
<1>. USE DEF fixed, agent, github, history
<1>1. PICK s \in sends : s.step \in Calls \cup {"check"} /\ To(s, "refused") /\ Excuse(IF s.step = "close" THEN 1 ELSE 0)
  BY DEF Refuse
<1>x. Excuse(IF s.step = "close" THEN 1 ELSE 0)
  BY <1>1
<1>0. /\ hub.reviews \in Nat /\ hub.copies \in Nat /\ excused \in Nat
      /\ ReviewsSent \in Nat /\ CopiesSent \in Nat
      /\ Cardinality(AtReview) \in Nat /\ Cardinality(WithCopy) \in Nat
  BY CountTypes
<1>u. UNCHANGED <<kind, staged, log, hub, excused, sheet>>
  <2>1. s.step # "close"
    BY <1>1 DEF PostingTypes, SendTypes, OfItsKind, PullSend
  <2>2. Excuse(0)
    BY <2>1, <1>x
  <2>. QED
    BY <1>0, <2>2 DEF Refuse, Excuse
<1>. DEFINE t == [s EXCEPT !.step = "refused"]
<1>2. /\ s \in Send /\ t.step = "refused" /\ t.what = s.what /\ t.carries = s.carries
      /\ sends' = (sends \ {s}) \cup {t}
  <2>1. s \in Send
    BY DEF PostingTypes, SendTypes
  <2>2. sends' = (sends \ {s}) \cup {t}
    BY <1>1 DEF To, Move
  <2>. QED
    BY <2>1, <2>2, StepIs
<1>3. s.step = s.what /\ s.what \in {"review", "alone"}
  BY <1>1 DEF PostingTypes, SendTypes, OfItsKind, PullSend, Calls, Links
<1>. HIDE DEF t
<1>4. /\ Cardinality(AtReview') = Cardinality(AtReview) - (IF s.step = "review" THEN 1 ELSE 0)
      /\ Cardinality(WithCopy') = Cardinality(WithCopy) - (IF s.carries THEN 1 ELSE 0)
  BY <1>2, <1>3, LeavesCall
<1>5. /\ ReviewsSent' = ReviewsSent - (IF s.step = "review" THEN 1 ELSE 0)
      /\ CopiesSent' = CopiesSent - (IF s.carries THEN 1 ELSE 0)
  BY <1>0, <1>4, <1>u DEF ReviewsSent, CopiesSent
<1>6. (Posted' <=> Posted) /\ (Carried' <=> Carried)
  BY <1>u DEF Posted, Carried
<1>7. \A u \in sends' : (u.carries \/ ~Carried') /\ (u.what = "alone" => u.carries)
  BY <1>2, <1>6 DEF PullInv
<1>8. t \in sends' /\ sends \ {s} \subseteq sends'
  BY <1>2
<1>9. /\ ReviewOut => ReviewOut' \/ s.step = "review"
      /\ CopyOut => CopyOut' \/ s.carries
      /\ ReviewUnderWay => ReviewUnderWay' \/ s.step = "review"
  BY <1>3, <1>8, OthersOut
<1>10. ReviewsSent' <= excused + 1 /\ CopiesSent' <= excused + 1
  BY <1>0, <1>5 DEF PullInv
<1>11. ASSUME ~Posted, ~ReviewOut' PROVE ReviewsSent' <= excused
  BY <1>0, <1>5, <1>9, <1>11 DEF PullInv
<1>12. ASSUME ~Posted, Carried, ~CopyOut' PROVE CopiesSent' <= excused
  BY <1>0, <1>5, <1>9, <1>12 DEF PullInv
<1>13. ASSUME sheet # "closed", Posted, ~ReviewUnderWay' PROVE ReviewsSent' <= excused
  BY <1>0, <1>5, <1>9, <1>13 DEF PullInv
<1>14. ASSUME sheet # "closed", Posted, ~ReviewUnderWay', Carried PROVE CopiesSent' <= excused
  <2>1. CASE s.carries
    BY <1>0, <1>5, <2>1 DEF PullInv
  <2>2. CASE ~s.carries
    BY <1>14, <2>2 DEF PullInv
  <2>. QED
    BY <2>1, <2>2
<1>. QED
  BY <1>u, <1>6, <1>7, <1>10, <1>11, <1>12, <1>13, <1>14 DEF PullInv

\* A failure shown, or a success: the send was not out any more.
LEMMA PullEnds ==
  ASSUME PostingTypes, PullInv, kind = "pull", Fail \/ Finish
  PROVE  PullInv'
<1>. USE DEF fixed, agent, github, history
<1>1. PICK s \in sends : /\ s.step \in {"refused", "recorded"} /\ sends' = sends \ {s}
                         /\ \/ sheet' = "closed"
                            \/ s.step = "refused" /\ (sheet' = sheet \/ (sheet = "sending" /\ sheet' = "open"))
                            \/ s.what = "alone" /\ sheet' = sheet
  BY DEF Fail, Finish, GivenBack
<1>u. UNCHANGED <<kind, staged, log, hub, excused>>
  BY DEF Fail, Finish
<1>2. AtReview' = AtReview /\ WithCopy' = WithCopy
  BY <1>1 DEF AtReview, WithCopy
<1>3. ReviewsSent' = ReviewsSent /\ CopiesSent' = CopiesSent
  BY <1>2, <1>u DEF ReviewsSent, CopiesSent
<1>4. (Posted' <=> Posted) /\ (Carried' <=> Carried)
  BY <1>u DEF Posted, Carried
<1>5. (ReviewOut' <=> ReviewOut) /\ (CopyOut' <=> CopyOut)
  BY <1>1 DEF ReviewOut, CopyOut
<1>6. sheet' # "closed" => sheet # "closed" /\ (ReviewUnderWay => ReviewUnderWay')
  BY <1>1 DEF ReviewUnderWay
<1>7. \A u \in sends' : (u.carries \/ ~Carried') /\ (u.what = "alone" => u.carries)
  BY <1>1, <1>4 DEF PullInv
<1>. QED
  BY <1>u, <1>3, <1>4, <1>5, <1>6, <1>7 DEF PullInv

\* What is recorded is recorded at once, before anything says so.
LEMMA PullRecord ==
  ASSUME PostingTypes, PullInv, kind = "pull", Record
  PROVE  PullInv'
<1>. USE DEF fixed, agent, github, history
<1>0. log \in Seq(Event)
  BY DEF PostingTypes, LogTypes
<1>1. PICK s \in sends : s.step = "landed" /\ To(s, "recorded") /\ log' = log \o Recording(s)
  BY DEF Record
<1>u. UNCHANGED <<kind, staged, hub, excused, sheet>>
  BY DEF Record
<1>. DEFINE t == [s EXCEPT !.step = "recorded"]
<1>2. /\ t.step = "recorded" /\ t.what = s.what /\ t.carries = s.carries
      /\ sends' = (sends \ {s}) \cup {t}
  <2>1. s \in Send
    BY DEF PostingTypes, SendTypes
  <2>2. sends' = (sends \ {s}) \cup {t}
    BY <1>1 DEF To, Move
  <2>. QED
    BY <2>1, <2>2, StepIs
<1>. HIDE DEF t
<1>3. AtReview' = AtReview /\ WithCopy' = WithCopy
  BY <1>1, <1>2 DEF AtReview, WithCopy
<1>4. ReviewsSent' = ReviewsSent /\ CopiesSent' = CopiesSent
  BY <1>3, <1>u DEF ReviewsSent, CopiesSent
<1>8. t \in sends' /\ sends \ {s} \subseteq sends'
  BY <1>2
<1>9. /\ ReviewOut => ReviewOut' \/ s.what = "review"
      /\ CopyOut => CopyOut' \/ s.carries
      /\ ReviewUnderWay => ReviewUnderWay'
  <2>1. s.what = "review" => ReviewUnderWay'
    BY <1>2, <1>8 DEF ReviewUnderWay
  <2>. QED
    BY <1>8, <2>1, OthersOut
<1>w. s.what \in {"review", "alone"}
  BY DEF PostingTypes, SendTypes, OfItsKind, PullSend
<1>10. CASE s.what = "alone"
  <2>1. log' = log \o <<Entry("sentAlone", s.seen)>>
    BY <1>1, <1>10 DEF Recording
  <2>2. Entry("sentAlone", s.seen).act = "sentAlone"
    BY DEF Entry
  <2>3. (Posted' <=> Posted) /\ ~Carried'
    BY <1>0, <2>1, <2>2, OneMore
  <2>4. \A u \in sends' : (u.carries \/ ~Carried') /\ (u.what = "alone" => u.carries)
    BY <1>2, <2>3 DEF PullInv
  <2>5. ReviewOut => ReviewOut'
    BY <1>9, <1>10
  <2>. QED
    BY <1>u, <1>4, <1>9, <2>3, <2>4, <2>5 DEF PullInv
<1>11. CASE s.what = "review"
  <2>1. log' = log \o <<Entry("post", s.seen), Entry("dismiss", s.seen)>>
    BY <1>1, <1>11 DEF Recording
  <2>2. Entry("post", s.seen).act = "post" /\ Entry("dismiss", s.seen).act = "dismiss"
    BY DEF Entry
  <2>3. Posted' /\ (Carried' <=> Carried)
    BY <1>0, <2>1, <2>2, TwoMore
  <2>4. \A u \in sends' : (u.carries \/ ~Carried') /\ (u.what = "alone" => u.carries)
    BY <1>2, <2>3 DEF PullInv
  <2>5. ReviewUnderWay'
    BY <1>2, <1>8, <1>11 DEF ReviewUnderWay
  <2>. QED
    BY <1>u, <1>4, <2>3, <2>4, <2>5 DEF PullInv
<1>. QED
  BY <1>w, <1>10, <1>11

\* The button is there only while nothing was posted, or the send that posted is
\* still to be drawn.
LEMMA PullOpen ==
  ASSUME PostingTypes, PullInv, kind = "pull", OpenSheet
  PROVE  PullInv'
<1>. USE DEF fixed, agent, github, history
<1>u. UNCHANGED <<kind, staged, log, sends, hub, excused>> /\ ~ShownPosted
  BY DEF OpenSheet, Offered
<1>1. Posted => ReviewUnderWay
  BY <1>u DEF ShownPosted, ReviewUnderWay, PostingTypes, SendTypes, OfItsKind, PullSend
<1>2. AtReview' = AtReview /\ WithCopy' = WithCopy
  BY <1>u DEF AtReview, WithCopy
<1>3. ReviewsSent' = ReviewsSent /\ CopiesSent' = CopiesSent
  BY <1>2, <1>u DEF ReviewsSent, CopiesSent
<1>4. (Posted' <=> Posted) /\ (Carried' <=> Carried)
  BY <1>u DEF Posted, Carried
<1>5. (ReviewOut' <=> ReviewOut) /\ (CopyOut' <=> CopyOut) /\ (ReviewUnderWay' <=> ReviewUnderWay)
  BY <1>u DEF ReviewOut, CopyOut, ReviewUnderWay
<1>. QED
  BY <1>u, <1>1, <1>3, <1>4, <1>5 DEF PullInv
\* A press repeats at least one send if any is of its kind, or carries the
\* comment it does.
LEMMA RepeatsIs ==
  ASSUME PostingTypes, NEW s, NEW t \in sends, t.what = s.what \/ (t.carries /\ s.carries)
  PROVE  Repeats(s) >= 1
<1>. DEFINE repeated == {u \in sends : u.what = s.what \/ (u.carries /\ s.carries)}
<1>1. IsFiniteSet(repeated)
  BY FS_Subset DEF PostingTypes, SendTypes
<1>2. repeated # {}
  OBVIOUS
<1>3. Cardinality(repeated) \in Nat /\ Cardinality(repeated) # 0
  BY <1>1, <1>2, FS_EmptySet, FS_CardinalityType
<1>. HIDE DEF repeated
<1>4. Cardinality(repeated) >= 1
  BY <1>3
<1>. QED
  BY <1>4 DEF Repeats, repeated

\* A press.
LEMMA PullPress ==
  ASSUME Bounds, PostingTypes, PullInv, kind = "pull", PressPost \/ PressAlone
  PROVE  PullInv'
<1>. USE DEF fixed, agent, github, history
<1>1. PICK s : /\ Press(s) /\ s.carries = Carried /\ s.carries \in BOOLEAN
               /\ \/ s.what = "review" /\ s.step = "review" /\ sheet = "open" /\ sheet' = "sending"
                  \/ s.what = "alone" /\ s.step = "alone" /\ sheet' = "closed" /\ Carried /\ ~ShownPosted
  <2>1. \A what \in {"review", "alone"} :
          /\ New(what, what).carries = Carried /\ New(what, what).what = what /\ New(what, what).step = what
          /\ New(what, what).carries \in BOOLEAN
    BY DEF New, Carried
  <2>. QED
    BY <2>1 DEF PressPost, PressAlone
<1>u. UNCHANGED <<kind, staged, log, hub>>
  BY DEF PressPost, PressAlone
<1>0. /\ hub.reviews \in Nat /\ hub.copies \in Nat /\ excused \in Nat
      /\ ReviewsSent \in Nat /\ CopiesSent \in Nat
      /\ Cardinality(AtReview) \in Nat /\ Cardinality(WithCopy) \in Nat
      /\ IsFiniteSet(AtReview) /\ IsFiniteSet(WithCopy)
  BY CountTypes
<1>2. sends' = sends \cup {s} /\ excused' = excused + Repeats(s) /\ Repeats(s) \in Nat
  <2>1. draft # 0
    BY DEF PressPost, PressAlone
  <2>. QED
    BY <1>1, <2>1, PressCounts DEF Press, Excuse, Counted
<1>3. /\ Cardinality(AtReview') <= Cardinality(AtReview) + 1 /\ Cardinality(AtReview') \in Nat
      /\ s.step # "review" => AtReview' = AtReview
  <2>1. AtReview' = AtReview \cup {s} \/ AtReview' = AtReview
    BY <1>2 DEF AtReview
  <2>2. Cardinality(AtReview \cup {s}) \in {Cardinality(AtReview), Cardinality(AtReview) + 1}
    BY <1>0, FS_AddElement
  <2>3. s.step # "review" => AtReview' = AtReview
    BY <1>2 DEF AtReview
  <2>. QED
    BY <1>0, <2>1, <2>2, <2>3
<1>4. /\ Cardinality(WithCopy') <= Cardinality(WithCopy) + 1 /\ Cardinality(WithCopy') \in Nat
      /\ ~s.carries => WithCopy' = WithCopy
  <2>1. WithCopy' = WithCopy \cup {s} \/ WithCopy' = WithCopy
    BY <1>2 DEF WithCopy
  <2>2. Cardinality(WithCopy \cup {s}) \in {Cardinality(WithCopy), Cardinality(WithCopy) + 1}
    BY <1>0, FS_AddElement
  <2>3. ~s.carries => WithCopy' = WithCopy
    BY <1>2 DEF WithCopy
  <2>4. Cardinality(WithCopy') \in {Cardinality(WithCopy), Cardinality(WithCopy) + 1}
    BY <2>1, <2>2
  <2>5. Cardinality(WithCopy') <= Cardinality(WithCopy) + 1 /\ Cardinality(WithCopy') \in Nat
    BY <1>0, <2>4
  <2>. QED
    BY <2>3, <2>5
<1>5. /\ ReviewsSent' <= ReviewsSent + 1 /\ CopiesSent' <= CopiesSent + 1
      /\ ReviewsSent' \in Nat /\ CopiesSent' \in Nat
      /\ s.step # "review" => ReviewsSent' = ReviewsSent
      /\ ~s.carries => CopiesSent' = CopiesSent
  BY <1>0, <1>3, <1>4, <1>u DEF ReviewsSent, CopiesSent
<1>6. (Posted' <=> Posted) /\ (Carried' <=> Carried)
  BY <1>u DEF Posted, Carried
<1>7. \A u \in sends' : (u.carries \/ ~Carried') /\ (u.what = "alone" => u.carries)
  BY <1>1, <1>2, <1>6 DEF PullInv
<1>8. s.carries => CopyOut'
  BY <1>1, <1>2 DEF CopyOut
<1>c. ReviewsSent <= excused + 1 /\ CopiesSent <= excused + 1
  BY DEF PullInv
<1>9. CASE s.what = "review"
  <2>1. ReviewOut' /\ ReviewUnderWay'
    BY <1>1, <1>2, <1>9 DEF ReviewOut, ReviewUnderWay
  <2>2. CASE \E t \in sends : t.what = s.what \/ (t.carries /\ s.carries)
    <3>1. Repeats(s) >= 1
      BY <2>2, RepeatsIs
    <3>2. ReviewsSent' <= excused' + 1 /\ CopiesSent' <= excused' + 1
      BY <1>0, <1>2, <1>5, <1>c, <3>1
    <3>. QED
      BY <1>1, <1>u, <1>6, <1>7, <1>8, <2>1, <3>2 DEF PullInv
  <2>3. CASE ~ \E t \in sends : t.what = s.what \/ (t.carries /\ s.carries)
    <3>1. ~ReviewOut /\ ~ReviewUnderWay /\ (s.carries => ~CopyOut)
      BY <1>9, <2>3 DEF ReviewOut, ReviewUnderWay, CopyOut
    <3>2. ReviewsSent <= excused /\ (s.carries => CopiesSent <= excused)
      BY <1>1, <1>9, <3>1 DEF PullInv
    <3>3. ReviewsSent' <= excused' + 1
      BY <1>0, <1>2, <1>5, <3>2
    <3>4. CopiesSent' <= excused' + 1
      <4>1. CASE s.carries
        BY <1>0, <1>2, <1>5, <3>2, <4>1
      <4>2. CASE ~s.carries
        BY <1>0, <1>2, <1>5, <1>c, <4>2
      <4>. QED
        BY <4>1, <4>2
    <3>. QED
      BY <1>1, <1>u, <1>6, <1>7, <1>8, <2>1, <3>3, <3>4 DEF PullInv
  <2>. QED
    BY <2>2, <2>3
<1>10. CASE s.what = "alone"
  <2>1. sheet' = "closed" /\ s.carries /\ CopyOut' /\ ReviewsSent' = ReviewsSent /\ ~ShownPosted
    BY <1>1, <1>5, <1>8, <1>10
  <2>2. ReviewOut => ReviewOut'
    BY <1>2 DEF ReviewOut
  <2>3. ReviewsSent' <= excused' + 1
    BY <1>0, <1>2, <1>c, <2>1
  <2>4. ~Posted /\ ~ReviewOut' => ReviewsSent' <= excused'
    <3>1. ~Posted /\ ~ReviewOut' => ReviewsSent <= excused
      BY <2>2 DEF PullInv
    <3>. QED
      BY <1>0, <1>2, <2>1, <3>1
  <2>5. CASE \E t \in sends : t.what = s.what \/ (t.carries /\ s.carries)
    <3>1. Repeats(s) >= 1
      BY <2>5, RepeatsIs
    <3>2. CopiesSent' <= excused' + 1
      BY <1>0, <1>2, <1>5, <1>c, <3>1
    <3>. QED
      BY <1>u, <1>6, <1>7, <2>1, <2>3, <2>4, <3>2 DEF PullInv
  <2>6. CASE ~ \E t \in sends : t.what = s.what \/ (t.carries /\ s.carries)
    <3>1. ~CopyOut
      BY <2>1, <2>6 DEF CopyOut
    <3>2. ~Posted
      BY <1>1, <2>1, <2>6 DEF ShownPosted, PullInv
    <3>3. CopiesSent <= excused
      BY <1>1, <2>1, <3>1, <3>2 DEF PullInv
    <3>4. CopiesSent' <= excused' + 1
      BY <1>0, <1>2, <1>5, <3>3
    <3>. QED
      BY <1>u, <1>6, <1>7, <2>1, <2>3, <2>4, <3>4 DEF PullInv
  <2>. QED
    BY <2>5, <2>6
<1>. QED
  BY <1>1, <1>9, <1>10

\* The reader takes a decision back: a post that is forgotten is excused.
LEMMA PullForgets ==
  ASSUME PostingTypes, PullInv, kind = "pull", Restore \/ ClearDraft
  PROVE  PullInv'
<1>. USE DEF fixed, agent, github, history
<1>0. log \in Seq(Event) /\ excused \in Nat /\ ReviewsSent \in Nat /\ CopiesSent \in Nat
  BY CountTypes DEF PostingTypes, LogTypes
<1>u. UNCHANGED <<kind, staged, sends, hub>> /\ sheet' = sheet
  BY DEF Restore, ClearDraft
<1>1. ~Posted' /\ (Carried' <=> Carried)
  <2>1. Entry("restore", draft).act = "restore" /\ Entry("redraft", draft).act = "redraft"
    BY DEF Entry
  <2>2. CASE Restore
    BY <1>0, <2>1, <2>2, TwoMore DEF Restore
  <2>3. CASE ClearDraft /\ Posted
    BY <1>0, <2>1, <2>3, OneMore DEF ClearDraft
  <2>4. CASE ClearDraft /\ ~Posted
    BY <2>4 DEF ClearDraft, Posted, Carried
  <2>. QED
    BY <2>2, <2>3, <2>4
<1>2. excused' = excused + (IF Posted THEN 1 ELSE 0)
  BY DEF Restore, ClearDraft, Excuse, Counted
<1>3. AtReview' = AtReview /\ WithCopy' = WithCopy
  BY <1>u DEF AtReview, WithCopy
<1>4. ReviewsSent' = ReviewsSent /\ CopiesSent' = CopiesSent
  BY <1>3, <1>u DEF ReviewsSent, CopiesSent
<1>5. (ReviewOut' <=> ReviewOut) /\ (CopyOut' <=> CopyOut)
  BY <1>u DEF ReviewOut, CopyOut
<1>6. \A u \in sends' : (u.carries \/ ~Carried') /\ (u.what = "alone" => u.carries)
  BY <1>u, <1>1 DEF PullInv
<1>7. ReviewsSent <= excused + 1 /\ CopiesSent <= excused + 1
  BY DEF PullInv
<1>8. ReviewsSent' <= excused' + 1 /\ CopiesSent' <= excused' + 1
  BY <1>0, <1>2, <1>4, <1>7
<1>9. ~ReviewOut => ReviewsSent' <= excused'
  <2>1. CASE Posted
    BY <1>0, <1>2, <1>4, <1>7, <2>1
  <2>2. CASE ~Posted
    BY <1>0, <1>2, <1>4, <2>2 DEF PullInv
  <2>. QED
    BY <2>1, <2>2
<1>10. Carried /\ ~CopyOut => CopiesSent' <= excused'
  <2>1. CASE Posted
    BY <1>0, <1>2, <1>4, <1>7, <2>1
  <2>2. CASE ~Posted
    BY <1>0, <1>2, <1>4, <2>2 DEF PullInv
  <2>. QED
    BY <2>1, <2>2
<1>. QED
  BY <1>u, <1>1, <1>5, <1>6, <1>8, <1>9, <1>10 DEF PullInv

\* Another device posts.
LEMMA PullPeer ==
  ASSUME PostingTypes, PullInv, kind = "pull", PeerPosts
  PROVE  PullInv'
<1>. USE DEF fixed, agent, github, history
<1>0. /\ log \in Seq(Event) /\ excused \in Nat /\ ReviewsSent \in Nat /\ CopiesSent \in Nat
      /\ hub \in Hub /\ hub.reviews \in Nat /\ Cardinality(AtReview) \in Nat
  BY CountTypes DEF PostingTypes, LogTypes, OtherTypes
<1>u. UNCHANGED <<kind, staged, sends>> /\ sheet' = sheet /\ hub' = [hub EXCEPT !.reviews = @ + 1]
  BY DEF PeerPosts
<1>1. Posted' /\ (Carried' <=> Carried)
  <2>. DEFINE a == [Entry("post", draft) EXCEPT !.disk = "kept"]
              b == [Entry("dismiss", draft) EXCEPT !.disk = "kept"]
  <2>1. log' = log \o <<a, b>>
    BY DEF PeerPosts
  <2>2. a.act = "post" /\ b.act = "dismiss"
    BY DEF Entry
  <2>. HIDE DEF a, b
  <2>. QED
    BY <1>0, <2>1, <2>2, TwoMore
<1>2. excused' = excused + (IF sheet = "closed" THEN 1 ELSE 2)
  BY DEF PeerPosts, Excuse, Counted
<1>3. AtReview' = AtReview /\ WithCopy' = WithCopy
  BY <1>u DEF AtReview, WithCopy
<1>4. hub'.reviews = hub.reviews + 1 /\ hub'.copies = hub.copies
  BY <1>0, <1>u DEF Hub
<1>5. ReviewsSent' = ReviewsSent + 1 /\ CopiesSent' = CopiesSent
  BY <1>0, <1>3, <1>4 DEF ReviewsSent, CopiesSent
<1>6. \A u \in sends' : (u.carries \/ ~Carried') /\ (u.what = "alone" => u.carries)
  BY <1>u, <1>1 DEF PullInv
<1>7. ReviewsSent <= excused + 1 /\ CopiesSent <= excused + 1
  BY DEF PullInv
<1>8. ReviewsSent' <= excused' + 1 /\ CopiesSent' <= excused' + 1
  BY <1>0, <1>2, <1>5, <1>7
<1>9. sheet' # "closed" => ReviewsSent' <= excused' /\ CopiesSent' <= excused'
  BY <1>0, <1>u, <1>2, <1>5, <1>7
<1>. QED
  BY <1>u, <1>1, <1>6, <1>8, <1>9 DEF PullInv

\* The page goes away with its sends: what it had not written is excused.
LEMMA PullCrash ==
  ASSUME PostingTypes, PullInv, kind = "pull", Crash
  PROVE  PullInv'
<1>. USE DEF fixed, agent, github, history
<1>. DEFINE landed == {s \in sends : s.step \in {"landed", "close"}}
            unwritten == {n \in DOMAIN log \ Kept : log[n].act \in {"post", "sentAlone"}}
<1>0. /\ hub.reviews \in Nat /\ hub.copies \in Nat /\ excused \in Nat
      /\ ReviewsSent \in Nat /\ CopiesSent \in Nat
      /\ Cardinality(AtReview) \in Nat /\ Cardinality(WithCopy) \in Nat
      /\ IsFiniteSet(AtReview) /\ IsFiniteSet(WithCopy)
  BY CountTypes
<1>u. UNCHANGED <<kind, staged, hub>> /\ sheet' = "closed" /\ sends' = {}
  BY DEF Crash
<1>1. /\ Cardinality(landed) \in Nat /\ Cardinality(unwritten) \in Nat
      /\ IsFiniteSet(landed) /\ IsFiniteSet(unwritten)
  BY CrashCounts
<1>2. excused' = excused + (Cardinality(landed) + Cardinality(unwritten))
  BY DEF Crash, Excuse, Counted
<1>3. /\ Posted /\ ~Posted' => unwritten # {}
      /\ ~Carried /\ Carried' => unwritten # {}
  BY CrashForgets
<1>4. /\ ReviewOut => landed # {} \/ AtReview # {}
      /\ CopyOut => landed # {} \/ WithCopy # {}
  BY DEF ReviewOut, CopyOut, AtReview, WithCopy
<1>. HIDE DEF landed, unwritten
<1>5. /\ landed # {} => Cardinality(landed) >= 1
      /\ unwritten # {} => Cardinality(unwritten) >= 1
      /\ AtReview # {} => Cardinality(AtReview) >= 1
      /\ WithCopy # {} => Cardinality(WithCopy) >= 1
  <2>1. \A S : IsFiniteSet(S) /\ Cardinality(S) \in Nat /\ S # {} => Cardinality(S) >= 1
    BY FS_EmptySet
  <2>. QED
    BY <1>0, <1>1, <2>1
<1>6. AtReview' = {} /\ WithCopy' = {} /\ ~CopyOut' /\ ~ReviewOut'
  BY <1>u DEF AtReview, WithCopy, CopyOut, ReviewOut
<1>7. ReviewsSent' = hub.reviews /\ CopiesSent' = hub.copies
  BY <1>0, <1>u, <1>6, FS_EmptySet DEF ReviewsSent, CopiesSent
<1>8. ReviewsSent = hub.reviews + Cardinality(AtReview) /\ CopiesSent = hub.copies + Cardinality(WithCopy)
  BY DEF ReviewsSent, CopiesSent
<1>9. ReviewsSent <= excused + 1 /\ CopiesSent <= excused + 1
  BY DEF PullInv
<1>10. ReviewsSent' <= excused' + 1 /\ CopiesSent' <= excused' + 1
  BY <1>0, <1>1, <1>2, <1>7, <1>8, <1>9
<1>11. ASSUME ~Posted' PROVE ReviewsSent' <= excused'
  <2>1. CASE landed # {} \/ unwritten # {}
    BY <1>0, <1>1, <1>2, <1>5, <1>7, <1>8, <1>9, <2>1
  <2>2. CASE landed = {} /\ unwritten = {}
    <3>1. ~Posted
      BY <1>3, <1>11, <2>2
    <3>2. CASE ReviewOut
      BY <1>0, <1>1, <1>2, <1>4, <1>5, <1>7, <1>8, <1>9, <2>2, <3>2
    <3>3. CASE ~ReviewOut
      <4>1. ReviewsSent <= excused
        BY <3>1, <3>3 DEF PullInv
      <4>. QED
        BY <1>0, <1>1, <1>2, <1>7, <1>8, <4>1
    <3>. QED
      BY <3>2, <3>3
  <2>. QED
    BY <2>1, <2>2
<1>12. ASSUME ~Posted', Carried' PROVE CopiesSent' <= excused'
  <2>1. CASE landed # {} \/ unwritten # {}
    BY <1>0, <1>1, <1>2, <1>5, <1>7, <1>8, <1>9, <2>1
  <2>2. CASE landed = {} /\ unwritten = {}
    <3>1. ~Posted /\ Carried
      BY <1>3, <1>12, <2>2
    <3>2. CASE CopyOut
      BY <1>0, <1>1, <1>2, <1>4, <1>5, <1>7, <1>8, <1>9, <2>2, <3>2
    <3>3. CASE ~CopyOut
      <4>1. CopiesSent <= excused
        BY <3>1, <3>3 DEF PullInv
      <4>. QED
        BY <1>0, <1>1, <1>2, <1>7, <1>8, <4>1
    <3>. QED
      BY <3>2, <3>3
  <2>. QED
    BY <2>1, <2>2
<1>. QED
  BY <1>u, <1>10, <1>11, <1>12 DEF PullInv
\* Every step keeps count.
LEMMA PullStep ==
  ASSUME Bounds, PostingTypes, PostingTypes', PullInv, Next
  PROVE  PullInv'
<1>. USE DEF fixed, agent, github, history
<1>. SUFFICES ASSUME kind' = "pull" PROVE PullInv'
  BY DEF PullInv
<1>0. kind = "pull" /\ kind' = kind /\ staged' = staged /\ log \in Seq(Event) /\ excused \in Nat
  BY KindStays, CountTypes DEF PostingTypes, LogTypes
<1>s. ASSUME UNCHANGED log PROVE (Posted' <=> Posted) /\ (Carried' <=> Carried)
  BY <1>s DEF Posted, Carried
<1>1. CASE Keep \/ LoseWrite
  <2>1. UNCHANGED <<kind, staged, sends, hub, excused>> /\ sheet' = sheet
    BY <1>1 DEF Keep, LoseWrite
  <2>. QED
    BY <1>0, <1>1, <2>1, WrittenSame, PullQuiet
<1>2. CASE Land
  <2>1. PICK s \in sends : s.step \in Calls /\ hub' = Effect(s) /\ To(s, Following(s))
    BY <1>2 DEF Land
  <2>2. s.what # "triage"
    BY <1>0 DEF PostingTypes, SendTypes, OfItsKind, PullSend
  <2>3. Following(s) = "landed"
    BY <2>2 DEF Following
  <2>4. UNCHANGED <<kind, staged, log>> /\ sheet' = sheet /\ excused' = excused + 0
    BY <1>0, <1>2 DEF Land
  <2>. QED
    BY <1>0, <2>1, <2>3, <2>4, PullLand
<1>3. CASE LandUnheard
  <2>1. PICK s \in sends : /\ s.step \in Calls /\ hub' = Effect(s) /\ To(s, "refused")
                           /\ Excuse(IF s.step \in {"labels", "patch"} THEN 0 ELSE 1)
    BY <1>3 DEF LandUnheard
  <2>2. s.step \notin {"labels", "patch"}
    BY <1>0 DEF PostingTypes, SendTypes, OfItsKind, PullSend, Links
  <2>3. UNCHANGED <<kind, staged, log>> /\ sheet' = sheet
    BY <1>0, <1>3 DEF LandUnheard
  <2>4. excused' = excused + 1
    BY <1>0, <2>1, <2>2 DEF Excuse, Counted
  <2>. QED
    BY <1>0, <2>1, <2>3, <2>4, PullLand
<1>4. CASE Refuse
  BY <1>0, <1>4, PullRefuse
<1>5. CASE Fail \/ Finish
  BY <1>0, <1>5, PullEnds
<1>6. CASE Record
  BY <1>0, <1>6, PullRecord
<1>7. CASE OpenSheet
  BY <1>0, <1>7, PullOpen
<1>8. CASE CloseSheet \/ Redraft
  <2>1. UNCHANGED <<kind, staged, sends, hub, excused, log>> /\ sheet' \in {sheet, "closed"}
    BY <1>8 DEF CloseSheet, Redraft
  <2>. QED
    BY <1>0, <1>s, <2>1, PullQuiet
<1>9. CASE PressPost \/ PressAlone
  BY <1>0, <1>9, PullPress
<1>10. CASE Dismiss
  <2>1. UNCHANGED <<kind, staged, sends, hub, excused>> /\ sheet' = sheet /\ log' = Append(log, Entry("dismiss", draft))
    BY <1>10 DEF Dismiss
  <2>2. Entry("dismiss", draft).act = "dismiss"
    BY DEF Entry
  <2>3. (Posted' <=> Posted) /\ (Carried' <=> Carried)
    BY <1>0, <2>1, <2>2, OneMore
  <2>. QED
    BY <1>0, <2>1, <2>3, PullQuiet
<1>11. CASE Restore \/ ClearDraft
  BY <1>0, <1>11, PullForgets
<1>12. CASE PeerPosts
  BY <1>0, <1>12, PullPeer
<1>13. CASE Crash
  BY <1>0, <1>13, PullCrash
<1>14. CASE CheckTicket
  BY <1>0, <1>14 DEF CheckTicket, PostingTypes, SendTypes, OfItsKind, PullSend
<1>15. CASE ToggleClose \/ Reopen \/ MoveTicket
  BY <1>0, <1>15 DEF ToggleClose, Reopen, MoveTicket
<1>. QED
  BY <1>1, <1>2, <1>3, <1>4, <1>5, <1>6, <1>7, <1>8, <1>9, <1>10, <1>11, <1>12, <1>13, <1>14, <1>15 DEF Next, Work

-------------------------------------------------------------------------------
(* What has been said on an issue.                                           *)

\* A triage that comes to its comment is counted as if it had said it.
Will == {"check", "labels", "patch", "comment"}
ToSay == {s \in sends : s.step \in Will}
SaidSent == hub.said + Cardinality(ToSay)

\* A triage whose record is still to come, and one that has not failed.
SayOut == \E s \in sends : s.step \in Will \cup {"close", "landed"}
SayUnderWay == \E s \in sends : s.step # "refused"

\* One comment more than is excused needs a record that it went, or a triage that
\* will write one.
SayInv ==
  /\ \A s \in sends : s.step = "comment" => "comment" \in staged
  /\ "comment" \notin staged => hub.said = 0
  /\ "comment" \in staged =>
       /\ SaidSent <= excused + 1
       /\ ~Posted /\ ~SayOut => SaidSent <= excused
       /\ sheet # "closed" /\ Posted /\ ~SayUnderWay => SaidSent <= excused

\* These are numbers.
LEMMA SayTypes ==
  ASSUME PostingTypes
  PROVE  /\ IsFiniteSet(ToSay) /\ Cardinality(ToSay) \in Nat
         /\ hub.said \in Nat /\ excused \in Nat /\ SaidSent \in Nat
<1>1. IsFiniteSet(ToSay)
  BY FS_Subset DEF ToSay, PostingTypes, SendTypes
<1>2. Cardinality(ToSay) \in Nat
  BY <1>1, FS_CardinalityType
<1>3. hub.said \in Nat /\ excused \in Nat
  BY DEF PostingTypes, OtherTypes, Hub
<1>. QED
  BY <1>1, <1>2, <1>3 DEF SaidSent

\* Where the chain goes before the comment, and after it.
LEMMA SayNext ==
  ASSUME NEW d \in 0..4, NEW s
  PROVE  /\ After(d, s) = "comment" => "comment" \in staged
         /\ "comment" \in staged /\ d < 3 => After(d, s) \in Will
         /\ "comment" \in staged /\ d >= 3 => After(d, s) \in {"close", "landed"}
<1>0. Chain[1] = "labels" /\ Chain[2] = "patch" /\ Chain[3] = "comment" /\ Chain[4] = "close"
  BY DEF Chain
<1>1. After(d, s) = "landed" \/ \E k \in 1..4 : k > d /\ After(d, s) = Chain[k] /\ Applies(Chain[k], s)
  BY AfterIs
<1>2. Applies("comment", s) <=> "comment" \in staged
  BY DEF Applies
<1>3. After(d, s) = "comment" => "comment" \in staged
  <2>1. ASSUME After(d, s) = "comment" PROVE Applies("comment", s)
    BY <1>0, <1>1, <2>1
  <2>. QED
    BY <1>2, <2>1
<1>4. ASSUME "comment" \in staged, d < 3 PROVE After(d, s) \in Will
  <2>1. PICK k \in (d + 1)..3 : After(d, s) = Chain[k]
    BY <1>0, <1>2, <1>4, AfterIs
  <2>2. k \in {1, 2, 3}
    BY <2>1
  <2>. QED
    BY <1>0, <2>1, <2>2 DEF Will
<1>5. ASSUME d >= 3 PROVE After(d, s) \in {"close", "landed"}
  <2>1. \A k \in 1..4 : k > d => k = 4
    BY <1>5
  <2>. QED
    BY <1>0, <1>1, <2>1
<1>. QED
  BY <1>3, <1>4, <1>5

\* What follows a call, likewise.
LEMMA SayFollowing ==
  ASSUME NEW s, s.what = "triage", s.step \in Links
  PROVE  /\ Following(s) = "comment" => "comment" \in staged
         /\ "comment" \in staged /\ s.step \in {"labels", "patch"} => Following(s) \in Will
         /\ "comment" \in staged /\ s.step \in {"comment", "close"} => Following(s) \in {"close", "landed"}
<1>. DEFINE d == CHOOSE n \in DOMAIN Chain : Chain[n] = s.step
<1>0. Chain[1] = "labels" /\ Chain[2] = "patch" /\ Chain[3] = "comment" /\ Chain[4] = "close" /\ DOMAIN Chain = 1..4
  BY DEF Chain
<1>1. d \in 1..4 /\ Chain[d] = s.step
  <2>1. \E n \in DOMAIN Chain : Chain[n] = s.step
    BY DEF Links, Chain
  <2>2. d \in DOMAIN Chain /\ Chain[d] = s.step
    BY <2>1
  <2>. QED
    BY <1>0, <2>2
<1>2. Following(s) = After(d, s)
  BY DEF Following
<1>. HIDE DEF d
<1>3. d \in {1, 2, 3, 4}
  BY <1>1
<1>4. /\ s.step \in {"labels", "patch"} => d < 3
      /\ s.step \in {"comment", "close"} => d >= 3
  BY <1>0, <1>1, <1>3
<1>5. d \in 0..4
  BY <1>3
<1>. QED
  BY <1>2, <1>4, <1>5, SayNext

\* A triage that is gone, or past its comment, will not say it any more; one that
\* still comes to it is counted once.
LEMMA SayMoves ==
  ASSUME PostingTypes, NEW s \in sends, NEW t, sends' = sends \ {s} \/ sends' = (sends \ {s}) \cup {t}
  PROVE  /\ Cardinality(ToSay') \in Nat
         /\ Cardinality(ToSay') <= Cardinality(ToSay) + (IF t.step \in Will THEN 1 ELSE 0) - (IF s.step \in Will THEN 1 ELSE 0)
         /\ sends' = sends \ {s} => Cardinality(ToSay') = Cardinality(ToSay) - (IF s.step \in Will THEN 1 ELSE 0)
<1>. DEFINE rest == ToSay \ {s}
<1>0. IsFiniteSet(ToSay) /\ Cardinality(ToSay) \in Nat
  BY SayTypes
<1>1. s \in ToSay <=> s.step \in Will
  BY DEF ToSay
<1>2. IsFiniteSet(rest) /\ Cardinality(rest) = IF s \in ToSay THEN Cardinality(ToSay) - 1 ELSE Cardinality(ToSay)
  BY <1>0, FS_RemoveElement, Zenon
<1>3. Cardinality(rest) \in Nat
  BY <1>2, FS_CardinalityType
<1>4. ToSay' = rest \/ (t.step \in Will /\ ToSay' = rest \cup {t})
  BY DEF ToSay
<1>5. sends' = sends \ {s} => ToSay' = rest
  BY DEF ToSay
<1>. HIDE DEF rest
<1>6. Cardinality(rest \cup {t}) = IF t \in rest THEN Cardinality(rest) ELSE Cardinality(rest) + 1
  BY <1>2, FS_AddElement, Zenon
<1>. QED
  <2>1. Cardinality(rest) = Cardinality(ToSay) - (IF s.step \in Will THEN 1 ELSE 0)
    BY <1>0, <1>1, <1>2
  <2>2. Cardinality(ToSay') \in Nat /\ Cardinality(ToSay') <= Cardinality(rest) + (IF t.step \in Will THEN 1 ELSE 0)
    <3>1. CASE ToSay' = rest
      <4>1. Cardinality(ToSay') = Cardinality(rest)
        BY <3>1
      <4>. QED
        BY <1>3, <4>1
    <3>2. CASE t.step \in Will /\ ToSay' = rest \cup {t}
      <4>1. Cardinality(ToSay') = Cardinality(rest \cup {t})
        BY <3>2
      <4>. QED
        BY <1>3, <1>6, <3>2, <4>1
    <3>. QED
      BY <1>4, <3>1, <3>2
  <2>3. sends' = sends \ {s} => Cardinality(ToSay') = Cardinality(rest)
    BY <1>5
  <2>. HIDE DEF ToSay
  <2>. QED
    BY <1>0, <1>3, <2>1, <2>2, <2>3

\* A step that sends nothing and forgets nothing leaves it as it is.
LEMMA SayQuiet ==
  ASSUME SayInv, UNCHANGED <<staged, sends, excused>>, hub'.said = hub.said, Posted' <=> Posted,
         sheet' \in {sheet, "closed"} \/ (Posted => SayUnderWay)
  PROVE  SayInv'
<1>1. ToSay' = ToSay /\ (SayOut' <=> SayOut) /\ (SayUnderWay' <=> SayUnderWay)
  BY DEF ToSay, SayOut, SayUnderWay
<1>2. SaidSent' = SaidSent
  BY <1>1 DEF SaidSent
<1>. QED
  BY <1>1, <1>2 DEF SayInv

\* The other triages are out, and under way, as before.
LEMMA SayOthers ==
  ASSUME NEW s \in sends, sends \ {s} \subseteq sends'
  PROVE  /\ SayOut => SayOut' \/ s.step \in Will \cup {"close", "landed"}
         /\ SayUnderWay => SayUnderWay' \/ s.step # "refused"
BY DEF SayOut, SayUnderWay

\* A triage that goes on, with the comment said if it was there.
LEMMA SayGoesOn ==
  ASSUME PostingTypes, SayInv, UNCHANGED <<staged, excused>>, Posted' <=> Posted, sheet' \in {sheet, "closed"},
         NEW s \in sends, NEW t, sends' = (sends \ {s}) \cup {t}, s.step \in Will \cup {"close"},
         t.step \in Will \cup {"close", "landed"}, t.step = "comment" => "comment" \in staged,
         hub'.said = hub.said + (IF s.step = "comment" THEN 1 ELSE 0),
         "comment" \in staged => /\ s.step \in {"comment", "close"} => t.step \notin Will
                                 /\ s.step \in {"check", "labels", "patch"} => t.step \in Will
  PROVE  SayInv'
<1>0. hub.said \in Nat /\ excused \in Nat /\ SaidSent \in Nat /\ Cardinality(ToSay) \in Nat
  BY SayTypes
<1>1. \A u \in sends' : u.step = "comment" => "comment" \in staged'
  BY DEF SayInv
<1>2. "comment" \notin staged => hub'.said = 0
  BY <1>0 DEF SayInv
<1>3. ASSUME "comment" \in staged PROVE SaidSent' <= SaidSent
  <2>1. /\ Cardinality(ToSay') \in Nat
        /\ Cardinality(ToSay') <= Cardinality(ToSay) + (IF t.step \in Will THEN 1 ELSE 0) - (IF s.step \in Will THEN 1 ELSE 0)
    BY SayMoves
  <2>2. s.step \in {"check", "labels", "patch", "comment", "close"}
    BY DEF Will
  <2>3. CASE s.step = "comment"
    <3>1. s.step \in Will /\ t.step \notin Will
      BY <1>3, <2>3 DEF Will
    <3>2. hub'.said = hub.said + 1
      BY <2>3
    <3>. QED
      BY <1>0, <2>1, <3>1, <3>2 DEF SaidSent
  <2>4. CASE s.step # "comment"
    <3>1. t.step \in Will => s.step \in Will
      BY <1>3, <2>2, <2>4 DEF Will
    <3>2. hub'.said = hub.said
      BY <1>0, <2>4
    <3>. QED
      BY <1>0, <2>1, <3>1, <3>2 DEF SaidSent
  <2>. QED
    BY <2>3, <2>4
<1>4. SayOut' /\ SayUnderWay'
  <2>1. t \in sends'
    OBVIOUS
  <2>2. t.step # "refused"
    BY DEF Will
  <2>. QED
    BY <2>1, <2>2 DEF SayOut, SayUnderWay
<1>5. ASSUME "comment" \in staged PROVE SaidSent' <= excused' + 1
  <2>1. SaidSent' \in Int
    <3>1. Cardinality(ToSay') \in Nat
      BY SayMoves
    <3>2. hub'.said \in Nat
      BY <1>0
    <3>. QED
      BY <3>1, <3>2 DEF SaidSent
  <2>. QED
    BY <1>0, <1>3, <1>5, <2>1 DEF SayInv
<1>. QED
  BY <1>1, <1>2, <1>4, <1>5 DEF SayInv

\* A triage that fails, or gives way to a ticket that moved: what it may have said
\* without a record is excused.
LEMMA SayFails ==
  ASSUME PostingTypes, SayInv, UNCHANGED <<staged, log>>, sheet' \in {sheet, "closed"},
         NEW s \in sends, NEW t, t.step = "refused", sends' = sends \ {s} \/ sends' = (sends \ {s}) \cup {t},
         NEW landed \in BOOLEAN,
         s.step \in Will \cup {"close"},
         hub'.said = hub.said + (IF landed /\ s.step = "comment" THEN 1 ELSE 0),
         "comment" \in staged =>
           excused' = excused + (IF s.step = "close" \/ (landed /\ s.step \notin {"check", "labels", "patch"}) THEN 1 ELSE 0)
  PROVE  SayInv'
<1>0. hub.said \in Nat /\ excused \in Nat /\ SaidSent \in Nat /\ Cardinality(ToSay) \in Nat
  BY SayTypes
<1>1. \A u \in sends' : u.step = "comment" => "comment" \in staged'
  BY DEF SayInv
<1>2. "comment" \notin staged => hub'.said = 0
  BY <1>0 DEF SayInv
<1>3. ASSUME "comment" \in staged PROVE SaidSent' <= excused'
  <2>0. t.step \notin Will
    BY DEF Will
  <2>1. /\ Cardinality(ToSay') \in Nat
        /\ Cardinality(ToSay') <= Cardinality(ToSay) - (IF s.step \in Will THEN 1 ELSE 0)
    BY <1>0, <2>0, SayMoves
  <2>2. SaidSent <= excused + 1
    BY <1>3 DEF SayInv
  <2>3. CASE s.step = "close"
    <3>1. excused' = excused + 1 /\ hub'.said = hub.said /\ s.step \notin Will
      BY <1>0, <1>3, <2>3 DEF Will
    <3>. QED
      BY <1>0, <2>1, <2>2, <3>1 DEF SaidSent
  <2>4. CASE s.step = "comment" /\ landed
    <3>1. excused' = excused + 1 /\ hub'.said = hub.said + 1 /\ s.step \in Will
      BY <1>0, <1>3, <2>4 DEF Will
    <3>. QED
      BY <1>0, <2>1, <2>2, <3>1 DEF SaidSent
  <2>5. CASE s.step # "close" /\ ~(s.step = "comment" /\ landed)
    <3>1. s.step \in Will
      BY <2>5
    <3>2. s.step \notin {"check", "labels", "patch"} => ~landed
      BY <2>5, <3>1 DEF Will
    <3>3. excused' = excused /\ hub'.said = hub.said
      BY <1>0, <1>3, <2>5, <3>2
    <3>. QED
      BY <1>0, <2>1, <2>2, <3>1, <3>3 DEF SaidSent
  <2>. QED
    BY <2>3, <2>4, <2>5
<1>4. ASSUME "comment" \in staged PROVE SaidSent' <= excused' + 1
  <2>1. Cardinality(ToSay') \in Nat
    BY SayMoves
  <2>2. SaidSent' \in Nat /\ excused' \in Nat
    BY <1>0, <1>4, <2>1 DEF SaidSent
  <2>3. SaidSent' <= excused'
    BY <1>3, <1>4
  <2>4. \A i, j \in Nat : i <= j => i <= j + 1
    OBVIOUS
  <2>. QED
    BY <2>2, <2>3, <2>4, Zenon
<1>. QED
  BY <1>1, <1>2, <1>3, <1>4 DEF SayInv

\* A failure shown, a success, and a record: nothing is said.
LEMMA SayEnds ==
  ASSUME PostingTypes, SayInv, kind = "issue", Fail \/ Finish
  PROVE  SayInv'
<1>. USE DEF fixed, agent, github, history
<1>1. PICK s \in sends : /\ s.step \in {"refused", "recorded"} /\ sends' = sends \ {s}
                         /\ \/ sheet' = "closed"
                            \/ s.step = "refused" /\ (sheet' = sheet \/ (sheet = "sending" /\ sheet' = "open"))
  <2>1. \A s \in sends : s.what = "triage"
    BY DEF PostingTypes, SendTypes, OfItsKind, IssueSend
  <2>. QED
    BY <2>1 DEF Fail, Finish, GivenBack
<1>u. UNCHANGED <<staged, log, hub, excused>>
  BY DEF Fail, Finish
<1>2. ToSay' = ToSay
  BY <1>1 DEF ToSay, Will
<1>3. SaidSent' = SaidSent
  BY <1>2, <1>u DEF SaidSent
<1>4. (Posted' <=> Posted) /\ (SayOut' <=> SayOut)
  BY <1>1, <1>u DEF Posted, SayOut, Will
<1>5. sheet' # "closed" => sheet # "closed" /\ (SayUnderWay => SayUnderWay')
  BY <1>1 DEF SayUnderWay
<1>. QED
  BY <1>1, <1>u, <1>3, <1>4, <1>5 DEF SayInv

LEMMA SayRecord ==
  ASSUME PostingTypes, SayInv, kind = "issue", Record
  PROVE  SayInv'
<1>. USE DEF fixed, agent, github, history
<1>0. log \in Seq(Event)
  BY DEF PostingTypes, LogTypes
<1>1. PICK s \in sends : s.step = "landed" /\ To(s, "recorded") /\ log' = log \o Recording(s)
  BY DEF Record
<1>u. UNCHANGED <<staged, hub, excused, sheet>>
  BY DEF Record
<1>. DEFINE t == [s EXCEPT !.step = "recorded"]
<1>2. t.step = "recorded" /\ sends' = (sends \ {s}) \cup {t}
  <2>1. s \in Send
    BY DEF PostingTypes, SendTypes
  <2>2. sends' = (sends \ {s}) \cup {t}
    BY <1>1 DEF To, Move
  <2>. QED
    BY <2>1, <2>2, StepIs
<1>. HIDE DEF t
<1>3. ToSay' = ToSay
  BY <1>1, <1>2 DEF ToSay, Will
<1>4. SaidSent' = SaidSent
  BY <1>3, <1>u DEF SaidSent
<1>5. Posted'
  <2>0. s.what = "triage"
    BY DEF PostingTypes, SendTypes, OfItsKind, IssueSend
  <2>1. log' = log \o <<Entry("post", s.seen), Entry("dismiss", s.seen)>>
    BY <1>1, <2>0 DEF Recording
  <2>2. Entry("post", s.seen).act = "post" /\ Entry("dismiss", s.seen).act = "dismiss"
    BY DEF Entry
  <2>. QED
    BY <1>0, <2>1, <2>2, TwoMore
<1>6. SayUnderWay'
  <2>1. t \in sends' /\ t.step # "refused"
    BY <1>2
  <2>. QED
    BY <2>1 DEF SayUnderWay
<1>7. \A u \in sends' : u.step = "comment" => "comment" \in staged'
  BY <1>2, <1>u DEF SayInv
<1>. QED
  BY <1>u, <1>4, <1>5, <1>6, <1>7 DEF SayInv

\* A press of the sheet's button.
LEMMA SayPress ==
  ASSUME Bounds, PostingTypes, SayInv, kind = "issue", PressPost
  PROVE  SayInv'
<1>. USE DEF fixed, agent, github, history
<1>1. PICK s : /\ Press(s) /\ s.what = "triage" /\ (s.step = "check" \/ \E v : s.step = After(0, v))
  <2>1. \A step : New("triage", step).what = "triage" /\ New("triage", step).step = step
    BY DEF New
  <2>. QED
    BY <2>1 DEF PressPost
<1>u. UNCHANGED <<staged, log, hub>> /\ sheet # "closed"
  BY DEF PressPost
<1>0. /\ hub.said \in Nat /\ excused \in Nat /\ SaidSent \in Nat
      /\ IsFiniteSet(ToSay) /\ Cardinality(ToSay) \in Nat
  BY SayTypes
<1>2. s.step = "comment" => "comment" \in staged
  BY <1>1, SayNext
<1>3. \A u \in sends' : u.step = "comment" => "comment" \in staged'
  BY <1>1, <1>2, <1>u DEF Press, SayInv
<1>4. CASE "comment" \notin staged
  BY <1>3, <1>4, <1>u DEF SayInv
<1>5. CASE "comment" \in staged
  <2>1. s.step \in Will
    <3>1. \A v : After(0, v) \in Will
      BY <1>5, SayNext
    <3>. QED
      BY <1>1, <3>1 DEF Will
  <2>2. sends' = sends \cup {s} /\ excused' = excused + Repeats(s) /\ Repeats(s) \in Nat
    <3>1. draft # 0
      BY DEF PressPost
    <3>. QED
      BY <1>1, <1>5, <3>1, PressCounts DEF Press, Excuse, Counted
  <2>3. Cardinality(ToSay') <= Cardinality(ToSay) + 1 /\ Cardinality(ToSay') \in Nat
    <3>1. ToSay' = ToSay \cup {s}
      BY <2>1, <2>2 DEF ToSay
    <3>2. Cardinality(ToSay \cup {s}) = IF s \in ToSay THEN Cardinality(ToSay) ELSE Cardinality(ToSay) + 1
      BY <1>0, FS_AddElement, Zenon
    <3>. QED
      BY <1>0, <3>1, <3>2
  <2>4. SaidSent' <= SaidSent + 1 /\ SaidSent' \in Nat
    BY <1>0, <1>u, <2>3 DEF SaidSent
  <2>5. SayOut' /\ SayUnderWay'
    <3>1. s \in sends' /\ s.step # "refused"
      BY <2>1, <2>2 DEF Will
    <3>. QED
      BY <2>1, <3>1 DEF SayOut, SayUnderWay
  <2>6. SaidSent' <= excused' + 1
    <3>1. CASE sends = {}
      <4>1. ~SayOut /\ ~SayUnderWay
        BY <3>1 DEF SayOut, SayUnderWay
      <4>2. SaidSent <= excused
        BY <1>5, <1>u, <4>1 DEF SayInv
      <4>. QED
        BY <1>0, <2>2, <2>4, <4>2
    <3>2. CASE sends # {}
      <4>1. PICK u \in sends : u.what = s.what
        BY <1>1, <3>2 DEF PostingTypes, SendTypes, OfItsKind, IssueSend
      <4>2. Repeats(s) >= 1
        BY <4>1, RepeatsIs
      <4>3. SaidSent <= excused + 1
        BY <1>5 DEF SayInv
      <4>. QED
        BY <1>0, <2>2, <2>4, <4>2, <4>3
    <3>. QED
      BY <3>1, <3>2
  <2>. QED
    BY <1>3, <1>5, <1>u, <2>5, <2>6 DEF SayInv
<1>. QED
  BY <1>4, <1>5

\* A decision taken back: a triage that is forgotten is excused.
LEMMA SayForgets ==
  ASSUME PostingTypes, SayInv, Restore \/ ClearDraft
  PROVE  SayInv'
<1>. USE DEF fixed, agent, github, history
<1>0. log \in Seq(Event) /\ excused \in Nat /\ SaidSent \in Nat
  BY SayTypes DEF PostingTypes, LogTypes
<1>u. UNCHANGED <<staged, sends, hub>> /\ sheet' = sheet
  BY DEF Restore, ClearDraft
<1>1. ~Posted'
  <2>1. Entry("restore", draft).act = "restore" /\ Entry("redraft", draft).act = "redraft"
    BY DEF Entry
  <2>2. CASE Restore
    BY <1>0, <2>1, <2>2, TwoMore DEF Restore
  <2>3. CASE ClearDraft /\ Posted
    BY <1>0, <2>1, <2>3, OneMore DEF ClearDraft
  <2>4. CASE ClearDraft /\ ~Posted
    BY <2>4 DEF ClearDraft, Posted
  <2>. QED
    BY <2>2, <2>3, <2>4
<1>2. "comment" \in staged => excused' = excused + (IF Posted THEN 1 ELSE 0)
  BY DEF Restore, ClearDraft, Excuse, Counted
<1>3. ToSay' = ToSay /\ (SayOut' <=> SayOut)
  BY <1>u DEF ToSay, SayOut
<1>4. SaidSent' = SaidSent
  BY <1>3, <1>u DEF SaidSent
<1>5. ASSUME "comment" \in staged PROVE SaidSent' <= excused' + 1 /\ (~SayOut => SaidSent' <= excused')
  <2>1. CASE Posted
    BY <1>0, <1>2, <1>4, <1>5, <2>1 DEF SayInv
  <2>2. CASE ~Posted
    <3>1. excused' = excused
      BY <1>0, <1>2, <1>5, <2>2
    <3>. QED
      BY <1>4, <1>5, <2>2, <3>1 DEF SayInv
  <2>. QED
    BY <2>1, <2>2
<1>. QED
  BY <1>u, <1>1, <1>3, <1>5 DEF SayInv

\* The page goes away with its sends: what it had not written is excused.
LEMMA SayCrash ==
  ASSUME PostingTypes, SayInv, Crash
  PROVE  SayInv'
<1>. USE DEF fixed, agent, github, history
<1>. DEFINE landed == {s \in sends : s.step \in {"landed", "close"}}
            unwritten == {n \in DOMAIN log \ Kept : log[n].act \in {"post", "sentAlone"}}
<1>0. /\ hub.said \in Nat /\ excused \in Nat /\ SaidSent \in Nat
      /\ Cardinality(ToSay) \in Nat /\ IsFiniteSet(ToSay)
  BY SayTypes
<1>u. UNCHANGED <<staged, hub>> /\ sheet' = "closed" /\ sends' = {}
  BY DEF Crash
<1>1. /\ Cardinality(landed) \in Nat /\ Cardinality(unwritten) \in Nat
      /\ IsFiniteSet(landed) /\ IsFiniteSet(unwritten)
  BY CrashCounts
<1>2. "comment" \in staged => excused' = excused + (Cardinality(landed) + Cardinality(unwritten))
  BY DEF Crash, Excuse, Counted
<1>3. Posted /\ ~Posted' => unwritten # {}
  BY CrashForgets
<1>4. SayOut => landed # {} \/ ToSay # {}
  BY DEF SayOut, ToSay
<1>. HIDE DEF landed, unwritten
<1>5. /\ landed # {} => Cardinality(landed) >= 1
      /\ unwritten # {} => Cardinality(unwritten) >= 1
      /\ ToSay # {} => Cardinality(ToSay) >= 1
  <2>1. \A S : IsFiniteSet(S) /\ Cardinality(S) \in Nat /\ S # {} => Cardinality(S) >= 1
    BY FS_EmptySet
  <2>. QED
    BY <1>0, <1>1, <2>1
<1>6. ToSay' = {} /\ SaidSent' = hub.said
  <2>1. ToSay' = {}
    BY <1>u DEF ToSay
  <2>. QED
    BY <1>0, <1>u, <2>1, FS_EmptySet DEF SaidSent
<1>7. SaidSent = hub.said + Cardinality(ToSay)
  BY DEF SaidSent
<1>8. ASSUME "comment" \in staged PROVE SaidSent' <= excused' + 1
  <2>1. SaidSent <= excused + 1
    BY <1>8 DEF SayInv
  <2>. QED
    BY <1>0, <1>1, <1>2, <1>6, <1>7, <1>8, <2>1
<1>9. ASSUME "comment" \in staged, ~Posted' PROVE SaidSent' <= excused'
  <2>0. SaidSent <= excused + 1
    BY <1>9 DEF SayInv
  <2>1. CASE landed # {} \/ unwritten # {}
    BY <1>0, <1>1, <1>2, <1>5, <1>6, <1>7, <1>9, <2>0, <2>1
  <2>2. CASE landed = {} /\ unwritten = {}
    <3>1. ~Posted
      BY <1>3, <1>9, <2>2
    <3>2. CASE SayOut
      BY <1>0, <1>1, <1>2, <1>4, <1>5, <1>6, <1>7, <1>9, <2>0, <2>2, <3>2
    <3>3. CASE ~SayOut
      <4>1. SaidSent <= excused
        BY <1>9, <3>1, <3>3 DEF SayInv
      <4>. QED
        BY <1>0, <1>1, <1>2, <1>6, <1>7, <1>9, <4>1
    <3>. QED
      BY <3>2, <3>3
  <2>. QED
    BY <2>1, <2>2
<1>. QED
  BY <1>u, <1>8, <1>9 DEF SayInv

\* What is said of an issue after a call, landed or not.
LEMMA SayEffect ==
  ASSUME PostingTypes, NEW s, s.step \in Links, hub' = Effect(s)
  PROVE  hub'.said = hub.said + (IF s.step = "comment" THEN 1 ELSE 0)
<1>0. hub \in Hub
  BY DEF PostingTypes, OtherTypes
<1>1. CASE s.step = "labels"
  BY <1>0, <1>1 DEF Effect, Hub
<1>2. CASE s.step = "patch"
  BY <1>0, <1>2 DEF Effect, Hub
<1>3. CASE s.step = "comment"
  BY <1>0, <1>3 DEF Effect, Hub
<1>4. CASE s.step = "close"
  BY <1>0, <1>4 DEF Effect, Hub
<1>. QED
  BY <1>1, <1>2, <1>3, <1>4 DEF Links

\* Every step keeps count of an issue's comment.
LEMMA SayIssue ==
  ASSUME Bounds, PostingTypes, SayInv, kind = "issue", Next
  PROVE  SayInv'
<1>. USE DEF fixed, agent, github, history
<1>0. staged' = staged /\ log \in Seq(Event) /\ excused \in Nat /\ hub \in Hub /\ sends \subseteq Send
  BY KindStays, SayTypes DEF PostingTypes, LogTypes, OtherTypes, SendTypes
<1>t. \A s \in sends : s.what = "triage" /\ s.step \notin {"review", "alone"}
  BY DEF PostingTypes, SendTypes, OfItsKind, IssueSend
<1>s. ASSUME UNCHANGED log PROVE Posted' <=> Posted
  BY <1>s DEF Posted
<1>1. CASE Keep \/ LoseWrite
  <2>1. UNCHANGED <<staged, sends, hub, excused>> /\ sheet' = sheet
    BY <1>1 DEF Keep, LoseWrite
  <2>. QED
    BY <1>1, <2>1, WrittenSame, SayQuiet
<1>2. CASE CheckTicket
  <2>1. PICK s \in sends :
          /\ s.step = "check"
          /\ \/ sends' = sends \ {s} /\ sheet' = "closed"
             \/ /\ Move(s, [[s EXCEPT !.fresh = hub.body] EXCEPT !.step = After(0, [s EXCEPT !.fresh = hub.body])])
                /\ sheet' = sheet
    BY <1>2 DEF CheckTicket
  <2>2. UNCHANGED <<staged, log, excused>> /\ hub'.said = hub.said
    BY <1>2 DEF CheckTicket
  <2>3. CASE sends' = sends \ {s} /\ sheet' = "closed"
    <3>. DEFINE none == [step |-> "refused"]
    <3>1. none.step = "refused"
      OBVIOUS
    <3>. HIDE DEF none
    <3>2. s.step \in Will \cup {"close"} /\ s.step # "close" /\ s.step # "comment" /\ s.step \in {"check", "labels", "patch"}
      BY <2>1 DEF Will
    <3>3. hub'.said = hub.said + 0 /\ excused' = excused + 0
      BY <1>0, <2>2 DEF Hub
    <3>. QED
      BY <2>2, <2>3, <3>1, <3>2, <3>3, SayFails
  <2>4. CASE /\ Move(s, [[s EXCEPT !.fresh = hub.body] EXCEPT !.step = After(0, [s EXCEPT !.fresh = hub.body])])
             /\ sheet' = sheet
    <3>. DEFINE f == [s EXCEPT !.fresh = hub.body]
                step == After(0, f)
                t == [f EXCEPT !.step = step]
    <3>1. f \in Send
      BY <1>0 DEF Send, Hub
    <3>2. sends' = (sends \ {s}) \cup {t}
      BY <2>4 DEF Move
    <3>. HIDE DEF f
    <3>3. t.step = step
      BY <3>1, StepIs
    <3>4. /\ step \in Links \cup {"landed"} /\ (step = "comment" => "comment" \in staged)
          /\ "comment" \in staged => step \in Will
      BY AfterIs, SayNext
    <3>. HIDE DEF t, step
    <3>5. /\ s.step \in Will \cup {"close"} /\ t.step \in Will \cup {"close", "landed"}
          /\ s.step \notin {"comment", "close"} /\ s.step # "comment"
      BY <2>1, <3>3, <3>4 DEF Will, Links
    <3>6. hub'.said = hub.said + 0
      BY <1>0, <2>2 DEF Hub
    <3>. QED
      BY <1>s, <2>2, <2>4, <3>2, <3>3, <3>4, <3>5, <3>6, SayGoesOn
  <2>. QED
    BY <2>1, <2>3, <2>4
<1>3. CASE Land
  <2>1. PICK s \in sends : s.step \in Calls /\ hub' = Effect(s) /\ To(s, Following(s))
    BY <1>3 DEF Land
  <2>2. UNCHANGED <<staged, log, excused>> /\ sheet' = sheet
    BY <1>3 DEF Land
  <2>3. s.step \in Links /\ s.what = "triage"
    BY <1>t, <2>1 DEF Calls
  <2>. DEFINE step == Following(s)
              t == [s EXCEPT !.step = step]
  <2>4. sends' = (sends \ {s}) \cup {t}
    BY <2>1 DEF To, Move
  <2>5. t.step = step
    BY <1>0, StepIs
  <2>6. /\ step \in Links \cup {"landed"} /\ (step = "comment" => "comment" \in staged)
        /\ "comment" \in staged /\ s.step \in {"labels", "patch"} => step \in Will
        /\ "comment" \in staged /\ s.step \in {"comment", "close"} => step \in {"close", "landed"}
    BY <2>3, FollowingIs, SayFollowing
  <2>. HIDE DEF t, step
  <2>7. s.step \in Will \cup {"close"} /\ t.step \in Will \cup {"close", "landed"} /\ s.step # "check"
    BY <2>3, <2>5, <2>6 DEF Will, Links
  <2>8. hub'.said = hub.said + (IF s.step = "comment" THEN 1 ELSE 0)
    BY <2>1, <2>3, SayEffect
  <2>9. "comment" \in staged => /\ s.step \in {"comment", "close"} => t.step \notin Will
                                /\ s.step \in {"check", "labels", "patch"} => t.step \in Will
    BY <2>5, <2>6, <2>7 DEF Will
  <2>10. t.step = "comment" => "comment" \in staged
    BY <2>5, <2>6
  <2>11. sheet' \in {sheet, "closed"} /\ (Posted' <=> Posted)
    BY <1>s, <2>2
  <2>. QED
    BY <2>2, <2>4, <2>7, <2>8, <2>9, <2>10, <2>11, SayGoesOn
<1>4. CASE LandUnheard \/ Refuse
  <2>1. PICK s \in sends, landed \in BOOLEAN :
          /\ s.step \in Calls \cup {"check"} /\ To(s, "refused") /\ (landed => s.step \in Calls)
          /\ hub' = IF landed THEN Effect(s) ELSE hub
          /\ Excuse(IF landed THEN IF s.step \in {"labels", "patch"} THEN 0 ELSE 1 ELSE IF s.step = "close" THEN 1 ELSE 0)
    <3>1. CASE LandUnheard
      BY <3>1 DEF LandUnheard
    <3>2. CASE Refuse
      BY <3>2 DEF Refuse
    <3>. QED
      BY <1>4, <3>1, <3>2
  <2>2. UNCHANGED <<staged, log>> /\ sheet' = sheet
    BY <1>4 DEF LandUnheard, Refuse
  <2>3. s.step \in Links \cup {"check"} /\ (landed => s.step \in Links)
    BY <1>t, <2>1 DEF Calls
  <2>. DEFINE t == [s EXCEPT !.step = "refused"]
  <2>4. sends' = (sends \ {s}) \cup {t}
    BY <2>1 DEF To, Move
  <2>5. t.step = "refused"
    BY <1>0, StepIs
  <2>. HIDE DEF t
  <2>6. s.step \in Will \cup {"close"}
    BY <2>3 DEF Will, Links
  <2>7. hub'.said = hub.said + (IF landed /\ s.step = "comment" THEN 1 ELSE 0)
    <3>1. CASE landed
      BY <2>1, <2>3, <3>1, SayEffect
    <3>2. CASE ~landed
      BY <1>0, <2>1, <3>2 DEF Hub
    <3>. QED
      BY <3>1, <3>2
  <2>8. "comment" \in staged =>
          excused' = excused + (IF s.step = "close" \/ (landed /\ s.step \notin {"check", "labels", "patch"}) THEN 1 ELSE 0)
    <3>1. landed => s.step # "check"
      BY <2>3 DEF Links
    <3>. QED
      BY <2>1, <3>1 DEF Excuse, Counted
  <2>. QED
    BY <2>2, <2>4, <2>5, <2>6, <2>7, <2>8, SayFails
<1>5. CASE Fail \/ Finish
  BY <1>5, SayEnds
<1>6. CASE Record
  BY <1>6, SayRecord
<1>7. CASE OpenSheet
  <2>1. UNCHANGED <<staged, sends, hub, excused, log>> /\ ~ShownPosted
    BY <1>7 DEF OpenSheet, Offered
  <2>2. Posted => SayUnderWay
    BY <2>1 DEF ShownPosted, SayUnderWay
  <2>. QED
    BY <1>s, <2>1, <2>2, SayQuiet
<1>8. CASE CloseSheet \/ Redraft \/ Reopen
  <2>1. UNCHANGED <<staged, sends, hub, excused, log>> /\ sheet' \in {sheet, "closed"}
    BY <1>8 DEF CloseSheet, Redraft, Reopen
  <2>. QED
    BY <1>s, <2>1, SayQuiet
<1>9. CASE MoveTicket
  <2>1. UNCHANGED <<staged, sends, excused, log>> /\ sheet' = sheet /\ hub' = [hub EXCEPT !.body = moves + 1]
    BY <1>9 DEF MoveTicket
  <2>2. hub'.said = hub.said
    BY <1>0, <2>1 DEF Hub
  <2>. QED
    BY <1>s, <2>1, <2>2, SayQuiet
<1>10. CASE PressPost
  BY <1>10, SayPress
<1>11. CASE PressAlone \/ PeerPosts
  BY <1>11 DEF PressAlone, PeerPosts
<1>12. CASE Dismiss \/ ToggleClose
  <2>1. PICK a : a.act \in {"dismiss", "dropClose", "restoreClose"} /\ log' = Append(log, a)
    <3>1. \A act, seen : Entry(act, seen).act = act
      BY DEF Entry
    <3>2. CASE Dismiss
      BY <3>1, <3>2 DEF Dismiss
    <3>3. CASE ToggleClose
      BY <3>1, <3>3 DEF ToggleClose
    <3>. QED
      BY <1>12, <3>2, <3>3
  <2>2. UNCHANGED <<staged, sends, hub, excused>> /\ sheet' = sheet
    BY <1>12 DEF Dismiss, ToggleClose
  <2>3. Posted' <=> Posted
    BY <1>0, <2>1, OneMore
  <2>. QED
    BY <2>2, <2>3, SayQuiet
<1>13. CASE Restore \/ ClearDraft
  BY <1>13, SayForgets
<1>14. CASE Crash
  BY <1>14, SayCrash
<1>. QED
  BY <1>1, <1>2, <1>3, <1>4, <1>5, <1>6, <1>7, <1>8, <1>9, <1>10, <1>11, <1>12, <1>13, <1>14 DEF Next, Work

\* On a pull request there is nothing to say.
LEMMA SayStep ==
  ASSUME Bounds, PostingTypes, PullInv, PullInv', PostingTypes', SayInv, Next
  PROVE  SayInv'
<1>. USE DEF fixed, agent, github, history
<1>1. CASE kind = "issue"
  BY <1>1, SayIssue
<1>2. CASE kind = "pull"
  <2>0. kind' = "pull" /\ staged' = {} /\ hub \in Hub /\ hub.said = 0
    BY <1>2, KindStays DEF PullInv, PostingTypes, OtherTypes, SayInv
  <2>1. \A s \in sends' : s.step # "comment"
    BY <2>0 DEF PostingTypes, SendTypes, OfItsKind, PullSend
  <2>2. hub'.said = 0
    <3>1. CASE Land \/ LandUnheard
      <4>1. PICK s \in sends : s.step \in Calls /\ hub' = Effect(s)
        BY <3>1 DEF Land, LandUnheard
      <4>2. s.step \in {"review", "alone"}
        BY <1>2, <4>1 DEF PostingTypes, SendTypes, OfItsKind, PullSend, Calls, Links
      <4>3. CASE s.step = "review"
        BY <2>0, <4>1, <4>3 DEF Effect, Hub
      <4>4. CASE s.step = "alone"
        BY <2>0, <4>1, <4>4 DEF Effect, Hub
      <4>. QED
        BY <4>2, <4>3, <4>4
    <3>2. CASE PeerPosts
      BY <2>0, <3>2 DEF PeerPosts, Hub
    <3>3. CASE MoveTicket
      BY <1>2, <3>3 DEF MoveTicket
    <3>4. CASE UNCHANGED hub
      BY <2>0, <3>4
    <3>. QED
      BY <3>1, <3>2, <3>3, <3>4
         DEF Next, Work, Keep, CheckTicket, Fail, Record, Finish, LoseWrite, Refuse, OpenSheet, CloseSheet, PressPost,
             PressAlone, Press, Dismiss, Restore, ClearDraft, ToggleClose, Reopen, Redraft, Crash
  <2>. QED
    BY <2>0, <2>1, <2>2 DEF SayInv
<1>. QED
  BY <1>1, <1>2 DEF PostingTypes, OtherTypes, Kind

-------------------------------------------------------------------------------
(* What a rewrite replaces.                                                  *)

\* What the pane shows, and what every send compares with, was shown.
ShownInv == read \in shown /\ \A s \in sends : s.fresh \in shown

\* It is never anything else: a ticket that moved is shown before it is used.
LEMMA ShownStep ==
  ASSUME Bounds, PostingTypes, ShownInv, Next
  PROVE  ShownInv'
<1>. USE DEF ShownInv
<1>0. sends \subseteq Send
  BY DEF PostingTypes, SendTypes
<1>1. ASSUME UNCHANGED <<read, shown>>, \A t \in sends' : t.fresh \in shown
      PROVE  ShownInv'
  BY <1>1
<1>2. ASSUME UNCHANGED <<read, shown>>, NEW s \in sends, NEW step, To(s, step)
      PROVE  ShownInv'
  <2>0. s \in Send
    BY <1>0
  <2>2. [s EXCEPT !.step = step].fresh = s.fresh
    BY <2>0, StepIs
  <2>1. \A t \in sends' : t \in sends \/ t.fresh = s.fresh
    BY <1>2, <2>2 DEF To, Move
  <2>. QED
    BY <1>1, <1>2, <2>1
<1>3. CASE CheckTicket
  <2>1. PICK s \in sends :
          \/ read' = hub.body /\ shown' = shown \cup {hub.body} /\ sends' = sends \ {s}
          \/ /\ hub.body = read /\ UNCHANGED <<read, shown>>
             /\ Move(s, [[s EXCEPT !.fresh = hub.body] EXCEPT !.step = After(0, [s EXCEPT !.fresh = hub.body])])
    BY <1>3 DEF CheckTicket, Moved
  <2>2. CASE read' = hub.body /\ shown' = shown \cup {hub.body} /\ sends' = sends \ {s}
    BY <2>2
  <2>3. CASE /\ hub.body = read /\ UNCHANGED <<read, shown>>
             /\ Move(s, [[s EXCEPT !.fresh = hub.body] EXCEPT !.step = After(0, [s EXCEPT !.fresh = hub.body])])
    <3>. DEFINE f == [s EXCEPT !.fresh = hub.body]
    <3>1. f \in Send /\ f.fresh = read
      BY <1>0, <2>3 DEF Send, PostingTypes, OtherTypes, Hub
    <3>. HIDE DEF f
    <3>2. \A t \in sends' : t \in sends \/ t.fresh = f.fresh
      <4>1. Move(s, [f EXCEPT !.step = After(0, f)])
        BY <2>3 DEF f
      <4>2. [f EXCEPT !.step = After(0, f)].fresh = f.fresh
        BY <3>1, StepIs
      <4>. QED
        BY <4>1, <4>2 DEF Move
    <3>. QED
      BY <1>1, <2>3, <3>1, <3>2
  <2>. QED
    BY <2>1, <2>2, <2>3
<1>4. CASE Land \/ LandUnheard \/ Refuse \/ Record
  <2>1. PICK s \in sends : \E step : To(s, step)
    BY <1>4 DEF Land, LandUnheard, Refuse, Record
  <2>2. UNCHANGED <<read, shown>>
    BY <1>4 DEF Land, LandUnheard, Refuse, Record, github, history
  <2>. QED
    BY <1>2, <2>1, <2>2
<1>5. CASE PressPost \/ PressAlone
  <2>1. PICK what, step : Press(New(what, step))
    BY <1>5 DEF PressPost, PressAlone
  <2>2. New(what, step).fresh = read
    BY DEF New
  <2>3. UNCHANGED <<read, shown>>
    BY <1>5 DEF PressPost, PressAlone, github
  <2>. QED
    BY <1>1, <2>1, <2>2, <2>3 DEF Press
<1>6. CASE Reopen \/ Crash
  BY <1>6 DEF Reopen, Crash
<1>7. CASE sends' \subseteq sends /\ UNCHANGED <<read, shown>>
  BY <1>1, <1>7
<1>. QED
  BY <1>3, <1>4, <1>5, <1>6, <1>7
     DEF Next, Work, Keep, Fail, Finish, LoseWrite, OpenSheet, CloseSheet, Dismiss, Restore,
         ClearDraft, ToggleClose, Redraft, MoveTicket, PeerPosts, agent, github, history

-------------------------------------------------------------------------------
(* A press and what comes of it.                                             *)

PostingInv == PostingTypes /\ UnseenInv /\ IssueInv /\ PullInv /\ SayInv /\ ShownInv

\* A pull request or an issue that nothing was done about yet.
LEMMA PostingInvInit ==
  ASSUME Bounds, Init
  PROVE  PostingInv
<1>1. kind \in Kind /\ staged \in SUBSET {"labels", "comment", "close"} /\ (kind = "pull" => staged = {})
  BY DEF Init, Kind, Bounds
<1>m. MaxDrafts[kind] \in Nat \ {0}
  BY <1>1 DEF Bounds
<1>2. log \in Seq(Event) /\ \A n \in DOMAIN log : log[n].act = "dismiss" /\ log[n].seen = NoStamp
  <2>1. [act |-> "dismiss", seen |-> NoStamp, disk |-> "kept"] \in Event
    BY <1>m DEF Event, Acts, NoStamp
  <2>. DEFINE e == [act |-> "dismiss", seen |-> NoStamp, disk |-> "kept"]
  <2>2. e.act = "dismiss" /\ e.seen = NoStamp
    OBVIOUS
  <2>3. log = <<>> \/ log = <<e>>
    BY DEF Init
  <2>. HIDE DEF e
  <2>4. e \in Event
    BY <2>1 DEF e
  <2>5. <<>> \in Seq(Event) /\ <<e>> \in Seq(Event)
    BY <2>4
  <2>6. log \in Seq(Event)
    BY <2>3, <2>5, Zenon
  <2>7. \A n \in DOMAIN log : log[n] = e
    BY <2>3
  <2>. QED
    BY <2>2, <2>6, <2>7
<1>3. SendTypes
  BY FS_EmptySet DEF Init, SendTypes
<1>4. hub \in Hub /\ read \in Body
  BY DEF Init, Hub, Body, Bounds
<1>5. OtherTypes
  BY <1>1, <1>4, <1>m DEF Init, OtherTypes, Bounds, Body
<1>6. PostingTypes
  BY <1>2, <1>3, <1>5 DEF PostingTypes, LogTypes
<1>7. UnseenInv
  BY <1>2 DEF Init, UnseenInv
<1>8. IssueInv
  <2>1. hub.reviews = 0 /\ hub.copies = 0 /\ hub.body = 0 /\ ~hub.closed /\ read = 0 /\ sends = {}
    BY DEF Init
  <2>. QED
    BY <1>2, <2>1 DEF IssueInv
<1>9. PullInv
  <2>1. AtReview = {} /\ WithCopy = {}
    BY DEF Init, AtReview, WithCopy
  <2>2. ReviewsSent = 0 /\ CopiesSent = 0
    BY <2>1, FS_EmptySet DEF Init, ReviewsSent, CopiesSent
  <2>. QED
    BY <1>1, <2>2 DEF Init, PullInv
<1>10. ShownInv
  BY DEF Init, ShownInv
<1>11. SayInv
  <2>1. sends = {} /\ hub.said = 0 /\ excused = 0
    BY DEF Init
  <2>2. ToSay = {}
    BY <2>1 DEF ToSay
  <2>3. SaidSent = 0
    BY <2>1, <2>2, FS_EmptySet DEF SaidSent
  <2>. QED
    BY <2>1, <2>3 DEF SayInv
<1>. QED
  BY <1>6, <1>7, <1>8, <1>9, <1>10, <1>11 DEF PostingInv

\* The parts of the invariant, put together.
LEMMA PostingInvStep ==
  ASSUME Bounds, PostingInv, Next
  PROVE  PostingInv'
<1>1. PostingTypes'
  BY SendTypesStep, LogTypesStep, OtherTypesStep DEF PostingInv, PostingTypes
<1>2. PullInv'
  BY <1>1, PullStep DEF PostingInv
<1>3. SayInv'
  BY <1>1, <1>2, SayStep DEF PostingInv
<1>. QED
  BY <1>1, <1>2, <1>3, UnseenStep, IssueStep, ShownStep DEF PostingInv

\* What holds of a send is about its variables alone.
LEMMA PostingInvStutter ==
  ASSUME PostingInv, UNCHANGED vars
  PROVE  PostingInv'
<1>. USE DEF vars, fixed, agent, github, history
<1>1. PostingTypes'
  BY DEF PostingInv, PostingTypes, SendTypes, LogTypes, OtherTypes, OfItsKind, Event, Send, Hub
<1>2. UnseenInv'
  BY DEF PostingInv, UnseenInv
<1>3. IssueInv'
  BY DEF PostingInv, IssueInv, TriageInv, Has
<1>4. PullInv'
  BY PullQuiet DEF PostingInv, Posted, Carried, PullInv
<1>5. ShownInv'
  BY DEF PostingInv, ShownInv
<1>6. SayInv'
  BY SayQuiet DEF PostingInv, Posted
<1>. QED
  BY <1>1, <1>2, <1>3, <1>4, <1>5, <1>6 DEF PostingInv

\* A body that is replaced was shown, unless it changed after it was last looked at.
LEMMA OverwritesShown ==
  ASSUME PostingInv
  PROVE  OverwritesWhatWasRead
BY DEF PostingInv, ShownInv, OverwritesWhatWasRead

\* The invariant says what a send promises.
LEMMA PostingInvMeans ==
  ASSUME PostingInv
  PROVE  TypeOK /\ SendsExplained /\ UnseenReachesReader /\ ClosedWithReason /\ RecordedMeansLanded
<1>. USE DEF PostingInv
<1>1. SendsExplained
  <2>1. ASSUME kind = "pull" PROVE hub.reviews <= 1 + excused /\ hub.copies <= 1 + excused
    BY <2>1, CountTypes DEF PullInv, ReviewsSent, CopiesSent
  <2>2. hub.said <= 1 + excused
    <3>1. CASE "comment" \in staged
      BY <3>1, SayTypes DEF SayInv, SaidSent
    <3>2. CASE "comment" \notin staged
      BY <3>2, SayTypes DEF SayInv
    <3>. QED
      BY <3>1, <3>2
  <2>3. kind \in {"pull", "issue"}
    BY DEF PostingTypes, OtherTypes, Kind
  <2>. QED
    BY <2>1, <2>2, <2>3, IssueMeans DEF SendsExplained
<1>2. kind = "pull" => ClosedWithReason
  BY DEF PullInv, ClosedWithReason
<1>3. kind \in {"pull", "issue"}
  BY DEF PostingTypes, OtherTypes, Kind
<1>. QED
  BY <1>1, <1>2, <1>3, IssueMeans, UnseenMeans, PostingTypesMean

\* An item goes out once for every reason there is to send it, however the
\* reader's presses, decisions and drafts, refusals, lost answers, failed writes,
\* other devices and crashes fall together, and for any numbers of them; an issue
\* is closed only after the comment that says why, and recorded as posted only
\* with everything staged on it; and no draft is off the queue that the reader
\* never decided about (confirm.js, app.js, event-log.js, queries/index.js).
THEOREM SendsAreExplained ==
  ASSUME Bounds
  PROVE  Spec => [](SendsExplained /\ UnseenReachesReader /\ ClosedWithReason /\ RecordedMeansLanded)
<1>1. Init => PostingInv
  BY PostingInvInit
<1>2. PostingInv /\ [Next]_vars => PostingInv'
  BY PostingInvStep, PostingInvStutter
<1>3. PostingInv => SendsExplained /\ UnseenReachesReader /\ ClosedWithReason /\ RecordedMeansLanded
  BY PostingInvMeans
<1>. QED
  BY <1>1, <1>2, <1>3, PTL DEF Spec

\* A rewrite replaces a body the reader was shown, or one that changed after the
\* last look, for any number of moves, presses and faults (confirm.js postTriage's
\* guard).
THEOREM RewritesWhatWasRead ==
  ASSUME Bounds
  PROVE  Spec => NothingUnreadOverwritten
<1>1. Init => PostingInv
  BY PostingInvInit
<1>2. PostingInv /\ [Next]_vars => PostingInv'
  BY PostingInvStep, PostingInvStutter
<1>3. PostingInv => OverwritesWhatWasRead
  BY OverwritesShown
<1>. QED
  BY <1>1, <1>2, <1>3, PTL DEF Spec, NothingUnreadOverwritten
-------------------------------------------------------------------------------
(* Who a review is posted as (Accounts).                                     *)

Opens(c) == call[c].pc \in {"secret", "identify"}
NoBoot == \A c \in Call : call[c].pc # "boot"

\* A call that will set out to open a destination, or leave the open one.
Awaited(c) ==
  \/ call[c].pc \in {"preference", "store"}
  \/ call[c].pc = "forget" /\ call[c].open

NoneAwaited == \A c \in Call : ~Awaited(c)

\* What a call is for.
CallFor(c) ==
  /\ Opens(c) \/ call[c].pc \in {"store", "try", "merge", "forget"} => call[c].of \in Destination
  /\ call[c].pc = "preference" => call[c].of \in Destination \cup {A!None}
  /\ call[c].pc = "forget" => call[c].of \in gone
  /\ call[c].pc \in {"store", "try", "merge"} => call[c].token \in A!Typed
  /\ call[c].pc = "boot" => \A o \in Call \ {c} : call[o].pc = "idle"

\* Unless a destination was removed under a call for it, calls are for ones there are.
CallListed(c) ==
  /\ Opens(c) \/ call[c].pc \in {"store", "try", "merge"} => call[c].of \in listed
  /\ call[c].pc = "preference" => call[c].of \in listed \cup {A!None}

CallsInv ==
  /\ call = [c \in Call |-> call[c]]
  /\ \A c \in Call : CallFor(c)
  /\ ~mixed => \A c \in Call : CallListed(c)
  /\ listed \subseteq Destination /\ gone \subseteq Destination \ listed
  /\ token \in [Destination -> A!Token]
  /\ preference \in Destination \cup {A!None}
  /\ destination = A!NoBuilt \/ destination.of \in Destination

\* The one that is opened writes the four fields alone.
OpenedBy(c) ==
  /\ call[c].of = destinationId /\ login = A!None /\ ~problem
  /\ call[c].pc = "secret" => destination = A!NoBuilt
  /\ call[c].pc = "identify" => destination = [of |-> call[c].of, token |-> call[c].token]

OpeningInv ==
  ~overlapped =>
    /\ \A c, o \in Call : Opens(c) /\ Opens(o) => c = o
    /\ \A c \in Call : Opens(c) => OpenedBy(c)
    /\ destination # A!NoBuilt => destination.of = destinationId /\ login \in {A!None, destination.token}
    /\ (\A c \in Call : ~Opens(c)) =>
         IF destination = A!NoBuilt THEN login = A!None /\ (problem <=> destinationId # A!None)
         ELSE ~problem /\ login = destination.token

\* What is opened next is one there is, and so is what is open.
PreferredInv ==
  /\ orphaned => destinationId \in gone \cup {A!None}
  /\ ~mixed /\ ~failed /\ ~orphaned /\ NoBoot => preference \in {destinationId, A!None}
  /\ ~mixed /\ ~failed /\ ~orphaned /\ NoneAwaited =>
       /\ preference \in listed \cup {A!None}
       /\ NoBoot => IF listed = {} THEN destinationId = A!None ELSE destinationId \in listed
  /\ ~mixed /\ ~failed /\ ~orphaned /\ ~overlapped /\ NoneAwaited /\ NoBoot /\ destination # A!NoBuilt =>
       token[destinationId] = destination.token

AccountsInv == CallsInv /\ OpeningInv /\ PreferredInv /\ A!TokensForgotten

\* Once the app has started the destination to open is one there is.
LEMMA AccountsInvInit == ASSUME A!Bounds, A!Init PROVE AccountsInv
<1>1. PICK one \in Call : call = [c \in Call |-> IF c = one THEN [pc |-> "boot"] ELSE A!Idle]
  BY DEF A!Init, A!Starting
<1>2. call[one].pc = "boot" /\ \A c \in Call \ {one} : call[c].pc = "idle"
  BY <1>1 DEF A!Idle
<1>3. CallsInv
  BY <1>1, <1>2 DEF A!Init, CallsInv, CallFor, CallListed, Opens
<1>4. OpeningInv
  BY <1>2 DEF A!Init, OpeningInv, Opens
<1>5. PreferredInv
  BY <1>2 DEF A!Init, PreferredInv, NoBoot
<1>6. A!TokensForgotten
  BY DEF A!Init, A!TokensForgotten
<1> QED BY <1>3, <1>4, <1>5, <1>6 DEF AccountsInv

\* Setting where one call is leaves the others where they are.
LEMMA Became ==
  ASSUME CallsInv, NEW c \in Call, NEW to, A!Becomes(c, to)
  PROVE  /\ call' = [o \in Call |-> call'[o]]
         /\ call'[c] = to /\ \A o \in Call : o # c => call'[o] = call[o]
<1>1. /\ call = [o \in Call |-> call[o]] /\ call' = [call EXCEPT ![c] = to]
  BY DEF CallsInv, A!Becomes
<1>2. DOMAIN call = Call
  BY <1>1
<1>3. call' = [o \in Call |-> IF o = c THEN to ELSE call[o]]
  BY <1>1, <1>2
<1> QED BY <1>3

\* An opening that sets out makes what is open one there is, and nothing else is
\* left of the one before.
LEMMA SetsOutStep ==
  ASSUME A!Bounds, AccountsInv, NEW c \in Call, NEW d \in Destination \cup {A!None}, A!SetsOut(c, d),
         call[c].pc # "forget", \A o \in Call : o # c => call[o].pc # "boot",
         listed' = listed, gone' = gone, failed' = failed, mixed' = mixed,
         ~mixed /\ ~failed /\ ~orphaned => d \in listed \cup {A!None},
         preference' \in Destination \cup {A!None}, ~mixed /\ ~failed => preference' \in {d, A!None},
         token' \in [Destination -> A!Token],
         ~mixed => \A g \in gone : token'[g] = token[g]
  PROVE  AccountsInv'
<1>1. /\ destination' = A!NoBuilt /\ login' = A!None /\ problem' = FALSE
      /\ overlapped' = (A!Opening(c) # {})
  BY DEF A!SetsOut
<1>2. PICK to : /\ A!Becomes(c, to)
                /\ \/ /\ to.pc = "secret" /\ to.of = destinationId' /\ destinationId' \in listed
                      /\ ~orphaned' /\ (d # A!None => destinationId' = d)
                   \/ to.pc = "idle" /\ destinationId' = A!None /\ A!Found(d) = {} /\ orphaned' = orphaned
  <2>1. CASE \E found \in A!Found(d) :
               /\ destinationId' = found /\ orphaned' = FALSE
               /\ A!Becomes(c, [pc |-> "secret", of |-> found, first |-> A!Is(c, "boot")])
    <3>1. PICK found \in A!Found(d) :
               /\ destinationId' = found /\ orphaned' = FALSE
               /\ A!Becomes(c, [pc |-> "secret", of |-> found, first |-> A!Is(c, "boot")])
      BY <2>1
    <3>2. found \in listed /\ (d # A!None => found = d)
      BY DEF A!Found
    <3> DEFINE to == [pc |-> "secret", of |-> found, first |-> A!Is(c, "boot")]
    <3>3. to.pc = "secret" /\ to.of = found
      OBVIOUS
    <3>4. A!Becomes(c, to)
      BY <3>1
    <3> HIDE DEF to
    <3> QED BY <3>1, <3>2, <3>3, <3>4, Zenon
  <2>2. CASE A!Found(d) = {} /\ destinationId' = A!None /\ A!Becomes(c, A!Idle) /\ orphaned' = orphaned
    <3>1. A!Idle.pc = "idle"
      BY DEF A!Idle
    <3> QED BY <2>2, <3>1, Zenon
  <2> QED BY <2>1, <2>2 DEF A!SetsOut
<1>3. /\ call' = [o \in Call |-> call'[o]]
      /\ call'[c] = to /\ \A o \in Call : o # c => call'[o] = call[o]
  BY <1>2, Became DEF AccountsInv
<1>4. NoBoot'
  BY <1>2, <1>3 DEF NoBoot
<1>5. ~mixed /\ ~failed /\ ~orphaned => d \in listed \cup {A!None} /\ (A!Found(d) = {} => d = A!None /\ listed = {})
  BY A!Bounds DEF A!Found, A!Bounds, AccountsInv, CallsInv, A!None
<1>6. d \in listed => A!Found(d) # {}
  BY A!Bounds DEF A!Found, A!Bounds, AccountsInv, CallsInv, A!None
<1>7. CallsInv'
  <2>1. CallFor(c)'
    BY <1>2, <1>3 DEF CallFor, Opens, AccountsInv, CallsInv
  <2>2. \A o \in Call : o # c => CallFor(o)'
    BY <1>3 DEF CallFor, Opens, AccountsInv, CallsInv
  <2>3. ~mixed => \A o \in Call : CallListed(o)'
    BY <1>2, <1>3 DEF CallListed, Opens, AccountsInv, CallsInv
  <2> QED BY <1>1, <1>3, <2>1, <2>2, <2>3 DEF AccountsInv, CallsInv
<1>8. OpeningInv'
  <2>1. ~overlapped' => \A o \in Call : o # c => ~Opens(o)'
    BY <1>1, <1>3 DEF A!Opening, A!Under, Opens
  <2>2. Opens(c)' => OpenedBy(c)'
    BY <1>1, <1>2, <1>3 DEF Opens, OpenedBy
  <2>3. ~Opens(c)' => destinationId' = A!None
    BY <1>2, <1>3 DEF Opens
  <2> QED BY <1>1, <2>1, <2>2, <2>3 DEF OpeningInv
<1>9. PreferredInv'
  BY <1>1, <1>2, <1>4, <1>5, <1>6 DEF PreferredInv, AccountsInv
<1>10. A!TokensForgotten'
  BY <1>3 DEF A!TokensForgotten, A!Is, AccountsInv
<1> QED BY <1>7, <1>8, <1>9, <1>10 DEF AccountsInv

\* A call that goes a step further without setting out, or ends, and writes at
\* most the token of a destination that is not open.
LEMMA StepOfCall ==
  ASSUME A!Bounds, AccountsInv, NEW c \in Call, NEW to, A!Becomes(c, to),
         call[c].pc # "boot", ~Opens(c), to.pc \notin {"secret", "identify", "boot"},
         to.pc \in {"store", "try", "merge", "forget"} => to.of \in Destination,
         to.pc = "preference" => to.of \in Destination \cup {A!None},
         to.pc = "forget" => to.of \in gone,
         to.pc \in {"store", "try", "merge"} => to.token \in A!Typed,
         to.pc # "idle" => NoBoot,
         ~mixed /\ to.pc \in {"store", "try", "merge"} => to.of \in listed,
         ~mixed /\ to.pc = "preference" => to.of \in listed \cup {A!None},
         listed' = listed, gone' = gone, mixed' = mixed, preference' = preference, orphaned' = orphaned,
         destinationId' = destinationId, destination' = destination, login' = login, problem' = problem,
         overlapped' = overlapped, failed => failed',
         ~failed' => (Awaited(c) => Awaited(c)'),
         ~failed' => (call[c].pc = "forget" => token'[call[c].of] = A!None),
         token' \in [Destination -> A!Token],
         ~mixed => \A g \in gone : token'[g] \in {token[g], A!None},
         ~mixed /\ ~failed' /\ ~overlapped /\ NoneAwaited' /\ destinationId \in Destination =>
            destinationId \in gone \/ token'[destinationId] = token[destinationId]
  PROVE  AccountsInv'
<1>1. /\ call' = [o \in Call |-> call'[o]]
      /\ call'[c] = to /\ \A o \in Call : o # c => call'[o] = call[o]
  BY Became DEF AccountsInv
<1>2. /\ NoBoot' => NoBoot
      /\ NoBoot => NoBoot'
  BY <1>1 DEF NoBoot
<1>3. ~failed' => ~failed /\ (NoneAwaited' => NoneAwaited)
  BY <1>1 DEF NoneAwaited, Awaited
<1>4. \A o \in Call : Opens(o)' <=> Opens(o)
  BY <1>1 DEF Opens
<1>5. CallsInv'
  <2>1. CallFor(c)'
    BY <1>1 DEF CallFor, Opens, NoBoot, AccountsInv, CallsInv
  <2>2. \A o \in Call : o # c => CallFor(o)'
    BY <1>1 DEF CallFor, Opens, NoBoot, AccountsInv, CallsInv
  <2>3. ~mixed => \A o \in Call : CallListed(o)'
    BY <1>1 DEF CallListed, Opens, AccountsInv, CallsInv
  <2> QED BY <1>1, <2>1, <2>2, <2>3 DEF AccountsInv, CallsInv
<1>6. OpeningInv'
  <2>1. \A o \in Call : Opens(o) => OpenedBy(o)' \/ ~OpenedBy(o)
    BY <1>1 DEF OpenedBy, Opens
  <2> QED BY <1>4, <2>1 DEF OpeningInv, AccountsInv
<1>7. PreferredInv'
  <2>1. ~mixed /\ ~failed' /\ ~orphaned /\ ~overlapped /\ NoneAwaited' /\ NoBoot /\ destination # A!NoBuilt =>
          token'[destinationId] = destination.token
    <3>1. SUFFICES ASSUME ~mixed, ~failed', ~orphaned, ~overlapped, NoneAwaited', NoBoot, destination # A!NoBuilt
                   PROVE  token'[destinationId] = destination.token
      OBVIOUS
    <3>2. listed # {} \/ destinationId = A!None
      BY <1>3, <3>1 DEF AccountsInv, PreferredInv
    <3>3. token[destinationId] = destination.token
      BY <1>3, <3>1 DEF AccountsInv, PreferredInv
    <3>4. CASE destinationId \in listed
      BY <3>1, <3>3, <3>4 DEF AccountsInv, CallsInv
    <3>5. destinationId # A!None
      BY <3>1, A!Bounds DEF AccountsInv, OpeningInv, CallsInv, A!Bounds, A!None
    <3> QED BY <1>3, <3>1, <3>2, <3>4, <3>5 DEF AccountsInv, PreferredInv
  <2> QED BY <1>2, <1>3, <2>1 DEF AccountsInv, PreferredInv
<1>8. A!TokensForgotten'
  <2>1. SUFFICES ASSUME NEW g \in gone, ~failed', ~mixed
                 PROVE  token'[g] = A!None \/ \E o \in Call : A!Is(o, "forget")' /\ call'[o].of = g
    BY DEF A!TokensForgotten
  <2>2. token[g] = A!None \/ \E o \in Call : A!Is(o, "forget") /\ call[o].of = g
    BY <1>3, <2>1 DEF AccountsInv, A!TokensForgotten
  <2> QED BY <1>1, <2>1, <2>2 DEF A!Is
<1> QED BY <1>5, <1>6, <1>7, <1>8 DEF AccountsInv

\* A call under way is not the start's, and a start is under way alone.
LEMMA UnderWay ==
  ASSUME CallsInv, NEW c \in Call, call[c].pc \notin {"idle", "boot"}
  PROVE  NoBoot
BY DEF CallsInv, CallFor, NoBoot

\* What a step does that ends in an opening.
LEMMA OpeningSteps ==
  ASSUME A!Bounds, AccountsInv, NEW c \in Call,
         \/ A!Boot(c) \/ A!Prefer(c) \/ (A!Merge(c) /\ A!Reopens(call[c].of))
         \/ \E d \in Destination : A!Rename(c, d)
  PROVE  AccountsInv'
<1> USE DEF A!bounds
<1>1. CASE A!Boot(c)
  <2>1. call[c].pc = "boot" /\ \A o \in Call : o # c => call[o].pc = "idle"
    BY <1>1 DEF A!Boot, A!Is, AccountsInv, CallsInv, CallFor
  <2>2. NoneAwaited
    BY <2>1 DEF NoneAwaited, Awaited
  <2>3. ~mixed /\ ~failed /\ ~orphaned => preference \in listed \cup {A!None}
    BY <2>2 DEF AccountsInv, PreferredInv
  <2> QED BY <1>1, <2>1, <2>3, SetsOutStep DEF A!Boot, AccountsInv, CallsInv
<1>2. CASE A!Prefer(c)
  <2>1. call[c].pc = "preference" /\ call[c].of \in Destination \cup {A!None} /\ NoBoot
    BY <1>2, UnderWay DEF A!Prefer, A!Is, AccountsInv, CallsInv, CallFor
  <2>2. ~mixed => call[c].of \in listed \cup {A!None}
    BY <2>1 DEF AccountsInv, CallsInv, CallListed
  <2> QED BY <1>2, <2>1, <2>2, SetsOutStep DEF A!Prefer, AccountsInv, CallsInv, NoBoot
<1>3. CASE A!Merge(c) /\ A!Reopens(call[c].of)
  <2> DEFINE d == call[c].of
  <2>1. call[c].pc = "merge" /\ d \in Destination /\ NoBoot /\ call[c].token \in A!Typed
    BY <1>3, UnderWay DEF A!Merge, A!Is, AccountsInv, CallsInv, CallFor
  <2>2. ~mixed => d \in listed
    BY <2>1 DEF AccountsInv, CallsInv, CallListed
  <2>3. destinationId = d
    BY <1>3 DEF A!Reopens
  <2>4. ~mixed => ~orphaned
    BY <2>1, <2>2, <2>3, A!Bounds DEF AccountsInv, PreferredInv, CallsInv, A!Bounds, A!None
  <2>5. ~mixed /\ ~failed => preference \in {d, A!None}
    BY <2>1, <2>3, <2>4 DEF AccountsInv, PreferredInv
  <2>6. /\ token' = [token EXCEPT ![d] = call[c].token] /\ A!SetsOut(c, d)
        /\ listed' = listed /\ gone' = gone /\ preference' = preference /\ failed' = failed /\ mixed' = mixed
    BY <1>3 DEF A!Merge
  <2>7. token' \in [Destination -> A!Token] /\ (~mixed => \A g \in gone : token'[g] = token[g])
    BY <2>1, <2>2, <2>6 DEF AccountsInv, CallsInv, A!Typed
  <2> HIDE DEF d
  <2>8. preference' \in Destination \cup {A!None}
    BY <2>6 DEF AccountsInv, CallsInv
  <2> QED BY <2>1, <2>2, <2>5, <2>6, <2>7, <2>8, SetsOutStep DEF NoBoot
<1>4. ASSUME NEW d \in Destination, A!Rename(c, d) PROVE AccountsInv'
  <2>1. call[c].pc = "idle" /\ d \in listed /\ destinationId = d /\ A!SetsOut(c, d) /\ NoBoot
    BY <1>4 DEF A!Rename, A!Reopens, A!Booting, A!Is, NoBoot
  <2>2. ~orphaned
    BY <2>1, A!Bounds DEF AccountsInv, PreferredInv, CallsInv, A!Bounds, A!None
  <2>3. ~mixed /\ ~failed => preference \in {d, A!None}
    BY <2>1, <2>2 DEF AccountsInv, PreferredInv
  <2>4. /\ listed' = listed /\ gone' = gone /\ preference' = preference /\ failed' = failed /\ mixed' = mixed
        /\ token' = token
    BY <1>4 DEF A!Rename
  <2> QED BY <2>1, <2>3, <2>4, SetsOutStep DEF AccountsInv, CallsInv, NoBoot
<1> QED BY <1>1, <1>2, <1>3, <1>4

\* What a call does on its way there, and what the reader asks of the ones there are.
LEMMA CallSteps ==
  ASSUME A!Bounds, AccountsInv, NEW c \in Call,
         \/ A!Store(c) \/ A!Try(c) \/ (A!Merge(c) /\ ~A!Reopens(call[c].of)) \/ A!Forget(c) \/ A!Fail(c)
         \/ \E d \in Destination : A!Switch(c, d) \/ \E t \in A!Typed : A!Edit(c, d, t)
  PROVE  AccountsInv'
<1> USE DEF A!bounds, A!memory, A!history
<1> DEFINE k == call[c]
<1>1. CASE A!Store(c)
  <2> DEFINE to == [pc |-> "preference", of |-> k.of]
  <2>1. k.pc = "store" /\ k.of \in Destination /\ NoBoot /\ k.token \in A!Typed /\ (~mixed => k.of \in listed)
    BY <1>1, UnderWay DEF A!Store, A!Is, AccountsInv, CallsInv, CallFor, CallListed
  <2>2. to.pc = "preference" /\ to.of = k.of
    OBVIOUS
  <2>3. /\ token' = [token EXCEPT ![k.of] = k.token] /\ A!Becomes(c, to)
        /\ listed' = listed /\ gone' = gone /\ preference' = preference /\ failed' = failed /\ mixed' = mixed
        /\ destinationId' = destinationId /\ destination' = destination /\ login' = login /\ problem' = problem
        /\ overlapped' = overlapped /\ orphaned' = orphaned
    BY <1>1 DEF A!Store
  <2> HIDE DEF to
  <2>4. token' \in [Destination -> A!Token] /\ (~mixed => \A g \in gone : token'[g] = token[g])
    BY <2>1, <2>3 DEF AccountsInv, CallsInv, A!Typed
  <2>5. Awaited(c)' /\ ~NoneAwaited'
    BY <2>2, <2>3, Became DEF Awaited, NoneAwaited, AccountsInv
  <2> QED BY <2>1, <2>2, <2>3, <2>4, <2>5, StepOfCall DEF Opens
<1>2. CASE A!Try(c)
  <2> DEFINE to == IF k.token \in Account THEN [k EXCEPT !.pc = "merge"] ELSE A!Idle
  <2>1. k.pc = "try" /\ k.of \in Destination /\ NoBoot /\ k.token \in A!Typed /\ (~mixed => k.of \in listed)
    BY <1>2, UnderWay DEF A!Try, A!Is, AccountsInv, CallsInv, CallFor, CallListed
  <2>2. to.pc = "idle" \/ (to.pc = "merge" /\ to.of = k.of /\ to.token = k.token)
    BY <2>1 DEF A!Idle
  <2>3. /\ A!Becomes(c, to) /\ token' = token
        /\ listed' = listed /\ gone' = gone /\ preference' = preference /\ failed' = failed /\ mixed' = mixed
        /\ destinationId' = destinationId /\ destination' = destination /\ login' = login /\ problem' = problem
        /\ overlapped' = overlapped /\ orphaned' = orphaned
    BY <1>2 DEF A!Try
  <2> HIDE DEF to
  <2>4. ~Awaited(c)
    BY <2>1 DEF Awaited
  <2> QED BY <2>1, <2>2, <2>3, <2>4, StepOfCall DEF Opens, AccountsInv, CallsInv
<1>3. CASE A!Merge(c) /\ ~A!Reopens(k.of)
  <2>1. k.pc = "merge" /\ k.of \in Destination /\ NoBoot /\ k.token \in A!Typed /\ (~mixed => k.of \in listed)
    BY <1>3, UnderWay DEF A!Merge, A!Is, AccountsInv, CallsInv, CallFor, CallListed
  <2>2. A!Idle.pc = "idle" /\ destinationId # k.of
    BY <1>3 DEF A!Idle, A!Reopens
  <2>3. /\ token' = [token EXCEPT ![k.of] = k.token] /\ A!Becomes(c, A!Idle)
        /\ listed' = listed /\ gone' = gone /\ preference' = preference /\ failed' = failed /\ mixed' = mixed
        /\ destinationId' = destinationId /\ destination' = destination /\ login' = login /\ problem' = problem
        /\ overlapped' = overlapped /\ orphaned' = orphaned
    BY <1>3 DEF A!Merge
  <2>4. /\ token' \in [Destination -> A!Token] /\ (~mixed => \A g \in gone : token'[g] = token[g])
        /\ destinationId \in Destination => token'[destinationId] = token[destinationId]
    BY <2>1, <2>2, <2>3 DEF AccountsInv, CallsInv, A!Typed
  <2>5. ~Awaited(c)
    BY <2>1 DEF Awaited
  <2> QED BY <2>1, <2>2, <2>3, <2>4, <2>5, StepOfCall DEF Opens
<1>4. CASE A!Forget(c)
  <2>1. k.pc = "forget" /\ k.of \in Destination /\ k.of \in gone /\ NoBoot
    BY <1>4, UnderWay DEF A!Forget, A!Is, AccountsInv, CallsInv, CallFor
  <2>2. /\ token' = [token EXCEPT ![k.of] = A!None]
        /\ listed' = listed /\ gone' = gone /\ preference' = preference /\ failed' = failed /\ mixed' = mixed
        /\ destinationId' = destinationId /\ destination' = destination /\ login' = login /\ problem' = problem
        /\ overlapped' = overlapped /\ orphaned' = orphaned
    BY <1>4 DEF A!Forget
  <2>3. /\ token' \in [Destination -> A!Token] /\ token'[k.of] = A!None
        /\ \A g \in gone : token'[g] \in {token[g], A!None}
        /\ destinationId \in Destination => destinationId \in gone \/ token'[destinationId] = token[destinationId]
    BY <2>1, <2>2 DEF AccountsInv, CallsInv, A!Token
  <2>4. CASE ~k.open /\ A!Becomes(c, A!Idle)
    <3>1. A!Idle.pc = "idle" /\ ~Awaited(c)
      BY <2>1, <2>4 DEF A!Idle, Awaited
    <3> QED BY <2>1, <2>2, <2>3, <2>4, <3>1, StepOfCall DEF Opens
  <2>5. ASSUME NEW next \in listed \cup {A!None}, A!Becomes(c, [pc |-> "preference", of |-> next])
        PROVE  AccountsInv'
    <3> DEFINE to == [pc |-> "preference", of |-> next]
    <3>1. to.pc = "preference" /\ to.of = next /\ A!Becomes(c, to) /\ next \in Destination \cup {A!None}
      BY <2>5 DEF AccountsInv, CallsInv
    <3> HIDE DEF to
    <3>2. Awaited(c)'
      BY <3>1, Became DEF Awaited, AccountsInv
    <3> QED BY <2>1, <2>2, <2>3, <3>1, <3>2, StepOfCall DEF Opens
  <2> QED BY <1>4, <2>4, <2>5 DEF A!Forget
<1>5. CASE A!Fail(c)
  <2>1. k.pc \in {"preference", "store", "try", "merge", "forget"} /\ NoBoot
    BY <1>5, UnderWay DEF A!Fail, AccountsInv
  <2>2. /\ failed' = (failed \/ k.pc # "try") /\ A!Becomes(c, A!Idle) /\ token' = token
        /\ listed' = listed /\ gone' = gone /\ preference' = preference /\ mixed' = mixed
        /\ destinationId' = destinationId /\ destination' = destination /\ login' = login /\ problem' = problem
        /\ overlapped' = overlapped /\ orphaned' = orphaned
    BY <1>5 DEF A!Fail
  <2>3. A!Idle.pc = "idle" /\ (~failed' => k.pc = "try" /\ ~Awaited(c))
    BY <2>2 DEF A!Idle, Awaited
  <2> QED BY <2>1, <2>2, <2>3, StepOfCall DEF Opens, AccountsInv, CallsInv
<1>6. ASSUME NEW d \in Destination, NEW to, A!Starts(c, to), d \in listed, to.of = d,
             to.pc = "preference" \/ (to.pc = "try" /\ to.token \in A!Typed),
             UNCHANGED <<listed, gone, token, preference, A!memory, falters, A!history>>
      PROVE  AccountsInv'
  <2>1. k.pc = "idle" /\ NoBoot /\ A!Becomes(c, to)
    BY <1>6 DEF A!Starts, A!Booting, A!Is, NoBoot
  <2>2. ~Awaited(c)
    BY <2>1 DEF Awaited
  <2> QED BY <1>6, <2>1, <2>2, StepOfCall DEF Opens, AccountsInv, CallsInv
<1>7. ASSUME NEW d \in Destination, A!Switch(c, d) PROVE AccountsInv'
  <2> DEFINE to == [pc |-> "preference", of |-> d]
  <2>1. to.of = d /\ to.pc = "preference" /\ A!Starts(c, to)
    BY <1>7 DEF A!Switch
  <2> HIDE DEF to
  <2> QED BY <1>6, <1>7, <2>1 DEF A!Switch
<1>8. ASSUME NEW d \in Destination, NEW t \in A!Typed, A!Edit(c, d, t) PROVE AccountsInv'
  <2> DEFINE to == [pc |-> "try", of |-> d, token |-> t]
  <2>1. to.of = d /\ to.pc = "try" /\ to.token = t /\ A!Starts(c, to)
    BY <1>8 DEF A!Edit
  <2> HIDE DEF to
  <2> QED BY <1>6, <1>8, <2>1 DEF A!Edit
<1> QED BY <1>1, <1>2, <1>3, <1>4, <1>5, <1>7, <1>8

\* A destination is recorded before its token is kept, so one that failed in
\* between is there without one.
LEMMA AddStep ==
  ASSUME A!Bounds, AccountsInv, NEW c \in Call, NEW d \in Destination, NEW t \in A!Typed, A!Add(c, d, t)
  PROVE  AccountsInv'
<1> DEFINE to == [pc |-> "store", of |-> d, token |-> t]
<1>1. to.pc = "store" /\ to.of = d /\ to.token = t
  OBVIOUS
<1>2. /\ A!Becomes(c, to) /\ call[c].pc = "idle" /\ NoBoot /\ d \notin listed \cup gone /\ listed' = listed \cup {d}
      /\ gone' = gone /\ token' = token /\ preference' = preference /\ failed' = failed /\ mixed' = mixed
      /\ destinationId' = destinationId /\ destination' = destination /\ login' = login /\ problem' = problem
      /\ overlapped' = overlapped /\ orphaned' = orphaned
  BY DEF A!Add, A!Starts, A!Booting, A!Is, NoBoot, A!memory, A!history
<1> HIDE DEF to
<1>3. /\ call' = [o \in Call |-> call'[o]]
      /\ call'[c] = to /\ \A o \in Call : o # c => call'[o] = call[o]
  BY <1>2, Became DEF AccountsInv
<1>4. ~NoneAwaited'
  BY <1>1, <1>3 DEF NoneAwaited, Awaited
<1>5. NoBoot' /\ \A o \in Call : Opens(o)' <=> Opens(o)
  BY <1>1, <1>2, <1>3 DEF NoBoot, Opens
<1>6. CallsInv'
  <2>1. \A o \in Call : CallFor(o)'
    BY <1>1, <1>2, <1>3 DEF CallFor, Opens, NoBoot, AccountsInv, CallsInv
  <2>2. ~mixed => \A o \in Call : CallListed(o)'
    BY <1>1, <1>2, <1>3 DEF CallListed, Opens, AccountsInv, CallsInv
  <2> QED BY <1>2, <1>3, <2>1, <2>2 DEF AccountsInv, CallsInv
<1>7. OpeningInv'
  <2>1. \A o \in Call : Opens(o) => (OpenedBy(o)' <=> OpenedBy(o))
    BY <1>1, <1>2, <1>3 DEF OpenedBy, Opens
  <2> QED BY <1>2, <1>5, <2>1 DEF OpeningInv, AccountsInv
<1>8. PreferredInv'
  BY <1>2, <1>4 DEF PreferredInv, AccountsInv
<1>9. A!TokensForgotten'
  BY <1>2, <1>3 DEF A!TokensForgotten, A!Is, AccountsInv
<1> QED BY <1>6, <1>7, <1>8, <1>9 DEF AccountsInv

\* One is removed at once and its token is forgotten after: if it was open, the
\* next is opened once that is done.
LEMMA RemoveStep ==
  ASSUME A!Bounds, AccountsInv, NEW c \in Call, NEW d \in Destination, A!Remove(c, d)
  PROVE  AccountsInv'
<1> DEFINE to == [pc |-> "forget", of |-> d, open |-> A!WasOpen(d)]
<1>1. to.pc = "forget" /\ to.of = d
  OBVIOUS
<1>2. (to.open <=> A!WasOpen(d))
  OBVIOUS
<1>3. /\ A!Becomes(c, to) /\ call[c].pc = "idle" /\ NoBoot /\ d \in listed
      /\ listed' = listed \ {d} /\ gone' = gone \cup {d}
      /\ orphaned' = (orphaned \/ (destinationId = d /\ ~A!WasOpen(d)))
      /\ mixed' = (mixed \/ \E o \in A!Under(c) : call[o].of = d)
      /\ token' = token /\ preference' = preference /\ failed' = failed
      /\ destinationId' = destinationId /\ destination' = destination /\ login' = login /\ problem' = problem
      /\ overlapped' = overlapped
  BY DEF A!Remove, A!Starts, A!Booting, A!Is, NoBoot, A!memory
<1> HIDE DEF to
<1>4. /\ call' = [o \in Call |-> call'[o]]
      /\ call'[c] = to /\ \A o \in Call : o # c => call'[o] = call[o]
  BY <1>3, Became DEF AccountsInv
<1>5. NoBoot' /\ \A o \in Call : Opens(o)' <=> Opens(o)
  BY <1>1, <1>3, <1>4 DEF NoBoot, Opens
<1>6. CallsInv'
  <2>1. \A o \in Call : CallFor(o)'
    BY <1>1, <1>3, <1>4 DEF CallFor, Opens, NoBoot, AccountsInv, CallsInv
  <2>2. ~mixed' => \A o \in Call : CallListed(o)'
    BY <1>1, <1>3, <1>4 DEF CallListed, Opens, A!Under, AccountsInv, CallsInv
  <2> QED BY <1>3, <1>4, <2>1, <2>2 DEF AccountsInv, CallsInv
<1>7. OpeningInv'
  <2>1. \A o \in Call : Opens(o) => (OpenedBy(o)' <=> OpenedBy(o))
    BY <1>1, <1>3, <1>4 DEF OpenedBy, Opens
  <2> QED BY <1>3, <1>5, <2>1 DEF OpeningInv, AccountsInv
<1>8. PreferredInv'
  <2>1. NoneAwaited' => NoneAwaited /\ ~A!WasOpen(d)
    BY <1>1, <1>2, <1>3, <1>4 DEF NoneAwaited, Awaited
  <2>2. NoneAwaited' /\ ~orphaned' => destinationId # d
    BY <1>3, <2>1
  <2>3. orphaned' => destinationId \in gone' \cup {A!None}
    BY <1>3 DEF PreferredInv, AccountsInv
  <2>4. ~mixed' /\ ~failed /\ ~orphaned' => ~mixed /\ ~orphaned
    BY <1>3
  <2>5. ASSUME ~mixed', ~failed, ~orphaned', NoneAwaited'
        PROVE  /\ preference \in listed' \cup {A!None}
               /\ IF listed' = {} THEN destinationId = A!None ELSE destinationId \in listed'
    BY <1>3, <2>1, <2>2, <2>4, <2>5, A!Bounds DEF PreferredInv, AccountsInv, CallsInv, A!Bounds, A!None
  <2> QED BY <1>3, <1>5, <2>1, <2>3, <2>4, <2>5 DEF PreferredInv, AccountsInv
<1>9. A!TokensForgotten'
  <2>1. SUFFICES ASSUME NEW g \in gone', ~failed, ~mixed'
                 PROVE  token[g] = A!None \/ \E o \in Call : A!Is(o, "forget")' /\ call'[o].of = g
    BY <1>3 DEF A!TokensForgotten
  <2>2. CASE g = d
    BY <1>1, <1>4, <2>2 DEF A!Is
  <2>3. CASE g \in gone
    <3>1. token[g] = A!None \/ \E o \in Call : A!Is(o, "forget") /\ call[o].of = g
      BY <1>3, <2>1, <2>3 DEF A!TokensForgotten, AccountsInv
    <3> QED BY <1>3, <1>4, <3>1 DEF A!Is
  <2> QED BY <1>3, <2>2, <2>3
<1> QED BY <1>6, <1>7, <1>8, <1>9 DEF AccountsInv

\* What an opening does once it has set out: if it is alone, what it built and
\* whose it is are what the reader sees; if not, nothing is promised.
LEMMA WaitingSteps ==
  ASSUME A!Bounds, AccountsInv, NEW c \in Call, A!Build(c) \/ A!Identify(c) \/ A!Refused(c)
  PROVE  AccountsInv'
<1> USE DEF A!bounds, A!history
<1> DEFINE k == call[c]
<1>1. /\ Opens(c) /\ k.of \in Destination /\ NoBoot
      /\ listed' = listed /\ gone' = gone /\ token' = token /\ preference' = preference
      /\ failed' = failed /\ mixed' = mixed /\ orphaned' = orphaned
      /\ destinationId' = destinationId /\ overlapped' = overlapped
  BY UnderWay DEF A!Build, A!Identify, A!Refused, A!Is, Opens, AccountsInv, CallsInv, CallFor
<1>2. PICK to : /\ A!Becomes(c, to)
                /\ \/ /\ k.pc = "secret" /\ to.pc = "identify" /\ to.of = k.of /\ to.token = token[k.of]
                      /\ destination' = [of |-> k.of, token |-> token[k.of]]
                      /\ login' = login /\ problem' = problem
                   \/ /\ k.pc = "identify" /\ k.token \in Account /\ to.pc = "idle"
                      /\ destination' = destination /\ login' = k.token /\ problem' = problem
                   \/ /\ to.pc = "idle"
                      /\ destination' = A!NoBuilt /\ login' = login /\ problem' = TRUE
  <2>1. CASE A!Build(c)
    <3> DEFINE to == [pc |-> "identify", of |-> k.of, token |-> token[k.of], first |-> k.first]
    <3>1. to.pc = "identify" /\ to.of = k.of /\ to.token = token[k.of]
      OBVIOUS
    <3>2. /\ A!Becomes(c, to) /\ k.pc = "secret" /\ destination' = [of |-> k.of, token |-> token[k.of]]
          /\ login' = login /\ problem' = problem
      BY <2>1 DEF A!Build, A!Is
    <3> HIDE DEF to
    <3> QED BY <3>1, <3>2
  <2>2. A!Idle.pc = "idle"
    BY DEF A!Idle
  <2>3. CASE A!Identify(c)
    BY <2>2, <2>3 DEF A!Identify, A!Is
  <2>4. CASE A!Refused(c)
    BY <2>2, <2>4 DEF A!Refused
  <2> QED BY <2>1, <2>3, <2>4
<1>3. /\ call' = [o \in Call |-> call'[o]]
      /\ call'[c] = to /\ \A o \in Call : o # c => call'[o] = call[o]
  BY <1>2, Became DEF AccountsInv
<1>4. NoBoot' /\ (NoneAwaited' <=> NoneAwaited) /\ \A o \in Call : Opens(o)' => Opens(o)
  BY <1>1, <1>2, <1>3 DEF NoBoot, NoneAwaited, Awaited, Opens
<1>5. CallsInv'
  <2>1. \A o \in Call : CallFor(o)'
    BY <1>1, <1>2, <1>3 DEF CallFor, Opens, NoBoot, AccountsInv, CallsInv
  <2>2. ~mixed => \A o \in Call : CallListed(o)'
    BY <1>1, <1>2, <1>3 DEF CallListed, Opens, AccountsInv, CallsInv
  <2>3. destination' = A!NoBuilt \/ destination'.of \in Destination
    BY <1>1, <1>2 DEF AccountsInv, CallsInv
  <2> QED BY <1>1, <1>3, <2>1, <2>2, <2>3 DEF AccountsInv, CallsInv
<1>6. ~overlapped => \A o \in Call : o # c => ~Opens(o)' /\ ~Opens(o)
  BY <1>1, <1>3 DEF Opens, OpeningInv, AccountsInv
<1>7. ~overlapped => OpenedBy(c)
  BY <1>1 DEF OpeningInv, AccountsInv
<1>8. k.of # A!None
  BY <1>1, A!Bounds DEF A!Bounds, A!None
<1>9. OpeningInv'
  <2>1. SUFFICES ASSUME ~overlapped PROVE OpeningInv'
    BY <1>1 DEF OpeningInv
  <2>2. Opens(c)' => OpenedBy(c)' /\ destination' = [of |-> k.of, token |-> token[k.of]]
    BY <1>1, <1>2, <1>3, <1>7, <2>1 DEF Opens, OpenedBy
  <2>3. destination' # A!NoBuilt => destination'.of = destinationId /\ login' \in {A!None, destination'.token}
    BY <1>2, <1>7, <2>1 DEF OpenedBy
  <2>4. ~Opens(c)' => IF destination' = A!NoBuilt THEN login' = A!None /\ (problem' <=> destinationId # A!None)
                      ELSE ~problem' /\ login' = destination'.token
    BY <1>2, <1>3, <1>7, <1>8, <2>1 DEF OpenedBy, Opens, A!NoBuilt
  <2> QED BY <1>1, <1>6, <2>1, <2>2, <2>3, <2>4 DEF OpeningInv
<1>10. PreferredInv'
  <2>1. ~overlapped /\ destination' # A!NoBuilt =>
          \/ destination'.token = token[k.of] /\ destinationId = k.of
          \/ destination' = destination
    BY <1>2, <1>7 DEF OpenedBy
  <2> QED BY <1>1, <1>4, <2>1 DEF PreferredInv, AccountsInv
<1>11. A!TokensForgotten'
  BY <1>1, <1>2, <1>3 DEF A!TokensForgotten, A!Is, Opens, AccountsInv
<1> QED BY <1>5, <1>9, <1>10, <1>11 DEF AccountsInv

\* A restart leaves what is stored and the calls unfinished.
LEMMA RestartStep == ASSUME A!Bounds, AccountsInv, A!Restart PROVE AccountsInv'
<1> USE DEF A!bounds
<1>1. PICK one \in Call : call' = [c \in Call |-> IF c = one THEN [pc |-> "boot"] ELSE A!Idle]
  BY DEF A!Restart, A!Starting
<1>2. call'[one].pc = "boot" /\ \A c \in Call \ {one} : call'[c].pc = "idle"
  BY <1>1 DEF A!Idle
<1>3. /\ listed' = listed /\ gone' = gone /\ token' = token /\ preference' = preference
      /\ mixed' = mixed /\ orphaned' = orphaned /\ overlapped' = FALSE
      /\ destinationId' = A!None /\ destination' = A!NoBuilt /\ login' = A!None /\ problem' = FALSE
      /\ failed' = (failed \/ \E c \in Call : call[c].pc \in {"preference", "store", "forget"})
  BY DEF A!Restart
<1>4. CallsInv'
  BY <1>1, <1>2, <1>3 DEF AccountsInv, CallsInv, CallFor, CallListed, Opens
<1>5. OpeningInv'
  BY <1>2, <1>3 DEF OpeningInv, Opens
<1>6. ~failed' => ~failed /\ NoneAwaited
  BY <1>3 DEF NoneAwaited, Awaited
<1>7. ~NoBoot'
  BY <1>2 DEF NoBoot
<1>8. PreferredInv'
  BY <1>3, <1>6, <1>7 DEF PreferredInv, AccountsInv
<1>9. A!TokensForgotten'
  BY <1>3 DEF A!TokensForgotten, A!Is, AccountsInv
<1> QED BY <1>4, <1>5, <1>8, <1>9 DEF AccountsInv

\* Every step keeps it.
LEMMA AccountsInvStep == ASSUME A!Bounds, AccountsInv, A!Next PROVE AccountsInv'
<1>1. ASSUME NEW c \in Call, A!SignOut(c) PROVE AccountsInv'
  <2>1. destinationId \in Destination /\ A!Remove(c, destinationId)
    BY <1>1 DEF A!SignOut, AccountsInv, CallsInv
  <2> QED BY <2>1, RemoveStep
<1>2. ASSUME NEW c \in Call, A!Merge(c) PROVE AccountsInv'
  BY <1>2, OpeningSteps, CallSteps
<1>3. ASSUME NEW c \in Call, NEW d \in Destination, A!Switch(c, d) \/ A!Rename(c, d) \/ A!Remove(c, d) PROVE AccountsInv'
  BY <1>3, OpeningSteps, CallSteps, RemoveStep
<1>4. ASSUME NEW c \in Call, NEW d \in Destination, NEW t \in A!Typed, A!Add(c, d, t) \/ A!Edit(c, d, t) PROVE AccountsInv'
  BY <1>4, CallSteps, AddStep
<1>5. ASSUME NEW c \in Call,
             \/ A!Boot(c) \/ A!Prefer(c) \/ A!Build(c) \/ A!Identify(c) \/ A!Refused(c)
             \/ A!Store(c) \/ A!Try(c) \/ A!Forget(c) \/ A!Fail(c)
      PROVE  AccountsInv'
  BY <1>5, OpeningSteps, CallSteps, WaitingSteps
<1> QED BY <1>1, <1>2, <1>3, <1>4, <1>5, RestartStep DEF A!Next

\* So does a step of something else.
LEMMA AccountsInvStutter == ASSUME AccountsInv, UNCHANGED A!vars PROVE AccountsInv'
<1>1. CallsInv'
  BY DEF AccountsInv, CallsInv, CallFor, CallListed, Opens, A!vars, A!memory, A!history
<1>2. OpeningInv'
  BY DEF AccountsInv, OpeningInv, OpenedBy, Opens, A!vars, A!memory, A!history
<1>3. PreferredInv'
  BY DEF AccountsInv, PreferredInv, NoBoot, NoneAwaited, Awaited, A!vars, A!memory, A!history
<1>4. A!TokensForgotten'
  BY DEF AccountsInv, A!TokensForgotten, A!Is, A!vars, A!memory, A!history
<1> QED BY <1>1, <1>2, <1>3, <1>4 DEF AccountsInv

\* What it says of the three properties: an opening that is over wrote its own
\* fields alone, and at rest the account open is the one preferred.
LEMMA AccountsInvMeans ==
  ASSUME A!Bounds, AccountsInv PROVE A!PostsAsShown /\ A!OpenIsKept /\ A!TokensForgotten
<1>1. A!PostsAsShown
  BY DEF A!PostsAsShown, AccountsInv, OpeningInv
<1>2. SUFFICES ASSUME A!AtRest, ~overlapped, ~failed, ~mixed, ~orphaned
               PROVE  /\ IF listed = {} THEN destinationId = A!None ELSE destinationId \in listed
                      /\ preference \in {destinationId, A!None}
                      /\ IF destination = A!NoBuilt THEN login = A!None /\ (problem <=> destinationId # A!None)
                         ELSE ~problem /\ login = destination.token /\ token[destinationId] = login
  BY <1>1 DEF A!OpenIsKept, AccountsInv
<1>3. NoBoot /\ NoneAwaited /\ \A c \in Call : ~Opens(c)
  BY <1>2 DEF A!AtRest, NoBoot, NoneAwaited, Awaited, Opens
<1> QED BY <1>2, <1>3 DEF AccountsInv, OpeningInv, PreferredInv

\* A review is posted through the destination that is shown as open, as whom the
\* panel says is signed in; at rest that is one there is, with the token kept for
\* it, or one that says it is refused; and a token is not kept for one that is
\* gone (app.js _openDestination, commands/index.js removeDestination).
THEOREM PostsAsWhoIsShown ==
  ASSUME A!Bounds PROVE A!Spec => [](A!PostsAsShown /\ A!OpenIsKept /\ A!TokensForgotten)
<1>1. A!Init => AccountsInv
  BY AccountsInvInit
<1>2. AccountsInv /\ [A!Next]_A!vars => AccountsInv'
  BY AccountsInvStep, AccountsInvStutter
<1>3. AccountsInv => A!PostsAsShown /\ A!OpenIsKept /\ A!TokensForgotten
  BY AccountsInvMeans
<1> QED BY <1>1, <1>2, <1>3, PTL DEF A!Spec

-----------------------------------------------------------------------------
(* A source is opened (SourceSwitch): types.                                 *)

\* Setting where an opening is changes nothing else about it, and no other.
LEMMA Went ==
  ASSUME Switch!TypeOK, NEW o \in Opening, NEW pc \in Switch!Pc, Switch!Go(o, pc)
  PROVE  /\ openings' \in [Opening -> [pc : Switch!Pc, on : Switch!Some]]
         /\ openings'[o].pc = pc /\ openings'[o].on = openings[o].on
         /\ \A p \in Opening \ {o} : openings'[p] = openings[p]
BY DEF Switch!TypeOK, Switch!Go

\* An opening that ends is idle, and no other is touched.
LEMMA Ended ==
  ASSUME Switch!TypeOK, NEW o \in Opening, Switch!End(o)
  PROVE  /\ openings' \in [Opening -> [pc : Switch!Pc, on : Switch!Some]]
         /\ openings'[o].pc = "idle" /\ openings'[o].on = "none"
         /\ \A p \in Opening \ {o} : openings'[p] = openings[p]
BY DEF Switch!TypeOK, Switch!End, Switch!Pc, Switch!Some

\* Asking sets the opening out for its source, and an opening it finds under way
\* is told in the history.
LEMMA AskedFor ==
  ASSUME Switch!TypeOK, NEW o \in Opening, NEW s \in Switch!Some, Switch!Asked(o, s)
  PROVE  /\ openings' \in [Opening -> [pc : Switch!Pc, on : Switch!Some]]
         /\ openings[o].pc = "idle"
         /\ openings'[o].pc = "asked" /\ openings'[o].on = s
         /\ \A p \in Opening \ {o} : openings'[p] = openings[p]
         /\ entangled' \subseteq {"opening", "refresh"} /\ entangled \subseteq entangled'
         /\ Switch!Alone' => Switch!Alone /\ Switch!Settled
         /\ hurried' \in BOOLEAN
         /\ ~hurried' => ~hurried /\ calls = {} /\ waiting = {}
BY DEF Switch!TypeOK, Switch!Asked, Switch!Pc, Switch!Some, Switch!Alone, Switch!Settled

\* What the drafts' reader answers goes to the snapshot it keeps.
LEMMA ReadHolds ==
  ASSUME Switch!TypeOK
  PROVE  Switch!Read \subseteq Source
BY DEF Switch!TypeOK, Switch!Read, Switch!Some, Switch!Reader

\* Every step of the app keeps the types of its fields.
LEMMA SourceTypeStep ==
  ASSUME Switch!TypeOK, Switch!Next
  PROVE  Switch!TypeOK'
<1>. USE DEF Switch!storage, Switch!reader, Switch!work, Switch!bounds, Switch!history
<1>1. ASSUME NEW o \in Opening, NEW s \in Source, Switch!Switch(o, s) \/ Switch!Attach(o, s)
      PROVE  Switch!TypeOK'
  BY <1>1, AskedFor DEF Switch!TypeOK, Switch!Switch, Switch!Attach, Switch!LetGo, Switch!Some
<1>2. ASSUME NEW o \in Opening, Switch!Edit(o)
      PROVE  Switch!TypeOK'
  BY <1>2, AskedFor DEF Switch!TypeOK, Switch!Edit, Switch!Some
<1>3. ASSUME NEW o \in Opening, NEW s \in Source, Switch!Remove(o, s)
      PROVE  Switch!TypeOK'
  <2>1. CASE source = s
    <3>1. PICK next \in IF attached' = {} THEN {"none"} ELSE attached' : Switch!Asked(o, next) /\ selected' = Switch!LetGo
      BY <1>3, <2>1 DEF Switch!Remove
    <3>2. next \in Switch!Some
      BY <1>3 DEF Switch!Remove, Switch!TypeOK, Switch!Some
    <3>. QED
      BY <1>3, <3>1, <3>2, AskedFor DEF Switch!TypeOK, Switch!Remove, Switch!LetGo, Switch!Some
  <2>2. CASE source # s
    BY <1>3, <2>2 DEF Switch!TypeOK, Switch!Remove
  <2>. QED
    BY <2>1, <2>2
<1>4. ASSUME NEW o \in Opening, Switch!Start(o)
      PROVE  Switch!TypeOK'
  BY <1>4, Ended DEF Switch!TypeOK, Switch!Start, Switch!StopWatching, Switch!Some, Switch!Reader, Switch!Pc
<1>5. ASSUME NEW o \in Opening, Switch!Build(o)
      PROVE  Switch!TypeOK'
  BY <1>5, Went DEF Switch!TypeOK, Switch!Build, Switch!Some, Switch!Reader, Switch!Pc
<1>6. ASSUME NEW o \in Opening, Switch!Ready(o)
      PROVE  Switch!TypeOK'
  BY <1>6, Went, Ended DEF Switch!TypeOK, Switch!Ready, Switch!Answers, Switch!HasHeld, Switch!Some, Switch!Reader, Switch!Pc
<1>7. ASSUME NEW o \in Opening, Switch!ListFirst(o)
      PROVE  Switch!TypeOK'
  BY <1>7, Went, Ended, ReadHolds DEF Switch!TypeOK, Switch!ListFirst, Switch!Answers, Switch!Some, Switch!Reader, Switch!Pc
<1>8. ASSUME NEW o \in Opening, Switch!Watch(o)
      PROVE  Switch!TypeOK'
  BY <1>8, Went DEF Switch!TypeOK, Switch!Watch, Switch!Some, Switch!Reader, Switch!Pc
<1>9. ASSUME NEW o \in Opening, Switch!Pull(o)
      PROVE  Switch!TypeOK'
  BY <1>9, Went DEF Switch!TypeOK, Switch!Pull, Switch!Some, Switch!Pc
<1>10. ASSUME NEW o \in Opening, Switch!Queue(o)
       PROVE  Switch!TypeOK'
  BY <1>10, Ended, ReadHolds DEF Switch!TypeOK, Switch!Queue
<1>11. CASE Switch!Refresh
  BY <1>11, ReadHolds DEF Switch!TypeOK, Switch!Refresh, Switch!Answers, Switch!Some, Switch!Reader
<1>12. CASE Switch!Select
  BY <1>12 DEF Switch!TypeOK, Switch!Select, Switch!Some
<1>13. CASE Switch!Decide
  BY <1>13 DEF Switch!TypeOK, Switch!Decide, Switch!Track, Switch!Some
<1>14. CASE Switch!Post
  BY <1>14 DEF Switch!TypeOK, Switch!Post, Switch!Some
<1>15. ASSUME NEW c \in calls, Switch!Selected(c)
       PROVE  Switch!TypeOK'
  BY <1>15 DEF Switch!TypeOK, Switch!Selected, Switch!Some
<1>16. ASSUME NEW c \in calls, Switch!Posted(c)
       PROVE  Switch!TypeOK'
  BY <1>16 DEF Switch!TypeOK, Switch!Posted, Switch!Track, Switch!Some
<1>17. ASSUME NEW s \in Source, Switch!Fire(s)
       PROVE  Switch!TypeOK'
  BY <1>17 DEF Switch!TypeOK, Switch!Fire, Switch!Some
<1>18. ASSUME NEW s \in Source, Switch!StopOrStart(s)
       PROVE  Switch!TypeOK'
  <2>1. up' \subseteq Source
    BY <1>18 DEF Switch!TypeOK, Switch!StopOrStart
  <2>. QED
    BY <1>18, <2>1 DEF Switch!TypeOK, Switch!StopOrStart
<1>. QED
  BY <1>1, <1>2, <1>3, <1>4, <1>5, <1>6, <1>7, <1>8, <1>9, <1>10, <1>11, <1>12, <1>13, <1>14,
     <1>15, <1>16, <1>17, <1>18 DEF Switch!Next, Switch!Proceed

-----------------------------------------------------------------------------
(* One source is read through.                                               *)

Watched == [reads |-> adapter, feeds |-> source]

\* The reader and the drafts are the source's own, or the stand-in's for it.
ReadsSource == adapter \in {source, "standIn"} /\ written.into = source

Reported == "refresh" \notin entangled => alert \in {source, "none"}

\* How far an opening has made what is read through the source's.
OnItsWay(o) ==
  LET pc == openings[o].pc IN
  /\ pc # "build" => ReadsSource
  /\ pc = "asked" => watching \subseteq {Watched}
  /\ pc \in {"build", "ready", "list", "watch"} => watching = {}
  /\ pc \in {"pull", "queue"} => watching = {Watched}
  /\ pc # "asked" => source = openings[o].on /\ source # "none" /\ Reported

\* And what it is once no opening is under way.
Opened ==
  /\ ReadsSource /\ watching \subseteq {Watched}
  /\ source # "none" => Reported
  /\ source # "none" /\ alert = "none" => watching # {} /\ timer

ApartInv ==
  Switch!Alone =>
    /\ \A o, p \in Opening : openings[o].pc # "idle" /\ openings[p].pc # "idle" => o = p
    /\ adapter \in {written.into, "standIn"} /\ written.of = adapter
    /\ \A o \in Opening : openings[o].pc # "idle" => OnItsWay(o)
    /\ Switch!Settled => Opened

\* An opening that is the only one under way makes what is read its source's own,
\* one step after another.
LEMMA ApartStep ==
  ASSUME Switch!Bounds, Switch!TypeOK, Switch!TypeOK', ApartInv, Switch!Next
  PROVE  ApartInv'
<1>. USE DEF Switch!storage, Switch!reader, Switch!work, Switch!bounds, Switch!history
<1>. SUFFICES ASSUME Switch!Alone' PROVE ApartInv'
  BY DEF ApartInv
<1>0. ASSUME NEW o \in Opening, openings[o].pc # "idle", Switch!Alone
      PROVE  /\ OnItsWay(o) /\ \A p \in Opening \ {o} : openings[p].pc = "idle"
             /\ adapter \in {written.into, "standIn"} /\ written.of = adapter
  BY <1>0 DEF ApartInv
<1>1. ASSUME NEW o \in Opening, NEW s \in Switch!Some, Switch!Asked(o, s), UNCHANGED Switch!reader
      PROVE  ApartInv'
  BY <1>1, AskedFor DEF ApartInv, OnItsWay, Opened, ReadsSource, Watched, Switch!Settled
<1>2. ASSUME NEW o \in Opening, NEW s \in Source, Switch!Remove(o, s)
      PROVE  ApartInv'
  <2>1. CASE source = s
    <3>1. PICK next \in IF attached' = {} THEN {"none"} ELSE attached' : Switch!Asked(o, next) /\ selected' = Switch!LetGo
      BY <1>2, <2>1 DEF Switch!Remove
    <3>2. next \in Switch!Some
      BY <1>2 DEF Switch!Remove, Switch!TypeOK, Switch!Some
    <3>. QED
      BY <1>2, <3>1, <3>2, <1>1 DEF Switch!Remove
  <2>2. CASE source # s
    BY <1>2, <2>2 DEF ApartInv, Switch!Remove, OnItsWay, Opened, ReadsSource, Watched, Switch!Settled, Switch!Alone, Reported
  <2>. QED
    BY <2>1, <2>2
<1>3. ASSUME NEW o \in Opening, Switch!Start(o)
      PROVE  ApartInv'
  <2>1. Switch!Alone /\ openings[o].pc # "idle"
    BY <1>3 DEF Switch!Start, Switch!Alone
  <2>2. PICK s \in Switch!Some : /\ source' = s
                                 /\ IF s = "none"
                                    THEN adapter' = "none" /\ written' = [of |-> "none", into |-> "none"] /\ Switch!End(o)
                                    ELSE /\ alert' = "none" /\ UNCHANGED <<adapter, written>>
                                         /\ openings' = [openings EXCEPT ![o] = [pc |-> "build", on |-> s]]
    BY <1>3 DEF Switch!Start, Switch!TypeOK, Switch!Some
  <2>3. watching' = {}
    BY <1>3 DEF Switch!Start, Switch!StopWatching
  <2>4. CASE s = "none"
    BY <2>1, <2>2, <2>3, <2>4, <1>0, Ended DEF ApartInv, Switch!Settled, Opened, ReadsSource
  <2>5. CASE s # "none"
    <3>1. /\ openings'[o].pc = "build" /\ openings'[o].on = s
          /\ \A p \in Opening \ {o} : openings'[p] = openings[p]
      BY <2>2, <2>5 DEF Switch!TypeOK
    <3>. QED
      BY <2>1, <2>2, <2>3, <2>5, <3>1, <1>0 DEF ApartInv, Switch!Settled, OnItsWay, Reported
  <2>. QED
    BY <2>4, <2>5
<1>4. ASSUME NEW o \in Opening, Switch!Build(o)
      PROVE  ApartInv'
  <2>1. Switch!Alone /\ openings[o].pc = "build"
    BY <1>4 DEF Switch!Build, Switch!Alone
  <2>2. "ready" \in Switch!Pc
    BY DEF Switch!Pc
  <2>3. written'.of = adapter' /\ written'.into = source
    BY <1>4 DEF Switch!Build
  <2>. QED
    BY <1>4, <2>1, <2>2, <2>3, <1>0, Went DEF ApartInv, Switch!Settled, OnItsWay, ReadsSource, Reported, Switch!Build
<1>5. ASSUME NEW o \in Opening, Switch!Ready(o)
      PROVE  ApartInv'
  <2>1. Switch!Alone /\ openings[o].pc = "ready"
    BY <1>5 DEF Switch!Ready, Switch!Alone
  <2>2. "list" \in Switch!Pc /\ "watch" \in Switch!Pc
    BY DEF Switch!Pc
  <2>. QED
    BY <1>5, <2>1, <2>2, <1>0, Went, Ended
       DEF ApartInv, Switch!Settled, OnItsWay, Opened, ReadsSource, Reported, Switch!Ready, Switch!Answers
<1>6. ASSUME NEW o \in Opening, Switch!ListFirst(o)
      PROVE  ApartInv'
  <2>1. Switch!Alone /\ openings[o].pc = "list"
    BY <1>6 DEF Switch!ListFirst, Switch!Alone
  <2>2. "watch" \in Switch!Pc
    BY DEF Switch!Pc
  <2>. QED
    BY <1>6, <2>1, <2>2, <1>0, Went, Ended
       DEF ApartInv, Switch!Settled, OnItsWay, Opened, ReadsSource, Reported, Switch!ListFirst, Switch!Answers
<1>7. ASSUME NEW o \in Opening, Switch!Watch(o)
      PROVE  ApartInv'
  <2>1. Switch!Alone /\ openings[o].pc = "watch"
    BY <1>7 DEF Switch!Watch, Switch!Alone
  <2>2. "pull" \in Switch!Pc
    BY DEF Switch!Pc
  <2>. QED
    BY <1>7, <2>1, <2>2, <1>0, Went
       DEF ApartInv, Switch!Settled, OnItsWay, ReadsSource, Reported, Watched, Switch!Watch
<1>8. ASSUME NEW o \in Opening, Switch!Pull(o)
      PROVE  ApartInv'
  <2>1. Switch!Alone /\ openings[o].pc = "pull"
    BY <1>8 DEF Switch!Pull, Switch!Alone
  <2>2. "queue" \in Switch!Pc
    BY DEF Switch!Pc
  <2>. QED
    BY <1>8, <2>1, <2>2, <1>0, Went
       DEF ApartInv, Switch!Settled, OnItsWay, ReadsSource, Reported, Watched, Switch!Pull
<1>9. ASSUME NEW o \in Opening, Switch!Queue(o)
      PROVE  ApartInv'
  <2>1. Switch!Alone /\ openings[o].pc = "queue"
    BY <1>9 DEF Switch!Queue, Switch!Alone
  <2>. QED
    BY <1>9, <2>1, <1>0, Ended
       DEF ApartInv, Switch!Settled, OnItsWay, Opened, ReadsSource, Reported, Watched, Switch!Queue
<1>10. CASE Switch!Refresh
  <2>1. Switch!Alone /\ (written.into # source /\ alert' # alert => "refresh" \in entangled')
    BY <1>10 DEF Switch!Refresh, Switch!Alone
  <2>2. written.into = source /\ alert' # alert => alert' = source
    BY <1>10, <2>1 DEF Switch!Refresh, ApartInv, Switch!Answers
  <2>3. Reported => Reported'
    BY <1>10, <2>1, <2>2 DEF Switch!Refresh, Reported
  <2>4. alert' = "none" => alert = "none"
    BY <1>10 DEF Switch!Refresh
  <2>. QED
    BY <1>10, <2>1, <2>3, <2>4 DEF ApartInv, Switch!Settled, OnItsWay, Opened, ReadsSource, Watched, Switch!Refresh
<1>11. ASSUME UNCHANGED <<Switch!reader, openings, entangled>>
       PROVE  ApartInv'
  BY <1>11 DEF ApartInv, OnItsWay, Opened, ReadsSource, Watched, Switch!Settled, Switch!Alone, Reported
<1>12. ASSUME NEW o \in Opening, NEW s \in Source, Switch!Switch(o, s) \/ Switch!Attach(o, s)
       PROVE  ApartInv'
  BY <1>12, <1>1 DEF Switch!Switch, Switch!Attach, Switch!Some
<1>13. ASSUME NEW o \in Opening, Switch!Edit(o)
       PROVE  ApartInv'
  BY <1>13, <1>1 DEF Switch!Edit, Switch!TypeOK, Switch!Some
<1>. QED
  BY <1>2, <1>3, <1>4, <1>5, <1>6, <1>7, <1>8, <1>9, <1>10, <1>11, <1>12, <1>13
     DEF Switch!Next, Switch!Proceed, Switch!Select, Switch!Decide, Switch!Post, Switch!Selected, Switch!Posted, Switch!Fire, Switch!StopOrStart

-----------------------------------------------------------------------------
(* Nothing is told in another source's log.                                  *)

\* What the reader has under way is of one source, or there is nothing of it.
WorkIsOf(s) ==
  (\A c \in calls : c.of = s) /\ selected \in {"none", s} /\ waiting \subseteq {s}

Quiet == calls = {} /\ selected = "none" /\ waiting = {}

MixesInv ==
  Switch!Alone /\ ~hurried =>
    /\ Switch!NothingMixes
    /\ source # "none" => WorkIsOf(source)
    /\ source # "none" /\ written.into # source => Quiet
    /\ \A o \in Opening : openings[o].pc = "asked" =>
         /\ openings[o].on \notin {source, "none"} => Quiet
         /\ openings[o].on = "none" => attached = {}
         /\ openings[o].on = source => source \in attached \cup {"none"}

\* What is asked for while the source is still another's is a switch over a
\* call; what is asked for otherwise is of the source everything is read
\* through, and told in its log and its storage.
LEMMA MixesStep ==
  ASSUME Switch!Bounds, Switch!TypeOK, Switch!TypeOK', ApartInv, MixesInv, Switch!Next
  PROVE  MixesInv'
<1>. USE DEF Switch!storage, Switch!reader, Switch!work, Switch!bounds, Switch!history
<1>. SUFFICES ASSUME Switch!Alone', ~hurried' PROVE MixesInv'
  BY DEF MixesInv
<1>a. Switch!Bounds => "none" \notin Source /\ "standIn" \notin Source
  BY DEF Switch!Bounds
<1>0. ASSUME NEW o \in Opening, openings[o].pc # "idle", Switch!Alone
      PROVE  /\ OnItsWay(o) /\ \A p \in Opening \ {o} : openings[p].pc = "idle"
             /\ adapter \in {written.into, "standIn"} /\ written.of = adapter
  BY <1>0 DEF ApartInv
<1>1. ASSUME NEW o \in Opening, NEW s \in Switch!Some, Switch!Asked(o, s), UNCHANGED <<Switch!reader, calls, waiting, files>>,
             s \in {source, "none"} \/ selected' = "none", UNCHANGED selected \/ selected' = "none",
             s = "none" => attached' = {}, s = source => source \in attached' \cup {"none"},
             \A t \in Source : logs'[t] \subseteq logs[t]
      PROVE  MixesInv'
  BY <1>1, AskedFor DEF MixesInv, Switch!NothingMixes, WorkIsOf, Quiet, ApartInv, Switch!Settled, Opened, ReadsSource
<1>2. ASSUME NEW o \in Opening, NEW s \in Source, Switch!Switch(o, s) \/ Switch!Attach(o, s)
      PROVE  MixesInv'
  BY <1>1, <1>2, <1>a DEF Switch!Switch, Switch!Attach, Switch!LetGo, Switch!Some
<1>3. ASSUME NEW o \in Opening, Switch!Edit(o)
      PROVE  MixesInv'
  BY <1>1, <1>3, <1>a DEF Switch!Edit, Switch!Some, Switch!TypeOK
<1>4. ASSUME NEW o \in Opening, NEW s \in Source, Switch!Remove(o, s)
      PROVE  MixesInv'
  <2>0. \A t \in Source : logs'[t] \subseteq logs[t]
    BY <1>4 DEF Switch!Remove, Switch!TypeOK
  <2>1. CASE source = s
    <3>1. PICK next \in IF attached' = {} THEN {"none"} ELSE attached' : Switch!Asked(o, next) /\ selected' = Switch!LetGo
      BY <1>4, <2>1 DEF Switch!Remove
    <3>2. next \in Switch!Some /\ next # source /\ (next = "none" => attached' = {})
      BY <1>4, <2>1, <1>a DEF Switch!Remove, Switch!TypeOK, Switch!Some
    <3>. QED
      BY <1>4, <3>1, <3>2, <2>0, <1>1 DEF Switch!Remove, Switch!LetGo
  <2>2. CASE source # s
    <3>1. UNCHANGED <<Switch!reader, openings, calls, waiting, selected, files, entangled>> /\ ~hurried
      BY <1>4, <2>2 DEF Switch!Remove
    <3>2. attached' = attached \ {s}
      BY <1>4 DEF Switch!Remove
    <3>. QED
      BY <2>0, <2>2, <3>1, <3>2 DEF MixesInv, Switch!NothingMixes, WorkIsOf, Quiet, Switch!Alone
  <2>. QED
    BY <2>1, <2>2
<1>5. ASSUME NEW o \in Opening, Switch!Start(o)
      PROVE  MixesInv'
  <2>1. Switch!Alone /\ ~hurried /\ openings[o].pc = "asked" /\ UNCHANGED <<Switch!work, Switch!storage>>
    BY <1>5 DEF Switch!Start, Switch!Alone
  <2>2. PICK s \in IF openings[o].on \in attached THEN {openings[o].on}
                   ELSE IF attached = {} THEN {"none"} ELSE attached :
            /\ source' = s
            /\ IF s = "none"
               THEN written' = [of |-> "none", into |-> "none"] /\ Switch!End(o)
               ELSE /\ UNCHANGED <<adapter, written>>
                    /\ openings' = [openings EXCEPT ![o] = [pc |-> "build", on |-> s]]
    BY <1>5 DEF Switch!Start
  <2>3. ReadsSource
    BY <2>1, <1>0 DEF OnItsWay
  <2>4. s # source => s = "none" \/ Quiet
    BY <2>1, <2>2, <1>a DEF MixesInv, Switch!TypeOK
  <2>5. \A p \in Opening : openings'[p].pc # "asked"
    BY <2>1, <2>2, <1>0, Ended DEF Switch!TypeOK
  <2>6. Switch!NothingMixes' /\ (s # "none" => WorkIsOf(source)' /\ (written'.into # s => Quiet'))
    BY <2>1, <2>2, <2>3, <2>4, <1>a DEF MixesInv, Switch!NothingMixes, WorkIsOf, Quiet, ReadsSource
  <2>. QED
    BY <2>2, <2>5, <2>6 DEF MixesInv
<1>6. ASSUME NEW o \in Opening, Switch!Proceed(o), ~Switch!Start(o)
      PROVE  MixesInv'
  <2>1. Switch!Alone /\ ~hurried /\ openings[o].pc # "idle" /\ openings[o].pc # "asked" /\ source' = source
    BY <1>6 DEF Switch!Proceed, Switch!Alone, Switch!Build, Switch!Ready, Switch!ListFirst, Switch!Watch, Switch!Pull, Switch!Queue
  <2>2. \A p \in Opening : openings'[p].pc # "asked"
    BY <1>6, <1>0, <2>1, Went, Ended DEF Switch!Proceed, Switch!Build, Switch!Ready, Switch!ListFirst, Switch!Watch, Switch!Pull, Switch!Queue, Switch!Pc
  <2>3. written'.into = written.into \/ written'.into = source
    BY <1>6 DEF Switch!Proceed, Switch!Build, Switch!Ready, Switch!ListFirst, Switch!Watch, Switch!Pull, Switch!Queue
  <2>4. UNCHANGED <<selected, calls, waiting, files>>
    BY <1>6 DEF Switch!Proceed, Switch!Build, Switch!Ready, Switch!ListFirst, Switch!Watch, Switch!Pull, Switch!Queue
  <2>5. CASE Switch!Pull(o)
    <3>1. OnItsWay(o) /\ openings[o].pc = "pull"
      BY <2>1, <2>5, <1>0 DEF Switch!Pull
    <3>2. adapter \in up => adapter = source
      BY <3>1, <1>a DEF OnItsWay, ReadsSource, Switch!TypeOK
    <3>3. \A t \in Source : logs'[t] \subseteq {t}
      BY <2>1, <2>5, <3>2 DEF Switch!Pull, MixesInv, Switch!NothingMixes, Switch!TypeOK
    <3>. QED
      BY <2>1, <2>2, <2>3, <2>4, <3>3 DEF MixesInv, Switch!NothingMixes, WorkIsOf, Quiet
  <2>6. CASE ~Switch!Pull(o)
    <3>1. UNCHANGED logs
      BY <1>6, <2>6 DEF Switch!Proceed, Switch!Build, Switch!Ready, Switch!ListFirst, Switch!Watch, Switch!Queue
    <3>. QED
      BY <2>1, <2>2, <2>3, <2>4, <3>1 DEF MixesInv, Switch!NothingMixes, WorkIsOf, Quiet
  <2>. QED
    BY <2>5, <2>6
<1>7. CASE Switch!Refresh \/ \E s \in Source : Switch!StopOrStart(s)
  BY <1>7 DEF Switch!Refresh, Switch!StopOrStart, MixesInv, Switch!NothingMixes, WorkIsOf, Quiet, Switch!Alone
<1>8. CASE Switch!Select
  <2>1. Switch!Alone /\ ~hurried /\ \A o \in Opening : openings[o].on \in {written.into, "none"}
    BY <1>8 DEF Switch!Select, Switch!Alone
  <2>2. written.into = source
    <3>1. CASE Switch!Settled
      BY <2>1, <3>1 DEF ApartInv, Opened, ReadsSource
    <3>2. ASSUME NEW o \in Opening, openings[o].pc # "idle"
          PROVE  written.into = source
      BY <2>1, <3>2, <1>0, <1>8 DEF OnItsWay, ReadsSource, Switch!Select
    <3>. QED
      BY <3>1, <3>2 DEF Switch!Settled
  <2>3. \A o \in Opening : openings[o].pc = "asked" => openings[o].on \in {source, "none"}
    BY <2>1, <2>2
  <2>. QED
    BY <1>8, <2>1, <2>2, <2>3 DEF Switch!Select, MixesInv, Switch!NothingMixes, WorkIsOf, Quiet
<1>9. CASE Switch!Decide
  BY <1>9 DEF Switch!Decide, Switch!Track, MixesInv, Switch!NothingMixes, WorkIsOf, Quiet, Switch!Alone, Switch!TypeOK
<1>10. CASE Switch!Post
  BY <1>10 DEF Switch!Post, MixesInv, Switch!NothingMixes, WorkIsOf, Quiet, Switch!Alone
<1>11. ASSUME NEW c \in calls, Switch!Selected(c)
       PROVE  MixesInv'
  BY <1>11 DEF Switch!Selected, MixesInv, Switch!NothingMixes, WorkIsOf, Quiet, Switch!Alone
<1>12. ASSUME NEW c \in calls, Switch!Posted(c)
       PROVE  MixesInv'
  BY <1>12 DEF Switch!Posted, Switch!Track, MixesInv, Switch!NothingMixes, WorkIsOf, Quiet, Switch!Alone, Switch!TypeOK
<1>13. ASSUME NEW s \in Source, Switch!Fire(s)
       PROVE  MixesInv'
  <2>1. Switch!Alone /\ ~hurried
    BY <1>13 DEF Switch!Fire, Switch!Alone
  <2>2. adapter \in up => adapter = s
    <3>1. CASE Switch!Settled
      BY <1>13, <2>1, <3>1, <1>a DEF Switch!Fire, ApartInv, Opened, ReadsSource, Switch!TypeOK, MixesInv, WorkIsOf
    <3>2. ASSUME NEW o \in Opening, openings[o].pc # "idle"
          PROVE  adapter \in up => adapter = s
      BY <1>13, <2>1, <3>2, <1>0, <1>a DEF Switch!Fire, OnItsWay, ReadsSource, Switch!TypeOK, MixesInv, WorkIsOf, Quiet
    <3>. QED
      BY <3>1, <3>2 DEF Switch!Settled
  <2>. QED
    BY <1>13, <2>1, <2>2 DEF Switch!Fire, MixesInv, Switch!NothingMixes, WorkIsOf, Quiet, Switch!TypeOK
<1>. QED
  BY <1>2, <1>3, <1>4, <1>5, <1>6, <1>7, <1>8, <1>9, <1>10, <1>11, <1>12, <1>13 DEF Switch!Next

-----------------------------------------------------------------------------
(* The theorems.                                                             *)

SourceInv == Switch!TypeOK /\ ApartInv /\ MixesInv

\* The invariant holds when the app has just started.
LEMMA SourceInvInit == ASSUME Switch!Bounds, Switch!Init PROVE SourceInv
BY DEF Switch!Bounds, Switch!Init, SourceInv, Switch!TypeOK, ApartInv, MixesInv, Switch!Some, Switch!Reader, Switch!Pc, Switch!Settled, Opened,
       ReadsSource, Switch!NothingMixes, WorkIsOf, Quiet

\* Every step keeps it.
LEMMA SourceInvStep == ASSUME Switch!Bounds, SourceInv, Switch!Next PROVE SourceInv'
BY SourceTypeStep, ApartStep, MixesStep DEF SourceInv

\* So does a step of something else.
LEMMA SourceInvStutter == ASSUME SourceInv, UNCHANGED Switch!vars PROVE SourceInv'
BY DEF SourceInv, Switch!vars, Switch!storage, Switch!reader, Switch!work, Switch!bounds, Switch!history, Switch!TypeOK, ApartInv, MixesInv, Switch!Settled, Opened,
       ReadsSource, Reported, Watched, OnItsWay, Switch!NothingMixes, WorkIsOf, Quiet, Switch!Alone

\* It says that the app reads through one source and mixes no two.
LEMMA SourceInvMeans == ASSUME SourceInv PROVE Switch!TypeOK /\ Switch!OneSource /\ Switch!NothingMixes
<1>1. Switch!Alone /\ Switch!Settled => written = [of |-> adapter, into |-> source]
  BY DEF SourceInv, ApartInv, Opened, ReadsSource, Switch!TypeOK
<1>2. Switch!OneSource
  BY <1>1 DEF SourceInv, ApartInv, Opened, ReadsSource, Reported, Watched, Switch!OneSource
<1>3. Switch!NothingMixes
  BY DEF SourceInv, MixesInv, Switch!NothingMixes
<1>. QED
  BY <1>2, <1>3 DEF SourceInv

\* Whatever is attached, opened, edited and removed in whatever order, an opening
\* that no other overlapped leaves the app reading through its own source alone,
\* and no source's decisions reach another's log or storage unless a switch
\* began over them (SourceSwitch; app.js _openSource).
THEOREM SourcesStayApart == ASSUME Switch!Bounds PROVE Switch!Spec => [](Switch!OneSource /\ Switch!NothingMixes)
<1>1. Switch!Init => SourceInv
  BY SourceInvInit
<1>2. SourceInv /\ [Switch!Next]_Switch!vars => SourceInv'
  BY SourceInvStep, SourceInvStutter
<1>3. SourceInv => Switch!OneSource /\ Switch!NothingMixes
  BY SourceInvMeans
<1>. QED
  BY <1>1, <1>2, <1>3, PTL DEF Switch!Spec

-------------------------------------------------------------------------------
(* The watch of a storage (AdapterWatch).                                    *)

Rounds == [left : W!Queues, got : W!Mark \cup {W!Unseen, W!Fail}]
Watches == [state : {"new", "on", "stopped"}, marks : W!Mark \cup {W!Unseen}, failures : 0..Patience]

\* A listing on its way back is what the storage holds, unless a change overtook
\* it; and only a watch that was begun is listed for.
OnItsRound(r) ==
  /\ round[r].left = <<>> => round[r].got = W!Unseen
  /\ \A n \in DOMAIN round[r].left : watch[round[r].left[n]].state # "new"
  /\ round[r].left # <<>> /\ round[r].got \notin {W!Unseen, W!Fail} /\ Head(round[r].left) \notin slid =>
       round[r].got = stored[Head(round[r].left)]

\* What a watch last saw is what its watcher was told of.
ToldOfMarks(w) ==
  /\ watch[w].state = "new" => watch[w].marks = W!Unseen
  /\ w \notin slid /\ watch[w].marks # W!Unseen => toldOf[w] = watch[w].marks

WatchInv == W!TypeOK /\ (\A r \in Round : OnItsRound(r)) /\ (\A w \in W!Watch : ToldOfMarks(w))

\* The queue of a round, and what is left of it.
LEMMA OfQueue ==
  /\ <<>> \in W!Queues
  /\ \A q \in W!Queues : q # <<>> =>
       /\ Head(q) \in W!Watch /\ Tail(q) \in W!Queues
       /\ 1 \in DOMAIN q /\ q[1] = Head(q)
       /\ \A n \in DOMAIN Tail(q) : Tail(q)[n] = q[2] /\ 2 \in DOMAIN q
  /\ \A q \in W!Queues : \A n \in DOMAIN q : q[n] \in W!Watch
<1>1. \A a, b : /\ Head(<<a>>) = a /\ Tail(<<a>>) = <<>> /\ DOMAIN <<a>> = {1} /\ <<a>>[1] = a
                /\ Head(<<a, b>>) = a /\ Tail(<<a, b>>) = <<b>> /\ DOMAIN <<a, b>> = {1, 2}
                /\ <<a, b>>[1] = a /\ <<a, b>>[2] = b
  OBVIOUS
<1>2. \A n : n \notin DOMAIN <<>>
  OBVIOUS
<1>3. ASSUME NEW q \in W!Queues
      PROVE  /\ q # <<>> => /\ Head(q) \in W!Watch /\ Tail(q) \in W!Queues
                            /\ 1 \in DOMAIN q /\ q[1] = Head(q)
                            /\ \A n \in DOMAIN Tail(q) : Tail(q)[n] = q[2] /\ 2 \in DOMAIN q
             /\ \A n \in DOMAIN q : q[n] \in W!Watch
  <2> DEFINE d == "drafts"  e == "decisions"
  <2>1. W!Watch = {d, e} /\ W!Queues = {<<>>, <<d>>, <<e>>, <<d, e>>}
    BY DEF W!Watch, W!Queues
  <2> HIDE DEF d, e
  <2>2. CASE q = <<>>  BY <1>2, <2>2
  <2>3. CASE q = <<d>>  BY <1>1, <1>2, <2>1, <2>3
  <2>4. CASE q = <<e>>  BY <1>1, <1>2, <2>1, <2>4
  <2>5. CASE q = <<d, e>>  BY <1>1, <1>2, <2>1, <2>5
  <2> QED BY <2>1, <2>2, <2>3, <2>4, <2>5
<1> QED BY <1>3 DEF W!Queues

\* The marks are numbers of their own.
LEMMA Marks ==
  ASSUME W!Bounds
  PROVE  /\ W!Held \in W!Mark /\ 0 \in W!Mark /\ W!Mark \subseteq Nat
         /\ W!Unseen \notin W!Mark /\ W!Fail \notin W!Mark /\ W!Fail # W!Unseen
BY DEF W!Bounds, W!Held, W!Mark, W!Unseen, W!Fail

\* Before any watch is begun nothing is on its way and nothing was told.
LEMMA WatchInvInit == ASSUME W!Bounds, W!Init PROVE WatchInv
<1>1. W!TypeOK
  <2>1. stored \in [W!Watch -> W!Mark] /\ toldOf \in [W!Watch -> W!Mark]
    <3>1. stored = [drafts |-> W!Held, decisions |-> 0] /\ toldOf = stored
      BY DEF W!Init
    <3> QED BY <3>1, Marks DEF W!Watch
  <2>2. round \in [Round -> Rounds]
    BY OfQueue DEF W!Init, W!Resting, Rounds
  <2>3. watch \in [W!Watch -> Watches]
    BY DEF W!Init, Watches, W!Bounds
  <2>4. /\ answering \subseteq W!Watch /\ slid \subseteq W!Watch
        /\ ticking \in BOOLEAN /\ troubled \in BOOLEAN
    <3>1. answering = W!Watch /\ ticking = FALSE /\ troubled = FALSE /\ slid = {}
      BY DEF W!Init
    <3> QED BY <3>1, Zenon
  <2>5. changes \in 0..MaxChanges /\ stops \in 0..MaxStops
    BY DEF W!Init, W!Bounds
  <2> QED BY <2>1, <2>2, <2>3, <2>4, <2>5 DEF W!TypeOK, Rounds, Watches
<1>2. \A r \in Round : OnItsRound(r)
  <2>1. \A n : n \notin DOMAIN <<>>
    OBVIOUS
  <2>2. \A r \in Round : round[r].left = <<>> /\ round[r].got = W!Unseen
    BY DEF W!Init, W!Resting
  <2> QED BY <2>1, <2>2 DEF OnItsRound
<1>3. \A w \in W!Watch : ToldOfMarks(w)
  BY DEF W!Init, ToldOfMarks
<1> QED BY <1>1, <1>2, <1>3 DEF WatchInv

\* The types of the state, one by one.
LEMMA WatchTypes ==
  ASSUME W!TypeOK
  PROVE  /\ stored \in [W!Watch -> W!Mark] /\ toldOf \in [W!Watch -> W!Mark]
         /\ round \in [Round -> Rounds] /\ watch \in [W!Watch -> Watches]
         /\ \A r \in Round : /\ round[r].left \in W!Queues
                              /\ round[r].got \in W!Mark \cup {W!Unseen, W!Fail}
         /\ \A w \in W!Watch : /\ watch[w].marks \in W!Mark \cup {W!Unseen}
                                /\ watch[w].failures \in 0..Patience
         /\ slid \subseteq W!Watch
BY DEF W!TypeOK, Rounds, Watches

\* A listing that is handled is told of, unless it shows what was told of already.
LEMMA HandleStep == ASSUME W!Bounds, WatchInv, NEW r \in Round, W!Handle(r) PROVE WatchInv'
<1> DEFINE w == Head(round[r].left)
           got == round[r].got
           rest == Tail(round[r].left)
           seen == W!Noted(watch[w], got)
<1>1. /\ round[r].left # <<>> /\ got # W!Unseen
      /\ watch' = [watch EXCEPT ![w] = W!Noted(@, got)]
      /\ toldOf' = IF W!News(watch[w], got) THEN [toldOf EXCEPT ![w] = stored[w]] ELSE toldOf
      /\ slid' = IF watch[w].marks = W!Unseen /\ got = 0 /\ toldOf[w] # 0 THEN slid \cup {w} ELSE slid
      /\ round' = [round EXCEPT ![r] = [left |-> rest, got |-> W!Unseen]]
      /\ troubled' = IF rest = <<>> THEN W!Tell(watch') ELSE troubled
      /\ stored' = stored /\ answering' = answering /\ ticking' = ticking
      /\ changes' = changes /\ stops' = stops
  BY DEF W!Handle, W!storage, W!bounds
<1>2. /\ w \in W!Watch /\ rest \in W!Queues /\ got \in W!Mark \cup {W!Fail}
      /\ \A n \in DOMAIN rest : rest[n] = round[r].left[2] /\ 2 \in DOMAIN round[r].left
  BY <1>1, OfQueue, WatchTypes DEF WatchInv
<1>3. /\ watch[w] \in Watches /\ seen \in Watches /\ seen.state = watch[w].state
      /\ got = W!Fail => seen.marks = watch[w].marks
      /\ got # W!Fail => seen.marks = got
  <2>1. watch[w] \in Watches
    BY <1>2, WatchTypes DEF WatchInv
  <2>2. CASE got = W!Fail
    <3>1. seen = [watch[w] EXCEPT !.failures = W!Missed(@)]
      BY <2>2 DEF W!Noted
    <3>2. W!Missed(watch[w].failures) \in 0..Patience
      BY <2>1, W!Bounds DEF W!Missed, Watches, W!Bounds
    <3> QED BY <2>1, <2>2, <3>1, <3>2 DEF Watches
  <2>3. CASE got # W!Fail
    <3>1. seen = [watch[w] EXCEPT !.failures = 0, !.marks = got]
      BY <2>3 DEF W!Noted
    <3>2. 0 \in 0..Patience /\ got \in W!Mark
      BY <1>2, <2>3, W!Bounds DEF W!Bounds
    <3> QED BY <2>1, <2>3, <3>1, <3>2 DEF Watches
  <2> QED BY <2>2, <2>3, <2>1
<1>4. /\ watch' \in [W!Watch -> Watches] /\ watch'[w] = seen
      /\ \A v \in W!Watch : v # w => watch'[v] = watch[v]
  BY <1>1, <1>2, <1>3, WatchTypes DEF WatchInv
<1> HIDE DEF seen
<1>5. /\ round' \in [Round -> Rounds] /\ round'[r].left = rest /\ round'[r].got = W!Unseen
      /\ \A s \in Round : s # r => round'[s] = round[s]
  <2>1. [left |-> rest, got |-> W!Unseen] \in Rounds
    BY <1>2 DEF Rounds
  <2> QED BY <1>1, <2>1, WatchTypes DEF WatchInv
<1>6. /\ toldOf' \in [W!Watch -> W!Mark] /\ slid' \subseteq W!Watch /\ slid \subseteq slid'
      /\ \A v \in W!Watch : v # w => toldOf'[v] = toldOf[v]
      /\ W!News(watch[w], got) => toldOf'[w] = stored[w]
      /\ ~W!News(watch[w], got) => toldOf'[w] = toldOf[w]
  BY <1>1, <1>2, WatchTypes, Zenon DEF WatchInv
<1>7. W!TypeOK'
  <2>1. troubled' \in BOOLEAN
    BY <1>1 DEF W!Tell, WatchInv, W!TypeOK
  <2> QED BY <1>1, <1>4, <1>5, <1>6, <2>1 DEF WatchInv, W!TypeOK, Rounds, Watches
<1>8. \A s \in Round : OnItsRound(s)'
  <2>1. \A v \in W!Watch : watch'[v].state = watch[v].state
    BY <1>3, <1>4
  <2>2. \A s \in Round : \A n \in DOMAIN round'[s].left : watch'[round'[s].left[n]].state # "new"
    <3>1. \A n \in DOMAIN rest : watch[rest[n]].state # "new" /\ rest[n] \in W!Watch
      BY <1>2, OfQueue DEF WatchInv, OnItsRound
    <3>2. \A s \in Round : s # r => \A n \in DOMAIN round[s].left : round[s].left[n] \in W!Watch
      BY OfQueue, WatchTypes DEF WatchInv
    <3>3. ASSUME NEW s \in Round, s # r, NEW n \in DOMAIN round'[s].left
          PROVE  watch'[round'[s].left[n]].state # "new"
      <4>1. round'[s].left = round[s].left
        BY <1>5, <3>3
      <4>2. watch[round[s].left[n]].state # "new" /\ round[s].left[n] \in W!Watch
        BY <3>2, <3>3, <4>1 DEF WatchInv, OnItsRound
      <4> QED BY <2>1, <4>1, <4>2
    <3> QED BY <1>5, <2>1, <3>1, <3>3
  <2>3. OnItsRound(r)'
    BY <1>1, <1>5, <2>2 DEF OnItsRound
  <2>4. \A s \in Round : s # r => OnItsRound(s)'
    BY <1>1, <1>5, <1>6, <2>2 DEF WatchInv, OnItsRound
  <2> QED BY <2>3, <2>4
<1>9. \A v \in W!Watch : ToldOfMarks(v)'
  <2>1. \A v \in W!Watch : v # w => ToldOfMarks(v)'
    BY <1>4, <1>6 DEF WatchInv, ToldOfMarks
  <2>2. watch'[w].state # "new"
    <3>1. watch[w].state # "new"
      BY <1>1, OfQueue, WatchTypes DEF WatchInv, OnItsRound
    <3> QED BY <1>3, <1>4, <3>1
  <2>3. ASSUME w \notin slid', watch'[w].marks # W!Unseen
        PROVE  toldOf'[w] = watch'[w].marks
    <3>1. w \notin slid
      BY <1>6, <2>3
    <3>2. CASE got = W!Fail
      BY <1>2, <1>3, <1>4, <1>6, <2>3, <3>1, <3>2 DEF WatchInv, ToldOfMarks, W!News
    <3>3. CASE got # W!Fail
      <4>1. got = stored[w] /\ watch'[w].marks = got
        BY <1>1, <1>3, <1>4, <3>1, <3>3 DEF WatchInv, OnItsRound
      <4>2. CASE W!News(watch[w], got)
        BY <1>6, <4>1, <4>2
      <4>3. CASE ~W!News(watch[w], got)
        <5>1. watch[w].marks # W!Unseen => got = watch[w].marks
          BY <3>3, <4>3 DEF W!News
        <5>2. watch[w].marks = W!Unseen => got = 0 /\ toldOf[w] = 0
          BY <1>1, <1>2, <2>3, <3>3, <4>3 DEF W!News
        <5> QED BY <1>2, <1>6, <3>1, <4>1, <4>3, <5>1, <5>2 DEF WatchInv, ToldOfMarks
      <4> QED BY <4>2, <4>3
    <3> QED BY <3>2, <3>3
  <2> QED BY <2>1, <2>2, <2>3 DEF ToldOfMarks
<1> QED BY <1>7, <1>8, <1>9 DEF WatchInv

\* Every step keeps it.
LEMMA WatchInvStep == ASSUME W!Bounds, WatchInv, W!Next PROVE WatchInv'
<1> USE DEF W!storage, W!bounds, W!history
<1>1. ASSUME NEW w \in W!Watch, W!Begin(w) PROVE WatchInv'
  <2>1. /\ watch' = [watch EXCEPT ![w].state = "on"] /\ watch[w].state = "new"
        /\ toldOf' = [toldOf EXCEPT ![w] = stored[w]] /\ ticking' = TRUE
        /\ stored' = stored /\ answering' = answering
        /\ round' = round /\ troubled' = troubled /\ slid' = slid
        /\ changes' = changes /\ stops' = stops
    BY <1>1 DEF W!Begin
  <2>2. /\ watch' \in [W!Watch -> Watches] /\ watch'[w].state = "on" /\ watch'[w].marks = watch[w].marks
        /\ \A v \in W!Watch : v # w => watch'[v] = watch[v]
    BY <2>1, WatchTypes DEF WatchInv, Watches
  <2>3. toldOf' \in [W!Watch -> W!Mark] /\ \A v \in W!Watch : v # w => toldOf'[v] = toldOf[v]
    BY <2>1, WatchTypes DEF WatchInv
  <2>4. W!TypeOK'
    BY <2>1, <2>2, <2>3 DEF WatchInv, W!TypeOK, Watches
  <2>5. \A r \in Round : OnItsRound(r)'
    <3>1. \A r \in Round : \A n \in DOMAIN round[r].left : round[r].left[n] \in W!Watch
      BY OfQueue, WatchTypes DEF WatchInv
    <3>2. \A v \in W!Watch : watch[v].state # "new" => watch'[v].state # "new"
      BY <2>2
    <3> QED BY <2>1, <3>1, <3>2 DEF WatchInv, OnItsRound
  <2>6. \A v \in W!Watch : ToldOfMarks(v)'
    BY <2>1, <2>2, <2>3 DEF WatchInv, ToldOfMarks
  <2> QED BY <2>4, <2>5, <2>6 DEF WatchInv
<1>2. ASSUME NEW w \in W!Watch, W!Stop(w) PROVE WatchInv'
  <2>1. /\ watch' = [watch EXCEPT ![w].state = "stopped"] /\ ticking' = W!TimerAfter(w)
        /\ stored' = stored /\ answering' = answering
        /\ round' = round /\ troubled' = troubled
        /\ slid' = slid /\ toldOf' = toldOf /\ watch[w].state = "on"
        /\ changes' = changes /\ stops' = stops
    BY <1>2 DEF W!Stop, W!On
  <2>2. /\ watch' \in [W!Watch -> Watches] /\ watch'[w].state = "stopped"
        /\ watch'[w].marks = watch[w].marks
        /\ \A v \in W!Watch : v # w => watch'[v] = watch[v]
    BY <2>1, WatchTypes DEF WatchInv, Watches
  <2>3. W!TypeOK'
    <3>1. ticking' \in BOOLEAN
      BY <2>1 DEF W!TimerAfter, WatchInv, W!TypeOK
    <3> QED BY <2>1, <2>2, <3>1 DEF WatchInv, W!TypeOK, Watches
  <2>4. \A r \in Round : OnItsRound(r)'
    <3>1. \A r \in Round : \A n \in DOMAIN round[r].left : round[r].left[n] \in W!Watch
      BY OfQueue, WatchTypes DEF WatchInv
    <3>2. \A v \in W!Watch : watch[v].state # "new" => watch'[v].state # "new"
      BY <2>2
    <3> QED BY <2>1, <3>1, <3>2 DEF WatchInv, OnItsRound
  <2>5. \A v \in W!Watch : ToldOfMarks(v)'
    BY <2>1, <2>2 DEF WatchInv, ToldOfMarks
  <2> QED BY <2>3, <2>4, <2>5 DEF WatchInv
<1>3. ASSUME NEW w \in W!Watch, W!Change(w) PROVE WatchInv'
  <2>1. PICK to \in {0, W!Held + changes + 1} : stored' = [stored EXCEPT ![w] = to] /\ stored[w] # to
    BY <1>3 DEF W!Change
  <2>2. /\ slid' = IF W!Overtaken(w) THEN slid \cup {w} ELSE slid
        /\ answering' = answering
        /\ watch' = watch /\ ticking' = ticking
        /\ round' = round /\ troubled' = troubled /\ toldOf' = toldOf
        /\ changes < MaxChanges /\ changes' = changes + 1 /\ stops' = stops
    BY <1>3 DEF W!Change
  <2>3. W!TypeOK'
    <3>1. changes \in Nat /\ changes' \in 0..MaxChanges /\ to \in W!Mark
      BY <2>1, <2>2, W!Bounds DEF WatchInv, W!TypeOK, W!Mark, W!Held, W!Bounds
    <3>2. stored' \in [W!Watch -> W!Mark]
      BY <2>1, <3>1, WatchTypes DEF WatchInv
    <3> QED BY <2>2, <3>1, <3>2 DEF WatchInv, W!TypeOK
  <2>4. \A r \in Round : OnItsRound(r)'
    <3>1. \A v \in W!Watch : v # w => stored'[v] = stored[v]
      BY <2>1, WatchTypes DEF WatchInv
    <3>2. slid \subseteq slid'
      BY <2>2
    <3>3. ASSUME NEW r \in Round, round[r].left # <<>>, round[r].got \notin {W!Unseen, W!Fail},
                 Head(round[r].left) \notin slid'
          PROVE  round[r].got = stored'[Head(round[r].left)]
      <4>1. Head(round[r].left) # w
        BY <2>2, <3>3 DEF W!Overtaken
      <4>2. Head(round[r].left) \in W!Watch
        BY <3>3, OfQueue, WatchTypes DEF WatchInv
      <4> QED BY <3>1, <3>2, <3>3, <4>1, <4>2 DEF WatchInv, OnItsRound
    <3> QED BY <2>2, <3>3 DEF WatchInv, OnItsRound
  <2>5. \A v \in W!Watch : ToldOfMarks(v)'
    BY <2>2 DEF WatchInv, ToldOfMarks
  <2> QED BY <2>3, <2>4, <2>5 DEF WatchInv
<1>4. ASSUME NEW w \in W!Watch, W!StopOrStart(w) PROVE WatchInv'
  <2>1. /\ answering' = (IF w \in answering THEN answering \ {w} ELSE answering \cup {w})
        /\ stored' = stored /\ watch' = watch
        /\ ticking' = ticking /\ round' = round /\ troubled' = troubled /\ slid' = slid /\ toldOf' = toldOf
        /\ changes' = changes /\ stops' = stops + 1 /\ stops < MaxStops
    BY <1>4 DEF W!StopOrStart
  <2>2. W!TypeOK'
    BY <2>1, W!Bounds DEF WatchInv, W!TypeOK, W!Bounds
  <2> QED BY <2>1, <2>2 DEF WatchInv, OnItsRound, ToldOfMarks
<1>5. ASSUME NEW r \in Round, W!Beat(r) PROVE WatchInv'
  <2>1. PICK queue \in W!Queues : /\ round[r].left = <<>> /\ {queue[n] : n \in DOMAIN queue} = W!On
                                  /\ round' = [round EXCEPT ![r].left = queue]
    BY <1>5 DEF W!Beat
  <2>2. /\ stored' = stored /\ answering' = answering
        /\ watch' = watch /\ ticking' = ticking /\ troubled' = troubled
        /\ slid' = slid /\ toldOf' = toldOf
        /\ changes' = changes /\ stops' = stops
    BY <1>5 DEF W!Beat
  <2>3. round[r].got = W!Unseen
    BY <2>1 DEF WatchInv, OnItsRound
  <2>4. /\ round' \in [Round -> Rounds] /\ round'[r].left = queue /\ round'[r].got = W!Unseen
        /\ \A s \in Round : s # r => round'[s] = round[s]
    BY <2>1, <2>3, WatchTypes DEF WatchInv, Rounds
  <2>5. W!TypeOK'
    BY <2>2, <2>4 DEF WatchInv, W!TypeOK, Rounds
  <2>6. \A n \in DOMAIN queue : watch[queue[n]].state # "new"
    BY <2>1 DEF W!On
  <2> QED BY <2>2, <2>4, <2>5, <2>6 DEF WatchInv, OnItsRound, ToldOfMarks
<1>6. ASSUME NEW r \in Round, W!Answer(r) PROVE WatchInv'
  <2> DEFINE w == Head(round[r].left)  got == IF w \in answering THEN stored[w] ELSE W!Fail
  <2>1. /\ round[r].left # <<>> /\ round' = [round EXCEPT ![r].got = got]
        /\ stored' = stored /\ answering' = answering
        /\ watch' = watch /\ ticking' = ticking /\ troubled' = troubled
        /\ slid' = slid /\ toldOf' = toldOf
        /\ changes' = changes /\ stops' = stops
    BY <1>6 DEF W!Answer
  <2>2. got \in W!Mark \cup {W!Fail} /\ (got # W!Fail => got = stored[w])
    BY <2>1, OfQueue, WatchTypes DEF WatchInv
  <2> HIDE DEF got
  <2>3. /\ round' \in [Round -> Rounds] /\ round'[r].left = round[r].left /\ round'[r].got = got
        /\ \A s \in Round : s # r => round'[s] = round[s]
    BY <2>1, <2>2, WatchTypes DEF WatchInv, Rounds
  <2>4. W!TypeOK'
    BY <2>1, <2>3 DEF WatchInv, W!TypeOK, Rounds
  <2> QED BY <2>1, <2>2, <2>3, <2>4 DEF WatchInv, OnItsRound, ToldOfMarks
<1> QED BY <1>1, <1>2, <1>3, <1>4, <1>5, <1>6, HandleStep DEF W!Next

\* So does a step of something else.
LEMMA WatchInvStutter == ASSUME WatchInv, UNCHANGED W!vars PROVE WatchInv'
BY DEF W!vars, W!storage, W!bounds, W!history, WatchInv, W!TypeOK, OnItsRound, ToldOfMarks

\* It says that the news of a listing is told.
LEMMA WatchInvMeans == ASSUME W!Bounds, WatchInv PROVE W!NewsIsTold
BY WatchTypes, Marks DEF WatchInv, W!NewsIsTold, ToldOfMarks, W!On

\* Rounds that overlap lose no news: when the last listing of a watch is what the
\* storage holds, its watcher was told to look since, unless a change overtook a
\* listing or there was nothing at the first look (AdapterWatch; adapter.js poll).
THEOREM WatchersAreTold == ASSUME W!Bounds PROVE W!Spec => []W!NewsIsTold
<1>1. W!Init => WatchInv
  BY WatchInvInit
<1>2. WatchInv /\ [W!Next]_W!vars => WatchInv'
  BY WatchInvStep, WatchInvStutter
<1>3. WatchInv => W!NewsIsTold
  BY WatchInvMeans
<1> QED BY <1>1, <1>2, <1>3, PTL DEF W!Spec

-----------------------------------------------------------------------------
(* The settings (Settings): what is stored of a source.                      *)

CallPc == {"idle", "opening", "building", "probing", "storing", "reading", "proving", "merging", "forgetting", "deleting"}
Rec == [kind : {"none", "switch", "add", "edit", "remove"}, pc : CallPc, of : Source \cup {"none"}, place : {0} \cup Settings!Place,
        typed : Settings!Secret, seen : Settings!Secret, wasOpen : BOOLEAN, alone : BOOLEAN, sweep : Nat,
        got : [Source -> {"skip", "todo", "open", "ok", "broken"}]]

SettingsTypes ==
  /\ attached \cup removed \subseteq Source /\ attached \cap removed = {}
  /\ place \in [Source -> Settings!Place] /\ secret \in [Source -> Settings!Secret]
  /\ open \in Source \cup {"none"} /\ built \in [place : {0} \cup Settings!Place, secret : Settings!Secret]
  /\ health \in [Source -> {"unknown", "ok", "broken"}]
  /\ edit \in [Call -> Rec]
  /\ sweeps \in Nat /\ arrived \in Nat
  /\ unproven \cup refused \subseteq Source /\ outrun \in BOOLEAN /\ blended \subseteq Source

\* What each kind of call goes through.
KindIs(r) ==
  /\ r.pc = "idle" => r = Settings!Idle
  /\ r.pc # "idle" => r.of \in Source
  /\ CASE r.kind = "none"   -> r.pc = "idle"
       [] r.kind = "switch" -> r.pc \in {"opening", "building"}
       [] r.kind = "add"    -> r.pc \in {"storing", "opening", "building", "probing"}
       [] r.kind = "edit"   -> r.pc \in {"reading", "proving", "merging", "storing", "building", "probing"} /\ r.place \in Settings!Place
       [] r.kind = "remove" -> r.pc \in {"forgetting", "deleting", "opening", "building", "probing"}
  /\ r.kind = "add" => r.of \in attached \cup removed
  /\ r.kind = "remove" /\ r.pc # "forgetting" => r.of \in removed
KindsInv == \A c \in Call : KindIs(edit[c])

\* What a call that met no other on its source holds of it.
AloneIs(c) ==
  LET r == edit[c] IN
  /\ \A d \in Settings!On(r.of) : d = c
  /\ r.kind = "add" => r.of \in attached
  /\ r.kind = "edit" =>
       /\ r.of \in attached \/ r.of \in unproven
       /\ r.pc = "proving" => r.seen = Settings!Candidate(secret[r.of], r.typed)
       /\ r.pc = "merging" => place[r.of] = r.place /\ Settings!Works(r.place, Settings!Candidate(secret[r.of], r.typed))
       /\ r.pc = "storing" => Settings!Works(place[r.of], r.seen)

\* Between its two halves a change is no longer what it was, and not yet what it will be.
Halfway(s) == \E c \in Settings!On(s) : edit[c].pc \in {"merging", "storing", "deleting"}
Together(s) == (s \in attached => Settings!Works(place[s], secret[s])) /\ (s \in removed => secret[s] = Settings!Nothing)

AloneAt(s) == \A c \in Settings!On(s) : edit[c].alone => AloneIs(c)
TogetherAt(s) == s \notin unproven \cup refused =>
  /\ \A c \in Settings!On(s) : edit[c].alone
  /\ Halfway(s) \/ Together(s)
TogetherInv == \A s \in Source : AloneAt(s) /\ TogetherAt(s)

\* Sweeps are numbered as they begin, and the youngest is under way or has landed.
Probes(c) == edit[c].pc = "probing"
SweepsInv ==
  /\ arrived \in 0..sweeps
  /\ \A c \in Call : Probes(c) => edit[c].sweep \in 1..sweeps /\ edit[c].sweep # arrived
  /\ \A c, d \in Call : Probes(c) /\ Probes(d) /\ edit[c].sweep = edit[d].sweep => c = d
  /\ arrived = sweeps \/ \E c \in Call : Probes(c) /\ edit[c].sweep = sweeps

\* A change is followed by a sweep yet to begin, or the youngest tells of it
\* (of a source that was not open, or was, to its end).
OwedBy(c, s) == edit[c].of = s /\ edit[c].kind \in {"add", "edit"} /\ edit[c].pc \in {"merging", "storing", "opening", "building"}
Owed(s) == \E c \in Call : OwedBy(c, s)
Told(s) == Settings!Found(Settings!Stored(s))
Current(s) ==
  \/ \E c \in Call : Probes(c) /\ edit[c].sweep = sweeps /\ edit[c].got[s] \in {"todo", "open", Told(s)}
  \/ arrived = sweeps /\ (~outrun => health[s] = Told(s))
  \/ s \in blended

\* The reader is of what is stored, unless it is being built anew or will be.
ReaderIs(s) == built = Settings!NoReader \/ built = Settings!Stored(s) \/ \E c \in Call : Settings!Opening(c)
SeenIs(s) == \A c \in Call : Settings!Opening(c) => edit[c].seen = secret[s] \/ \E d \in Call : d # c /\ OwedBy(d, s)
OneOpening == \A c, d \in Call : Settings!Opening(c) /\ Settings!Opening(d) => c = d
HealthAt(s) ==
  /\ Owed(s) \/ Current(s)
  /\ open = s => SeenIs(s) /\ (Owed(s) \/ ReaderIs(s))
Clear == blended # Source
HealthInv == Clear => OneOpening /\ \A s \in attached \ refused : HealthAt(s)

SettingsInv == SettingsTypes /\ KindsInv /\ TogetherInv /\ SweepsInv /\ HealthInv

-----------------------------------------------------------------------------
(* One call at a time.                                                       *)

\* A call that is over, and a call as it may be.
LEMMA IdleRec ==
  ASSUME Settings!Bounds
  PROVE  /\ Settings!Idle \in Rec /\ Settings!Idle.of = "none" /\ Settings!Idle.kind = "none" /\ Settings!Idle.pc = "idle" /\ Settings!Nothing \in Settings!Secret
         /\ "none" \notin Source
BY DEF Settings!Idle, Rec, Settings!Nothing, Settings!Secret, CallPc, Settings!Bounds

\* One call becomes a record, the others stay as they are.
LEMMA BecomesIs ==
  ASSUME SettingsTypes, NEW c \in Call, NEW r \in Rec, Settings!Become(c, r)
  PROVE  edit' \in [Call -> Rec] /\ edit'[c] = r /\ \A d \in Call : d # c => edit'[d] = edit[d]
BY DEF Settings!Become, SettingsTypes

\* What another call's beginning leaves of one: all but that it was alone.
Alike(d) ==
  /\ edit'[d].kind = edit[d].kind /\ edit'[d].pc = edit[d].pc /\ edit'[d].of = edit[d].of
  /\ edit'[d].seen = edit[d].seen /\ edit'[d].sweep = edit[d].sweep /\ edit'[d].got = edit[d].got

\* The kinds of the others stand.
LEMMA KindsKeep ==
  ASSUME KindsInv, NEW c \in Call, KindIs(edit[c])', \A d \in Call : d # c => edit'[d] = edit[d],
         attached \cup removed \subseteq attached' \cup removed', removed \subseteq removed'
  PROVE  KindsInv'
<1>1. ASSUME NEW d \in Call, d # c PROVE KindIs(edit[d])'
  <2>1. KindIs(edit[d]) /\ edit'[d] = edit[d]
    BY <1>1 DEF KindsInv
  <2> QED BY <2>1 DEF KindIs, Settings!Idle
<1> QED BY <1>1 DEF KindsInv

\* Where nothing is done, nothing changes.
SameAt(s) ==
  /\ place'[s] = place[s] /\ secret'[s] = secret[s]
  /\ (s \in attached' <=> s \in attached) /\ (s \in removed' <=> s \in removed)
  /\ (s \in unproven' <=> s \in unproven) /\ (s \in refused' <=> s \in refused)

\* A step about one source leaves what is held of the others.
LEMMA TogetherKeeps ==
  ASSUME TogetherInv, NEW c \in Call, NEW of,
         \A s \in Source : s # of => SameAt(s) /\ c \notin Settings!On(s) /\ c \notin Settings!On(s)',
         \A d \in Call : d # c /\ edit[d].of # of => edit'[d] = edit[d],
         \A d \in Call : d # c => edit'[d].of = edit[d].of,
         of \in Source => AloneAt(of)' /\ TogetherAt(of)'
  PROVE  TogetherInv'
<1>1. ASSUME NEW s \in Source, s # of PROVE AloneAt(s)' /\ TogetherAt(s)'
  <2>0. SameAt(s) /\ AloneAt(s) /\ TogetherAt(s)
    BY <1>1 DEF TogetherInv
  <2>1. Settings!On(s)' = Settings!On(s) /\ \A d \in Settings!On(s) : d \in Call /\ edit'[d] = edit[d] /\ edit[d].of = s
    BY <1>1 DEF Settings!On
  <2>2. AloneAt(s)'
    <3>1. ASSUME NEW d \in Settings!On(s), edit[d].alone PROVE AloneIs(d)'
      <4>1. AloneIs(d)
        BY <2>0, <3>1 DEF AloneAt
      <4> QED BY <2>0, <2>1, <4>1 DEF AloneIs, SameAt
    <3> QED BY <2>1, <3>1 DEF AloneAt
  <2>3. TogetherAt(s)'
    BY <2>0, <2>1 DEF TogetherAt, Halfway, Together, SameAt
  <2> QED BY <2>2, <2>3
<1> QED BY <1>1 DEF TogetherInv

\* What a step of an edit has to have read.
EditIs(r, s) ==
  r.kind = "edit" =>
    /\ r.pc = "proving" => r.seen = Settings!Candidate(secret[s], r.typed)
    /\ r.pc = "merging" => place[s] = r.place /\ Settings!Works(r.place, Settings!Candidate(secret[s], r.typed))
    /\ r.pc = "storing" => Settings!Works(place[s], r.seen)
Half(pc) == pc \in {"merging", "storing", "deleting"}

\* A switch touches nothing that is stored.
LEMMA TogetherSame ==
  ASSUME TogetherInv, UNCHANGED <<attached, removed, place, secret, unproven, refused>>,
         \A x \in Source : Settings!On(x)' = Settings!On(x) /\ \A d \in Settings!On(x) : edit'[d] = edit[d]
  PROVE  TogetherInv'
<1>1. ASSUME NEW x \in Source PROVE AloneAt(x)' /\ TogetherAt(x)'
  <2>1. AloneAt(x) /\ TogetherAt(x)
    BY DEF TogetherInv
  <2>2. AloneAt(x)'
    <3>1. ASSUME NEW d \in Settings!On(x), edit[d].alone PROVE AloneIs(d)'
      <4>1. AloneIs(d) /\ edit[d].of = x /\ edit'[d] = edit[d]
        BY <2>1, <3>1 DEF AloneAt, Settings!On
      <4> QED BY <4>1 DEF AloneIs
    <3> QED BY <3>1 DEF AloneAt
  <2>3. TogetherAt(x)'
    BY <2>1 DEF TogetherAt, Halfway, Together
  <2> QED BY <2>2, <2>3
<1> QED BY <1>1 DEF TogetherInv

\* A step of a call that stores nothing, or of its end.
LEMMA QuietCall ==
  ASSUME Settings!Bounds, SettingsTypes, KindsInv, TogetherInv, NEW c \in Call, edit[c].pc # "idle",
         UNCHANGED <<Settings!stored, unproven, refused>>,
         \A d \in Call : d # c => edit'[d] = edit[d],
         \/ edit'[c] = Settings!Idle /\ ~Half(edit[c].pc)
         \/ /\ edit'[c].kind = edit[c].kind /\ edit'[c].of = edit[c].of /\ edit'[c].alone = edit[c].alone
            /\ EditIs(edit'[c], edit[c].of) \/ ~edit[c].alone
            /\ Half(edit[c].pc) => Half(edit'[c].pc)
  PROVE  TogetherInv'
<1>s. PICK s \in Source : s = edit[c].of
  BY DEF KindsInv, KindIs
<1>0. UNCHANGED <<attached, removed, place, secret>> /\ \A x \in Source : SameAt(x)
  BY DEF Settings!stored, SameAt
<1>1. edit[c].of = s /\ "none" \notin Source /\ Settings!Idle.of = "none" /\ Settings!Idle.kind = "none"
  BY <1>s, IdleRec
<1>2. AloneAt(s) /\ TogetherAt(s)
  BY <1>1 DEF TogetherInv
<1>3. CASE edit[c].kind = "switch"
  <2>1. Settings!On(s)' = Settings!On(s) /\ \A d \in Settings!On(s) : d # c
    BY <1>1, <1>3, IdleRec DEF Settings!On
  <2>2. \A x \in Source : Settings!On(x)' = Settings!On(x) /\ \A d \in Settings!On(x) : edit'[d] = edit[d]
    BY <1>1, <1>3, IdleRec DEF Settings!On
  <2> QED BY <1>0, <2>2, TogetherSame
<1>4. CASE edit[c].kind # "switch"
  <2>1. c \in Settings!On(s) /\ Settings!On(s)' \subseteq Settings!On(s) /\ (Settings!On(s)' = Settings!On(s) \/ edit'[c] = Settings!Idle)
    BY <1>1, <1>4 DEF Settings!On
  <2>2. AloneAt(s)'
    <3>1. ASSUME NEW d \in Settings!On(s)', edit'[d].alone PROVE AloneIs(d)'
      <4>0. d \in Settings!On(s) /\ d \in Call /\ edit'[d].of = s /\ edit[d].of = s
        BY <2>1, <3>1 DEF Settings!On
      <4>a. edit'[d].alone = edit[d].alone
        BY <1>1, <4>0
      <4>1. d \in Settings!On(s) /\ d \in Call /\ edit[d].alone /\ edit'[d].of = s /\ edit[d].of = s
        BY <3>1, <4>0, <4>a
      <4>2. AloneIs(d)
        BY <1>2, <4>1 DEF AloneAt
      <4>3. \A e \in Settings!On(s)' : e = d
        BY <2>1, <4>1, <4>2 DEF AloneIs
      <4>4. d # c => EditIs(edit'[d], s)
        BY <4>1, <4>2 DEF AloneIs, EditIs
      <4>5. d = c => EditIs(edit'[d], s)
        BY <1>1, <3>1, <4>1
      <4>6. edit'[d].kind = edit[d].kind
        BY <4>1, <3>1, <1>1
      <4> QED BY <1>0, <4>1, <4>2, <4>3, <4>4, <4>5, <4>6 DEF AloneIs, EditIs
    <3> QED BY <3>1 DEF AloneAt
  <2>3. TogetherAt(s)'
    <3>1. Halfway(s) => Halfway(s)'
      BY <1>1, <2>1 DEF Halfway, Half, Settings!On
    <3>2. (\A d \in Settings!On(s) : edit[d].alone) => \A d \in Settings!On(s)' : edit'[d].alone
      BY <1>1, <2>1 DEF Settings!On
    <3> QED BY <1>0, <1>2, <3>1, <3>2 DEF TogetherAt, Together
  <2>4. \A x \in Source : x # s => c \notin Settings!On(x) /\ c \notin Settings!On(x)'
    BY <1>1 DEF Settings!On
  <2>5. \A d \in Call : d # c => edit'[d] = edit[d]
    OBVIOUS
  <2> QED BY <1>0, <2>2, <2>3, <2>4, <2>5, TogetherKeeps
<1> QED BY <1>3, <1>4

-----------------------------------------------------------------------------
(* Sweeps.                                                                   *)

\* Nothing of it changes as long as no sweep begins or lands.
LEMMA SweepsKeep ==
  ASSUME SweepsInv, UNCHANGED <<sweeps, arrived>>, NEW c \in Call, ~Probes(c), ~Probes(c)',
         \A d \in Call : d # c => Alike(d)
  PROVE  SweepsInv'
BY DEF SweepsInv, Probes, Alike

\* A sweep that begins is the youngest.
LEMMA SweepsBegin ==
  ASSUME SettingsTypes, SweepsInv, arrived' = arrived, sweeps' = sweeps + 1, NEW c \in Call, edit'[c].pc = "probing",
         edit'[c].sweep = sweeps + 1, \A d \in Call : d # c => Alike(d)
  PROVE  SweepsInv'
<1>1. arrived' \in 0..sweeps' /\ arrived' # sweeps'
  BY DEF SettingsTypes, SweepsInv
<1>2. \A d \in Call : Probes(d)' => d = c \/ (d # c /\ Probes(d) /\ edit'[d].sweep = edit[d].sweep)
  BY DEF Probes, Alike
<1>3. \A d \in Call : Probes(d) => edit[d].sweep \in 1..sweeps
  BY DEF SweepsInv
<1>4. \A d \in Call : Probes(d)' => edit'[d].sweep \in 1..sweeps' /\ edit'[d].sweep # arrived'
  <2>1. ASSUME NEW d \in Call, d # c, Probes(d) PROVE edit[d].sweep \in 1..sweeps' /\ edit[d].sweep # arrived
    BY <2>1 DEF SettingsTypes, SweepsInv
  <2> QED BY <1>2, <2>1 DEF SettingsTypes, SweepsInv
<1>5. \A d, e \in Call : Probes(d)' /\ Probes(e)' /\ edit'[d].sweep = edit'[e].sweep => d = e
  <2>1. \A d \in Call : d # c /\ Probes(d)' => edit'[d].sweep # sweeps + 1
    BY <1>2, <1>3 DEF SettingsTypes
  <2>2. ASSUME NEW d \in Call, NEW e \in Call, d # c, e # c, Probes(d)', Probes(e)', edit'[d].sweep = edit'[e].sweep
        PROVE  d = e
    BY <1>2, <2>2 DEF SweepsInv
  <2> QED BY <2>1, <2>2
<1>6. Probes(c)' /\ edit'[c].sweep = sweeps'
  BY DEF Probes
<1> QED BY <1>1, <1>4, <1>5, <1>6 DEF SweepsInv

\* One that lands is under way no longer.
LEMMA SweepsLand ==
  ASSUME SettingsTypes, SweepsInv, sweeps' = sweeps, NEW c \in Call, Probes(c), ~Probes(c)',
         arrived' = IF edit[c].sweep < arrived THEN arrived ELSE edit[c].sweep,
         \A d \in Call : d # c => Alike(d)
  PROVE  SweepsInv'
<1>1. \A d \in Call : Probes(d)' => d # c /\ Probes(d) /\ edit'[d].sweep = edit[d].sweep
  BY DEF Probes, Alike
<1>2. edit[c].sweep \in 1..sweeps /\ edit[c].sweep # arrived /\ arrived \in 0..sweeps /\ sweeps \in Nat
  BY DEF SettingsTypes, SweepsInv
<1>3. arrived' \in 0..sweeps'
  BY <1>2
<1>4. \A d \in Call : Probes(d)' => edit'[d].sweep \in 1..sweeps' /\ edit'[d].sweep # arrived'
  BY <1>1, <1>2 DEF SweepsInv
<1>5. \A d, e \in Call : Probes(d)' /\ Probes(e)' /\ edit'[d].sweep = edit'[e].sweep => d = e
  BY <1>1 DEF SweepsInv
<1>6. arrived' = sweeps' \/ \E d \in Call : Probes(d)' /\ edit'[d].sweep = sweeps'
  <2>1. CASE arrived = sweeps
    BY <1>2, <2>1
  <2>2. CASE edit[c].sweep = sweeps
    BY <1>2, <2>2
  <2>3. ASSUME NEW d \in Call, d # c, Probes(d), edit[d].sweep = sweeps PROVE <1>6!2
    BY <2>3 DEF Probes, Alike
  <2> QED BY <2>1, <2>2, <2>3 DEF SweepsInv
<1> QED BY <1>3, <1>4, <1>5, <1>6 DEF SweepsInv

-----------------------------------------------------------------------------
(* Health.                                                                   *)

\* A call goes on without a look, a sweep or an opening of its own: what it owes
\* it owes still, or owes from now on.
LEMMA HealthKeeps ==
  ASSUME HealthInv, NEW c \in Call, blended' = blended,
         UNCHANGED <<open, built, health, sweeps, arrived, outrun>>,
         \A d \in Call : d # c => Alike(d), ~Probes(c), ~Probes(c)', ~Settings!Opening(c), ~Settings!Opening(c)',
         \A s \in attached' \ refused' :
           \/ OwedBy(c, s)'
           \/ /\ s \in attached \ refused /\ place'[s] = place[s] /\ secret'[s] = secret[s] /\ ~OwedBy(c, s)
  PROVE  HealthInv'
<1> SUFFICES ASSUME Clear PROVE OneOpening' /\ \A s \in attached' \ refused' : HealthAt(s)'
  BY DEF HealthInv, Clear
<1>1. \A d \in Call : Settings!Opening(d)' => d # c /\ Settings!Opening(d) /\ edit'[d].seen = edit[d].seen
  BY DEF Settings!Opening, Alike
<1>2. \A d \in Call : Settings!Opening(d) => Settings!Opening(d)'
  BY DEF Settings!Opening, Alike
<1>3. OneOpening'
  BY <1>1 DEF HealthInv, OneOpening
<1>4. ASSUME NEW s \in attached' \ refused' PROVE HealthAt(s)'
  <2>1. CASE OwedBy(c, s)'
    <3>1. Owed(s)'
      BY <2>1 DEF Owed
    <3>2. SeenIs(s)'
      BY <1>1, <2>1 DEF SeenIs
    <3> QED BY <3>1, <3>2 DEF HealthAt
  <2>2. CASE s \in attached \ refused /\ place'[s] = place[s] /\ secret'[s] = secret[s] /\ ~OwedBy(c, s)
    <3>1. HealthAt(s)
      BY <2>2 DEF HealthInv
    <3>2. \A d \in Call : d # c => (OwedBy(d, s)' <=> OwedBy(d, s))
      BY DEF OwedBy, Alike
    <3>3. Owed(s) => Owed(s)'
      BY <2>2, <3>2 DEF Owed
    <3>4. Current(s) => Current(s)'
      <4>1. Told(s)' = Told(s)
        BY <2>2 DEF Told, Settings!Found, Settings!Stored
      <4>2. \A d \in Call : Probes(d) => d # c /\ Probes(d)' /\ edit'[d].sweep = edit[d].sweep /\ edit'[d].got = edit[d].got
        BY DEF Probes, Alike
      <4> QED BY <4>1, <4>2 DEF Current
    <3>5. SeenIs(s) => SeenIs(s)'
      <4>1. ASSUME NEW d \in Call, d # c, Settings!Opening(d), NEW e \in Call, e # d, OwedBy(e, s)
            PROVE  OwedBy(e, s)'
        BY <2>2, <3>2, <4>1
      <4>2. ASSUME SeenIs(s), NEW d \in Call, Settings!Opening(d)' PROVE edit'[d].seen = secret'[s] \/ \E e \in Call : e # d /\ OwedBy(e, s)'
        BY <1>1, <2>2, <4>1, <4>2 DEF SeenIs
      <4> QED BY <4>2 DEF SeenIs
    <3>6. ReaderIs(s) => ReaderIs(s)'
      <4>1. Settings!Stored(s)' = Settings!Stored(s)
        BY <2>2 DEF Settings!Stored
      <4> QED BY <1>2, <4>1 DEF ReaderIs
    <3> QED BY <3>1, <3>3, <3>4, <3>5, <3>6 DEF HealthAt
  <2> QED BY <2>1, <2>2
<1> QED BY <1>3, <1>4

\* A sweep that begins will look at every source there is.
LEMMA HealthSweeps ==
  ASSUME SettingsTypes, HealthInv, NEW c \in Call, blended' = blended, sweeps' = sweeps + 1, open' = open,
         edit'[c].pc = "probing", edit'[c].sweep = sweeps + 1,
         edit'[c].got = [s \in Source |-> IF s \notin attached' THEN "skip" ELSE IF s = open THEN "open" ELSE "todo"],
         attached' \subseteq Source, \A d \in Call : d # c => Alike(d),
         open \in attached' \ refused' =>
           /\ open \in attached \ refused /\ place'[open] = place[open] /\ secret'[open] = secret[open]
           /\ \/ ~Settings!Opening(c) /\ ~OwedBy(c, open) /\ built' = built
              \/ Settings!Opening(c) /\ built' = [place |-> place[open], secret |-> edit[c].seen]
  PROVE  HealthInv'
<1> SUFFICES ASSUME Clear PROVE OneOpening' /\ \A s \in attached' \ refused' : HealthAt(s)'
  BY DEF HealthInv, Clear
<1>1. \A d \in Call : Settings!Opening(d)' => d # c /\ Settings!Opening(d) /\ edit'[d].seen = edit[d].seen
  BY DEF Settings!Opening, Alike
<1>2. \A d \in Call : d # c /\ Settings!Opening(d) => Settings!Opening(d)'
  BY DEF Settings!Opening, Alike
<1>3. OneOpening'
  BY <1>1 DEF HealthInv, OneOpening
<1>4. ASSUME NEW s \in attached' \ refused' PROVE Current(s)'
  BY DEF Current, Probes
<1>5. ASSUME open \in attached' \ refused' PROVE SeenIs(open)' /\ (Owed(open)' \/ ReaderIs(open)')
  <2>1. HealthAt(open) /\ OneOpening
    BY <1>5 DEF HealthInv
  <2>2. \A d \in Call : d # c => (OwedBy(d, open)' <=> OwedBy(d, open))
    BY DEF OwedBy, Alike
  <2>3. CASE Settings!Opening(c)
    <3>1. \A d \in Call : ~Settings!Opening(d)'
      BY <1>1, <2>1, <2>3 DEF OneOpening
    <3>2. edit[c].seen = secret[open] \/ \E d \in Call : d # c /\ OwedBy(d, open)
      BY <2>1, <2>3 DEF HealthAt, SeenIs
    <3>3. built' = [place |-> place[open], secret |-> edit[c].seen]
      BY <1>5, <2>3
    <3>4. CASE edit[c].seen = secret[open]
      <4>1. built' = Settings!Stored(open)'
        BY <1>5, <3>3, <3>4 DEF Settings!Stored
      <4> QED BY <3>1, <4>1 DEF SeenIs, ReaderIs
    <3>5. CASE \E d \in Call : d # c /\ OwedBy(d, open)
      BY <2>2, <3>1, <3>5 DEF SeenIs, Owed
    <3> QED BY <3>2, <3>4, <3>5
  <2>4. CASE ~Settings!Opening(c)
    <3>1. ~OwedBy(c, open) /\ built' = built
      BY <1>5, <2>4
    <3>2. Owed(open) => Owed(open)'
      BY <2>2, <3>1 DEF Owed
    <3>3. ReaderIs(open) => ReaderIs(open)'
      <4>1. Settings!Stored(open)' = Settings!Stored(open)
        BY <1>5 DEF Settings!Stored
      <4> QED BY <1>2, <2>4, <3>1, <4>1 DEF ReaderIs
    <3>4. SeenIs(open)'
      <4>1. ASSUME NEW d \in Call, Settings!Opening(d)' PROVE edit'[d].seen = secret'[open] \/ \E e \in Call : e # d /\ OwedBy(e, open)'
        <5>1. d # c /\ (edit[d].seen = secret[open] \/ \E e \in Call : e # d /\ OwedBy(e, open))
          BY <1>1, <2>1, <4>1 DEF HealthAt, SeenIs
        <5> QED BY <1>1, <1>5, <2>2, <3>1, <4>1, <5>1
      <4> QED BY <4>1 DEF SeenIs
    <3> QED BY <2>1, <3>2, <3>3, <3>4 DEF HealthAt
  <2> QED BY <2>3, <2>4
<1>6. \A s \in attached' \ refused' : HealthAt(s)'
  <2>1. ASSUME NEW s \in attached' \ refused', open = s PROVE SeenIs(s)' /\ (Owed(s)' \/ ReaderIs(s)')
    BY <1>5, <2>1
  <2> QED BY <1>4, <2>1 DEF HealthAt
<1> QED BY <1>3, <1>6

\* An opening that meets no other reads what is stored as it begins.
LEMMA HealthOpens ==
  ASSUME HealthInv, NEW c \in Call, blended' = Settings!Meeting,
         UNCHANGED <<built, health, sweeps, arrived, outrun>>,
         edit'[c].pc = "building", open' \in attached' => edit'[c].seen = secret'[open'],
         \A d \in Call : d # c => Alike(d), ~Probes(c),
         \A s \in attached' \ refused' :
           \/ OwedBy(c, s)'
           \/ /\ s \in attached \ refused /\ place'[s] = place[s] /\ secret'[s] = secret[s] /\ ~OwedBy(c, s)
  PROVE  HealthInv'
<1> SUFFICES ASSUME Clear, \A d \in Call : ~Settings!Opening(d), blended' = blended PROVE OneOpening' /\ \A s \in attached' \ refused' : HealthAt(s)'
  BY DEF HealthInv, Clear, Settings!Meeting
<1>1. Settings!Opening(c)' /\ \A d \in Call : Settings!Opening(d)' => d = c
  BY DEF Settings!Opening, Alike
<1>2. OneOpening'
  BY <1>1 DEF OneOpening
<1>3. ASSUME NEW s \in attached' \ refused' PROVE HealthAt(s)'
  <2>1. open' = s => SeenIs(s)' /\ ReaderIs(s)'
    BY <1>1 DEF SeenIs, ReaderIs
  <2>2. CASE OwedBy(c, s)'
    BY <2>1, <2>2 DEF HealthAt, Owed
  <2>3. CASE s \in attached \ refused /\ place'[s] = place[s] /\ secret'[s] = secret[s] /\ ~OwedBy(c, s)
    <3>1. HealthAt(s)
      BY <2>3 DEF HealthInv
    <3>2. \A d \in Call : d # c => (OwedBy(d, s)' <=> OwedBy(d, s))
      BY DEF OwedBy, Alike
    <3>3. Owed(s) => Owed(s)'
      BY <2>3, <3>2 DEF Owed
    <3>4. Current(s) => Current(s)'
      <4>1. Told(s)' = Told(s)
        BY <2>3 DEF Told, Settings!Found, Settings!Stored
      <4>2. \A d \in Call : Probes(d) => d # c /\ Probes(d)' /\ edit'[d].sweep = edit[d].sweep /\ edit'[d].got = edit[d].got
        BY DEF Probes, Alike
      <4> QED BY <4>1, <4>2 DEF Current
    <3> QED BY <2>1, <3>1, <3>3, <3>4 DEF HealthAt
  <2> QED BY <2>2, <2>3
<1> QED BY <1>2, <1>3
\* What a sweep's look finds of a source is how it is, or something is owed.
LEMMA HealthLook ==
  ASSUME SettingsTypes, HealthInv, NEW c \in Call, NEW s \in Source, Settings!Look(c, s)
  PROVE  HealthInv'
<1> DEFINE byReader == edit[c].got[s] = "open" /\ built # Settings!NoReader
           found == Settings!Found(IF byReader THEN built ELSE Settings!Stored(s))
           r == [edit[c] EXCEPT !.got = [@ EXCEPT ![s] = found]]
<1>0. edit[c] \in Rec /\ Probes(c) /\ found \in {"ok", "broken"}
  BY DEF SettingsTypes, Settings!Look, Probes, Settings!Found
<1>a. found = Settings!Found(IF byReader THEN built ELSE Settings!Stored(s))
  OBVIOUS
<1>b. blended' = IF byReader /\ (open # s \/ \E d \in Call : Settings!Opening(d)) THEN blended \cup {s} ELSE blended
  BY DEF Settings!Look
<1> HIDE DEF found
<1>1. r \in Rec /\ r.pc = "probing" /\ r.sweep = edit[c].sweep /\ r.got[s] = found /\ (\A x \in Source : x # s => r.got[x] = edit[c].got[x])
      /\ r.kind = edit[c].kind
  BY <1>0 DEF Rec, CallPc, Probes
<1>2. Settings!Become(c, r)
  BY DEF Settings!Look, found
<1> HIDE DEF r
<1>3. edit'[c] = r /\ \A d \in Call : d # c => edit'[d] = edit[d]
  BY <1>1, <1>2, BecomesIs
<1>4. UNCHANGED <<attached, place, secret, open, built, health, sweeps, arrived, refused, outrun>>
  BY DEF Settings!Look, Settings!stored, Settings!reading
<1> SUFFICES ASSUME Clear
             PROVE  OneOpening' /\ \A x \in attached \ refused : HealthAt(x)'
  BY <1>4, <1>b DEF HealthInv, Clear, SettingsTypes
<1>5. \A d \in Call : /\ Settings!Opening(d)' <=> Settings!Opening(d)
                      /\ Settings!Opening(d) => edit'[d].seen = edit[d].seen
                      /\ Probes(d)' <=> Probes(d)
                      /\ edit'[d].sweep = edit[d].sweep
  BY <1>0, <1>1, <1>3 DEF Settings!Opening, Probes
<1>6. \A d \in Call, x \in Source : OwedBy(d, x)' <=> OwedBy(d, x)
  BY <1>0, <1>1, <1>3 DEF OwedBy, Probes
<1>7. OneOpening'
  BY <1>5 DEF HealthInv, OneOpening
<1>8. ASSUME NEW x \in attached \ refused PROVE HealthAt(x)'
  <2>0. HealthAt(x) /\ x \in Source /\ Settings!Stored(x)' = Settings!Stored(x) /\ Told(x)' = Told(x)
    BY <1>4 DEF HealthInv, SettingsTypes, Settings!Stored, Told, Settings!Found
  <2>1. (Owed(x)' <=> Owed(x)) /\ (SeenIs(x)' <=> SeenIs(x)) /\ (ReaderIs(x)' <=> ReaderIs(x))
    <3>1. Owed(x)' <=> Owed(x)
      BY <2>0, <1>6 DEF Owed
    <3>2. SeenIs(x)' <=> SeenIs(x)
      BY <2>0, <1>4, <1>5, <1>6 DEF SeenIs
    <3>3. ReaderIs(x)' <=> ReaderIs(x)
      BY <2>0, <1>4, <1>5 DEF ReaderIs
    <3> QED BY <3>1, <3>2, <3>3
  <2>2. Owed(x) \/ found = Told(x) \/ x # s \/ x \in blended'
    <3>1. byReader /\ x = s => Owed(x) \/ built = Settings!Stored(x) \/ x \in blended'
      BY <2>0, <1>b DEF HealthAt, ReaderIs
    <3> QED BY <3>1, <1>a DEF Told
  <2>a. x \in blended => x \in blended'
    BY <1>b
  <2>b. x \in blended' => Current(x)'
    BY DEF Current
  <2>3. ASSUME x # s \/ found = Told(x), Current(x) PROVE Current(x)'
    <3>1. ASSUME NEW d \in Call, Probes(d), edit[d].sweep = sweeps, edit[d].got[x] \in {"todo", "open", Told(x)}
          PROVE  edit'[d].got[x] \in {"todo", "open", Told(x)}'
      BY <1>1, <1>3, <2>0, <2>3, <3>1
    <3>2. CASE arrived = sweeps /\ (~outrun => health[x] = Told(x))
      BY <1>4, <2>0, <3>2 DEF Current
    <3>3. CASE \E d \in Call : Probes(d) /\ edit[d].sweep = sweeps /\ edit[d].got[x] \in {"todo", "open", Told(x)}
      BY <1>4, <1>5, <2>0, <3>1, <3>3 DEF Current
    <3> QED BY <2>3, <2>a, <2>b, <3>2, <3>3 DEF Current
  <2> QED BY <1>4, <2>0, <2>1, <2>2, <2>b, <2>3 DEF HealthAt
<1> QED BY <1>7, <1>8

\* The youngest sweep's answer lands as every row's, or a younger one's is lost.
LEMMA HealthLand ==
  ASSUME Settings!Bounds, SettingsTypes, SweepsInv, HealthInv, NEW c \in Call, Settings!Land(c)
  PROVE  HealthInv'
<1>0. Probes(c) /\ edit[c] \in Rec /\ edit[c].sweep \in 1..sweeps /\ edit[c].sweep # arrived /\ arrived \in 0..sweeps /\ sweeps \in Nat
  BY DEF Settings!Land, Probes, SweepsInv, SettingsTypes
<1>1. edit'[c] = Settings!Idle /\ \A d \in Call : d # c => edit'[d] = edit[d]
  BY IdleRec, BecomesIs DEF Settings!Land, Settings!Ended
<1>2. UNCHANGED <<attached, place, secret, open, built, sweeps, refused, blended>>
  BY DEF Settings!Land, Settings!stored, Settings!reading
<1>3. /\ outrun' = (edit[c].sweep < arrived)
      /\ arrived' = IF edit[c].sweep < arrived THEN arrived ELSE edit[c].sweep
      /\ \A s \in Source : edit[c].got[s] \notin {"todo", "open"}
      /\ \A s \in Source : edit[c].got[s] # "skip" => health'[s] = edit[c].got[s]
  BY DEF Settings!Land
<1>4. \A d \in Call : /\ Settings!Opening(d)' <=> Settings!Opening(d)
                      /\ Settings!Opening(d) => edit'[d].seen = edit[d].seen
  BY <1>0, <1>1, IdleRec DEF Settings!Opening, Probes
<1>5. \A d \in Call, x \in Source : OwedBy(d, x)' <=> OwedBy(d, x)
  BY <1>0, <1>1, IdleRec DEF OwedBy, Probes
<1> SUFFICES ASSUME Clear PROVE OneOpening' /\ \A x \in attached \ refused : HealthAt(x)'
  BY <1>2 DEF HealthInv, Clear
<1>6. OneOpening'
  BY <1>4 DEF HealthInv, OneOpening
<1>7. ASSUME NEW x \in attached \ refused PROVE HealthAt(x)'
  <2>0. HealthAt(x) /\ x \in Source /\ Settings!Stored(x)' = Settings!Stored(x) /\ Told(x)' = Told(x) /\ Told(x) \in {"ok", "broken"}
    BY <1>2 DEF HealthInv, SettingsTypes, Settings!Stored, Told, Settings!Found
  <2>1. (Owed(x)' <=> Owed(x)) /\ (SeenIs(x)' <=> SeenIs(x)) /\ (ReaderIs(x)' <=> ReaderIs(x))
    <3>1. Owed(x)' <=> Owed(x)
      BY <2>0, <1>5 DEF Owed
    <3>2. SeenIs(x)' <=> SeenIs(x)
      BY <2>0, <1>2, <1>4, <1>5 DEF SeenIs
    <3>3. ReaderIs(x)' <=> ReaderIs(x)
      BY <2>0, <1>2, <1>4 DEF ReaderIs
    <3> QED BY <3>1, <3>2, <3>3
  <2>2. ASSUME Current(x) PROVE Current(x)'
    <3>1. CASE arrived = sweeps /\ (~outrun => health[x] = Told(x))
      <4>1. edit[c].sweep < arrived
        BY <1>0, <3>1
      <4> QED BY <1>2, <1>3, <3>1, <4>1 DEF Current
    <3>2. CASE Probes(c) /\ edit[c].sweep = sweeps /\ edit[c].got[x] \in {"todo", "open", Told(x)}
      <4>1. arrived' = sweeps /\ health'[x] = Told(x)
        BY <1>0, <1>3, <2>0, <3>2
      <4> QED BY <1>2, <2>0, <4>1 DEF Current
    <3>3. ASSUME NEW d \in Call, d # c, Probes(d), edit[d].sweep = sweeps, edit[d].got[x] \in {"todo", "open", Told(x)} PROVE Current(x)'
      BY <1>1, <1>2, <2>0, <3>3 DEF Current, Probes
    <3>4. CASE x \in blended
      BY <1>2, <3>4 DEF Current
    <3> QED BY <2>2, <3>1, <3>2, <3>3, <3>4 DEF Current
  <2> QED BY <1>2, <2>0, <2>1, <2>2 DEF HealthAt
<1> QED BY <1>6, <1>7

\* A switch ends with its reader built.
LEMMA HealthSwitched ==
  ASSUME Settings!Bounds, SettingsTypes, HealthInv, NEW c \in Call, Settings!Opening(c), edit[c].kind = "switch", edit'[c] = Settings!Idle,
         \A d \in Call : d # c => edit'[d] = edit[d],
         open \in Source => built' = [place |-> place[open], secret |-> edit[c].seen],
         UNCHANGED <<attached, place, secret, open, health, sweeps, arrived, refused, outrun, blended>>
  PROVE  HealthInv'
<1> SUFFICES ASSUME Clear PROVE OneOpening' /\ \A x \in attached \ refused : HealthAt(x)'
  BY DEF HealthInv, Clear
<1>1. \A d \in Call : ~Settings!Opening(d)'
  BY IdleRec DEF HealthInv, OneOpening, Settings!Opening
<1>2. \A d \in Call, x \in Source : OwedBy(d, x)' <=> OwedBy(d, x)
  BY IdleRec DEF OwedBy
<1>3. ASSUME NEW x \in attached \ refused PROVE HealthAt(x)'
  <2>0. HealthAt(x) /\ x \in Source /\ Settings!Stored(x)' = Settings!Stored(x) /\ Told(x)' = Told(x)
    BY DEF HealthInv, SettingsTypes, Settings!Stored, Told, Settings!Found
  <2>1. Owed(x)' <=> Owed(x)
    BY <2>0, <1>2 DEF Owed
  <2>2. Current(x) => Current(x)'
    <3>1. \A d \in Call : Probes(d) => d # c /\ edit'[d] = edit[d]
      BY DEF Probes, Settings!Opening
    <3> QED BY <2>0, <3>1 DEF Current, Probes
  <2>3. open = x => SeenIs(x)' /\ (Owed(x) \/ ReaderIs(x)')
    <3>1. ASSUME open = x, ~Owed(x) PROVE built' = Settings!Stored(x)'
      <4>1. edit[c].seen = secret[x]
        BY <2>0, <3>1 DEF HealthAt, SeenIs, Owed
      <4> QED BY <2>0, <3>1, <4>1 DEF Settings!Stored
    <3> QED BY <1>1, <3>1 DEF SeenIs, ReaderIs
  <2> QED BY <2>0, <2>1, <2>2, <2>3 DEF HealthAt
<1> QED BY <1>1, <1>3 DEF OneOpening
-----------------------------------------------------------------------------
(* What the parts of an action do.                                           *)

\* A beginning: the call as given, and another on the same source alone no more.
LEMMA BegunIs ==
  ASSUME Settings!Bounds, SettingsTypes, NEW c \in Call, NEW new \in Rec, new.of \in Source, Settings!Begin(c, new)
  PROVE  /\ edit[c] = Settings!Idle /\ edit' \in [Call -> Rec] /\ \A d \in Call : d # c => Alike(d)
         /\ edit'[c].kind = new.kind /\ edit'[c].pc = new.pc /\ edit'[c].of = new.of /\ edit'[c].seen = new.seen
         /\ edit'[c].place = new.place
         /\ \A d \in Call : d # c => edit'[d].place = edit[d].place
         /\ new.kind = "switch" => unproven' = unproven /\ \A d \in Call : d # c => edit'[d] = edit[d]
         /\ new.kind # "switch" =>
              /\ \A d \in Call : d # c /\ edit[d].of # new.of => edit'[d] = edit[d]
              /\ Settings!On(new.of) = {} => edit'[c].alone /\ unproven' = unproven
              /\ Settings!On(new.of) # {} => unproven' = unproven \cup {new.of} /\ ~edit'[c].alone /\ \A d \in Settings!On(new.of) : ~edit'[d].alone
<1>0. edit[c] = Settings!Idle /\ edit \in [Call -> Rec]
  BY DEF Settings!Begin, SettingsTypes
<1>1. PICK met : met = IF new.kind = "switch" THEN {} ELSE Settings!On(new.of)
  OBVIOUS
<1>2. PICK b \in BOOLEAN : b = (met = {})
  OBVIOUS
<1>3. /\ edit' = [d \in Call |-> IF d = c THEN [new EXCEPT !.alone = b]
                                 ELSE IF d \in met THEN [edit[d] EXCEPT !.alone = FALSE] ELSE edit[d]]
      /\ unproven' = IF met = {} THEN unproven ELSE unproven \cup {new.of}
  BY <1>1, <1>2 DEF Settings!Begin
<1>4. [new EXCEPT !.alone = b] \in Rec /\ [new EXCEPT !.alone = b].alone = b
  BY DEF Rec
<1>5. ASSUME NEW d \in Call PROVE [edit[d] EXCEPT !.alone = FALSE] \in Rec /\ ~[edit[d] EXCEPT !.alone = FALSE].alone
  <2>1. PICK q \in Rec : q = edit[d]
    BY <1>0
  <2>2. [q EXCEPT !.alone = FALSE] \in Rec /\ ~[q EXCEPT !.alone = FALSE].alone
    BY DEF Rec
  <2> QED BY <2>1, <2>2
<1>6. edit' \in [Call -> Rec]
  BY <1>0, <1>3, <1>4, <1>5
<1>7. edit'[c] = [new EXCEPT !.alone = b]
  BY <1>3
<1>8. /\ edit'[c].kind = new.kind /\ edit'[c].pc = new.pc /\ edit'[c].of = new.of /\ edit'[c].seen = new.seen
      /\ edit'[c].place = new.place /\ edit'[c].alone = b
  BY <1>4, <1>7 DEF Rec
<1>9. \A d \in Call : d # c => edit'[d] = (IF d \in met THEN [edit[d] EXCEPT !.alone = FALSE] ELSE edit[d])
  BY <1>3
<1>10. \A d \in Call : d # c => Alike(d) /\ edit'[d].place = edit[d].place
  <2>1. ASSUME NEW d \in Call, NEW r, r = [edit[d] EXCEPT !.alone = FALSE]
        PROVE  /\ r.kind = edit[d].kind /\ r.pc = edit[d].pc /\ r.of = edit[d].of /\ r.seen = edit[d].seen
               /\ r.sweep = edit[d].sweep /\ r.got = edit[d].got /\ r.place = edit[d].place
    <3>1. edit[d] \in Rec
      BY <1>0
    <3> QED BY <2>1, <3>1 DEF Rec
  <2>2. ASSUME NEW d \in Call, d # c, d \in met PROVE Alike(d) /\ edit'[d].place = edit[d].place
    <3>1. edit'[d] = [edit[d] EXCEPT !.alone = FALSE]
      BY <1>9, <2>2
    <3> QED BY <2>1, <3>1 DEF Alike
  <2>3. ASSUME NEW d \in Call, d # c, d \notin met PROVE Alike(d) /\ edit'[d].place = edit[d].place
    <3>1. edit'[d] = edit[d]
      BY <1>9, <2>3
    <3> QED BY <3>1 DEF Alike
  <2> QED BY <2>2, <2>3
<1>11. \A d \in Settings!On(new.of) : d \in Call /\ d # c
  BY <1>0, IdleRec DEF Settings!On
<1>12. new.kind # "switch" => \A d \in Settings!On(new.of) : ~edit'[d].alone
  BY <1>1, <1>5, <1>9, <1>11
<1> QED
  <2>1. new.kind = "switch" => unproven' = unproven /\ \A d \in Call : d # c => edit'[d] = edit[d]
    BY <1>1, <1>3, <1>9
  <2>2. \A d \in Call : new.kind # "switch" /\ d # c /\ edit[d].of # new.of => edit'[d] = edit[d]
    BY <1>1, <1>9 DEF Settings!On
  <2>3. new.kind # "switch" /\ Settings!On(new.of) = {} => edit'[c].alone /\ unproven' = unproven
    BY <1>1, <1>2, <1>3, <1>8
  <2>4. new.kind # "switch" /\ Settings!On(new.of) # {} => unproven' = unproven \cup {new.of} /\ ~edit'[c].alone
    BY <1>1, <1>2, <1>3, <1>8
  <2> QED BY <1>0, <1>6, <1>8, <1>10, <1>12, <2>1, <2>2, <2>3, <2>4

\* A sweep: the call as it was, with every source there is to look at.
LEMMA SweepingIs ==
  ASSUME SettingsTypes, NEW c \in Call, Settings!Sweeping(c)
  PROVE  /\ edit' \in [Call -> Rec] /\ \A d \in Call : d # c => edit'[d] = edit[d]
         /\ sweeps' = sweeps + 1 /\ edit'[c].pc = "probing" /\ edit'[c].sweep = sweeps + 1
         /\ edit'[c].got = [s \in Source |-> IF s \notin attached THEN "skip" ELSE IF s = open THEN "open" ELSE "todo"]
         /\ edit'[c].kind = edit[c].kind /\ edit'[c].of = edit[c].of /\ edit'[c].place = edit[c].place
         /\ edit'[c].alone = edit[c].alone
<1> DEFINE got == [s \in Source |-> IF s \notin attached THEN "skip" ELSE IF s = open THEN "open" ELSE "todo"]
           r == [edit[c] EXCEPT !.pc = "probing", !.sweep = sweeps + 1, !.got = got]
<1>1. got \in [Source -> {"skip", "todo", "open", "ok", "broken"}] /\ edit[c] \in Rec /\ sweeps + 1 \in Nat
  BY DEF SettingsTypes
<1>2. Settings!Become(c, r) /\ sweeps' = sweeps + 1
  BY DEF Settings!Sweeping
<1>g. got = [s \in Source |-> IF s \notin attached THEN "skip" ELSE IF s = open THEN "open" ELSE "todo"]
  OBVIOUS
<1> HIDE DEF got
<1>3. /\ r \in Rec /\ r.pc = "probing" /\ r.sweep = sweeps + 1 /\ r.got = got /\ r.kind = edit[c].kind /\ r.of = edit[c].of
      /\ r.place = edit[c].place /\ r.alone = edit[c].alone
  BY <1>1 DEF Rec, CallPc
<1> HIDE DEF r
<1> QED BY <1>2, <1>3, <1>g, BecomesIs

\* An opening: the call as it was, with the credential read for it.
LEMMA BuildingIs ==
  ASSUME Settings!Bounds, SettingsTypes, NEW c \in Call, Settings!Building(c), open' \in Source \cup {"none"}, secret' \in [Source -> Settings!Secret]
  PROVE  /\ edit' \in [Call -> Rec] /\ \A d \in Call : d # c => edit'[d] = edit[d]
         /\ edit'[c].pc = "building" /\ (open' \in Source => edit'[c].seen = secret'[open'])
         /\ edit'[c].kind = edit[c].kind /\ edit'[c].of = edit[c].of /\ edit'[c].place = edit[c].place
         /\ edit'[c].alone = edit[c].alone
<1>1. PICK seen : seen = IF open' = "none" THEN Settings!Nothing ELSE secret'[open']
  OBVIOUS
<1>2. PICK r : r = [edit[c] EXCEPT !.pc = "building", !.seen = seen]
  OBVIOUS
<1>3. seen \in Settings!Secret /\ (open' \in Source => seen = secret'[open'])
  BY <1>1, IdleRec
<1>4. edit[c] \in Rec
  BY DEF SettingsTypes
<1>5. /\ r \in Rec /\ r.pc = "building" /\ r.seen = seen /\ r.kind = edit[c].kind /\ r.of = edit[c].of
      /\ r.place = edit[c].place /\ r.alone = edit[c].alone
  BY <1>2, <1>3, <1>4 DEF Rec, CallPc
<1>6. Settings!Become(c, r)
  BY <1>1, <1>2 DEF Settings!Building
<1> QED BY <1>3, <1>5, <1>6, BecomesIs

\* A call that goes on to its next step.
LEMMA GoIs ==
  ASSUME SettingsTypes, NEW c \in Call, NEW pc \in CallPc, Settings!Go(c, pc)
  PROVE  /\ edit' \in [Call -> Rec] /\ \A d \in Call : d # c => edit'[d] = edit[d]
         /\ edit'[c].pc = pc /\ edit'[c].kind = edit[c].kind /\ edit'[c].of = edit[c].of /\ edit'[c].place = edit[c].place
         /\ edit'[c].alone = edit[c].alone /\ edit'[c].seen = edit[c].seen /\ edit'[c].typed = edit[c].typed
<1>1. PICK r : r = [edit[c] EXCEPT !.pc = pc]
  OBVIOUS
<1>2. edit[c] \in Rec
  BY DEF SettingsTypes
<1>3. /\ r \in Rec /\ r.pc = pc /\ r.kind = edit[c].kind /\ r.of = edit[c].of /\ r.place = edit[c].place /\ r.alone = edit[c].alone
      /\ r.seen = edit[c].seen /\ r.typed = edit[c].typed
  BY <1>1, <1>2 DEF Rec, CallPc
<1>4. Settings!Become(c, r)
  BY <1>1 DEF Settings!Go
<1> QED BY <1>3, <1>4, BecomesIs

-----------------------------------------------------------------------------
(* A call begins.                                                            *)

\* What was not asked for twice at once stays alone.
LEMMA BeginTogether ==
  ASSUME Settings!Bounds, SettingsTypes, KindsInv, TogetherInv, NEW c \in Call, NEW new \in Rec, Settings!Begin(c, new),
         new.kind # "switch", NEW s \in Source, new.of = s, UNCHANGED <<removed, secret, refused>>,
         \/ UNCHANGED <<attached, place>> /\ new.pc \notin {"proving", "merging", "storing"}
            /\ new.kind # "add" /\ (new.kind = "edit" => s \in attached \cup unproven)
         \/ /\ \A x \in Source : x # s => place'[x] = place[x] /\ (x \in attached' <=> x \in attached)
            /\ new.kind = "add" /\ new.pc = "storing" /\ s \in attached'
  PROVE  TogetherInv'
<1>0. /\ edit[c] = Settings!Idle /\ "none" \notin Source /\ Settings!Idle.of = "none" /\ Settings!Idle.kind = "none"
      /\ \A d \in Call : d # c => Alike(d)
      /\ edit'[c].kind = new.kind /\ edit'[c].pc = new.pc /\ edit'[c].of = s /\ edit'[c].seen = new.seen
      /\ \A d \in Call : d # c /\ edit[d].of # s => edit'[d] = edit[d]
      /\ Settings!On(s) = {} => edit'[c].alone /\ unproven' = unproven
      /\ Settings!On(s) # {} => unproven' = unproven \cup {s} /\ ~edit'[c].alone /\ \A d \in Settings!On(s) : ~edit'[d].alone
  BY BegunIs, IdleRec
<1>1. Settings!On(s)' = Settings!On(s) \cup {c} /\ c \notin Settings!On(s)
  BY <1>0 DEF Settings!On, Alike
<1>2. \A x \in Source : x # s => SameAt(x) /\ c \notin Settings!On(x) /\ c \notin Settings!On(x)'
  BY <1>0 DEF SameAt, Settings!On
<1>3. AloneAt(s)' /\ TogetherAt(s)'
  <2>1. CASE Settings!On(s) # {}
    <3>1. \A d \in Settings!On(s)' : ~edit'[d].alone
      BY <1>0, <1>1, <2>1
    <3> QED BY <1>0, <2>1, <3>1 DEF AloneAt, TogetherAt
  <2>2. CASE Settings!On(s) = {}
    <3>1. Settings!On(s)' = {c} /\ edit'[c].alone /\ unproven' = unproven
      BY <1>0, <1>1, <2>2
    <3>2. AloneIs(c)'
      BY <1>0, <3>1 DEF AloneIs
    <3>3. TogetherAt(s) /\ ~Halfway(s)
      BY <2>2 DEF TogetherInv, Halfway
    <3>4. AloneAt(s)'
      BY <3>1, <3>2 DEF AloneAt
    <3>5. CASE UNCHANGED <<attached, place>>
      BY <3>1, <3>3, <3>4, <3>5 DEF TogetherAt, Together
    <3>6. CASE new.kind = "add" /\ new.pc = "storing"
      <4>1. Halfway(s)'
        BY <1>0, <3>1, <3>6 DEF Halfway
      <4> QED BY <3>1, <3>4, <4>1 DEF TogetherAt
    <3> QED BY <3>5, <3>6
  <2> QED BY <2>1, <2>2
<1>4. \A d \in Call : d # c => edit'[d].of = edit[d].of
  BY <1>0 DEF Alike
<1>5. \A d \in Call : d # c /\ edit[d].of # s => edit'[d] = edit[d]
  BY <1>0
<1> QED BY <1>2, <1>3, <1>4, <1>5, TogetherKeeps

\* A call that was idle goes through what its kind does.
LEMMA BeginKinds ==
  ASSUME Settings!Bounds, SettingsTypes, KindsInv, NEW c \in Call, NEW new \in Rec, Settings!Begin(c, new), removed' = removed,
         attached \subseteq attached', KindIs(new)', new.of \in Source, new.pc # "idle"
  PROVE  KindsInv'
<1>0. /\ \A d \in Call : d # c => Alike(d) /\ edit'[d].place = edit[d].place
      /\ edit'[c].kind = new.kind /\ edit'[c].pc = new.pc /\ edit'[c].of = new.of /\ edit'[c].place = new.place
      /\ \A d \in Call : d # c => (edit'[d] = edit[d] \/ edit[d].of = new.of)
  BY BegunIs
<1>1. KindIs(edit[c])'
  BY <1>0 DEF KindIs
<1>2. ASSUME NEW d \in Call, d # c PROVE KindIs(edit[d])'
  <2>1. KindIs(edit[d])
    BY DEF KindsInv
  <2>2. edit'[d].pc = "idle" => edit'[d] = Settings!Idle
    <3> QED BY <1>0, <1>2, <2>1, IdleRec DEF KindIs, Alike
  <2> QED BY <1>0, <1>2, <2>1, <2>2 DEF KindIs, Alike, Settings!Idle
<1> QED BY <1>1, <1>2 DEF KindsInv
\* Reading another source: a call of no source, to open it.
LEMMA SwitchKeeps ==
  ASSUME Settings!Bounds, SettingsInv, NEW c \in Call, NEW s \in Source, Settings!Switch(c, s)
  PROVE  SettingsInv'
<1>1. PICK new : new = [Settings!Idle EXCEPT !.kind = "switch", !.pc = "opening", !.of = s]
  OBVIOUS
<1>2. new \in Rec /\ new.kind = "switch" /\ new.pc = "opening" /\ new.of = s
  BY <1>1 DEF Settings!Idle, Rec, Settings!Nothing, Settings!Secret, CallPc
<1>3. SettingsTypes /\ KindsInv /\ TogetherInv /\ SweepsInv /\ HealthInv
  BY DEF SettingsInv
<1>4. Settings!Begin(c, new) /\ UNCHANGED <<attached, removed, place, secret, open, built, health, sweeps, arrived, refused, outrun, blended>>
  BY <1>1 DEF Settings!Switch, Settings!stored, Settings!reading
<1>5. /\ edit[c] = Settings!Idle /\ edit' \in [Call -> Rec] /\ \A d \in Call : d # c => Alike(d) /\ edit'[d] = edit[d]
      /\ edit'[c].kind = "switch" /\ edit'[c].pc = "opening" /\ edit'[c].of = s /\ unproven' = unproven
  BY <1>2, <1>3, <1>4, BegunIs
<1>6. SettingsTypes'
  BY <1>3, <1>4, <1>5 DEF SettingsTypes
<1>7. KindsInv'
  <2>1. KindIs(new)'
    BY <1>2 DEF KindIs
  <2> QED BY <1>2, <1>3, <1>4, <2>1, BeginKinds
<1>8. TogetherInv'
  <2>1. \A x \in Source : Settings!On(x)' = Settings!On(x) /\ \A d \in Settings!On(x) : edit'[d] = edit[d]
    BY <1>5, IdleRec DEF Settings!On
  <2> QED BY <1>3, <1>4, <1>5, <2>1, TogetherSame
<1>9. SweepsInv'
  BY <1>3, <1>4, <1>5, IdleRec, SweepsKeep DEF Probes
<1>10. HealthInv'
  <2>1. ~Probes(c) /\ ~Probes(c)' /\ ~Settings!Opening(c) /\ ~Settings!Opening(c)' /\ \A x \in Source : ~OwedBy(c, x)
    BY <1>5, IdleRec DEF Probes, Settings!Opening, OwedBy
  <2>2. \A x \in attached' \ refused' : x \in attached \ refused /\ place'[x] = place[x] /\ secret'[x] = secret[x] /\ ~OwedBy(c, x)
    BY <1>3, <1>4, <2>1 DEF SettingsTypes
  <2> QED BY <1>3, <1>4, <1>5, <2>1, <2>2, HealthKeeps
<1> QED BY <1>6, <1>7, <1>8, <1>9, <1>10 DEF SettingsInv

\* Forgetting one: nothing has changed yet.
LEMMA RemoveKeeps ==
  ASSUME Settings!Bounds, SettingsInv, NEW c \in Call, NEW s \in Source, Settings!Remove(c, s)
  PROVE  SettingsInv'
<1>0. PICK b \in BOOLEAN : b = (open = s)
  OBVIOUS
<1>1. PICK new : new = [Settings!Idle EXCEPT !.kind = "remove", !.pc = "forgetting", !.of = s, !.wasOpen = b]
  OBVIOUS
<1>2. new \in Rec /\ new.kind = "remove" /\ new.pc = "forgetting" /\ new.of = s
  BY <1>1 DEF Settings!Idle, Rec, Settings!Nothing, Settings!Secret, CallPc
<1>3. SettingsTypes /\ KindsInv /\ TogetherInv /\ SweepsInv /\ HealthInv
  BY DEF SettingsInv
<1>4. Settings!Begin(c, new) /\ UNCHANGED <<attached, removed, place, secret, open, built, health, sweeps, arrived, refused, outrun, blended>>
  BY <1>0, <1>1 DEF Settings!Remove, Settings!stored, Settings!reading
<1>5. /\ edit[c] = Settings!Idle /\ edit' \in [Call -> Rec] /\ \A d \in Call : d # c => Alike(d)
      /\ edit'[c].kind = "remove" /\ edit'[c].pc = "forgetting" /\ edit'[c].of = s /\ unproven' \in {unproven, unproven \cup {s}}
  BY <1>2, <1>3, <1>4, BegunIs
<1>6. SettingsTypes'
  BY <1>3, <1>4, <1>5 DEF SettingsTypes
<1>7. KindsInv'
  <2>1. KindIs(new)'
    BY <1>2 DEF KindIs
  <2> QED BY <1>2, <1>3, <1>4, <2>1, BeginKinds
<1>8. TogetherInv'
  BY <1>2, <1>3, <1>4, BeginTogether
<1>9. SweepsInv'
  BY <1>3, <1>4, <1>5, IdleRec, SweepsKeep DEF Probes
<1>10. HealthInv'
  <2>1. ~Probes(c) /\ ~Probes(c)' /\ ~Settings!Opening(c) /\ ~Settings!Opening(c)' /\ \A x \in Source : ~OwedBy(c, x)
    BY <1>5, IdleRec DEF Probes, Settings!Opening, OwedBy
  <2>2. \A x \in attached' \ refused' : x \in attached \ refused /\ place'[x] = place[x] /\ secret'[x] = secret[x] /\ ~OwedBy(c, x)
    BY <1>3, <1>4, <2>1 DEF SettingsTypes
  <2> QED BY <1>3, <1>4, <1>5, <2>1, <2>2, HealthKeeps
<1> QED BY <1>6, <1>7, <1>8, <1>9, <1>10 DEF SettingsInv

\* A new source is recorded before its credential: halfway, and owed a sweep.
LEMMA AddKeeps ==
  ASSUME Settings!Bounds, SettingsInv, NEW c \in Call, NEW s \in Source, NEW p \in Settings!Place, NEW typed \in Settings!Typings, Settings!Add(c, s, p, typed)
  PROVE  SettingsInv'
<1>1. PICK new : new = [Settings!Idle EXCEPT !.kind = "add", !.pc = "storing", !.of = s, !.seen = typed]
  OBVIOUS
<1>2. new \in Rec /\ new.kind = "add" /\ new.pc = "storing" /\ new.of = s
  <2>1. typed \in Settings!Secret
    BY DEF Settings!Typings, Settings!Secret, Settings!Place
  <2> QED BY <1>1, <2>1 DEF Settings!Idle, Rec, Settings!Nothing, Settings!Secret, CallPc
<1>3. SettingsTypes /\ KindsInv /\ TogetherInv /\ SweepsInv /\ HealthInv
  BY DEF SettingsInv
<1>4. /\ Settings!Begin(c, new) /\ UNCHANGED <<removed, secret, open, built, health, sweeps, arrived, refused, outrun, blended>>
      /\ s \notin attached \cup removed /\ attached' = attached \cup {s} /\ place' = [place EXCEPT ![s] = p]
  BY <1>1 DEF Settings!Add, Settings!reading
<1>5. /\ edit[c] = Settings!Idle /\ edit' \in [Call -> Rec] /\ \A d \in Call : d # c => Alike(d)
      /\ edit'[c].kind = "add" /\ edit'[c].pc = "storing" /\ edit'[c].of = s /\ unproven' \in {unproven, unproven \cup {s}}
  BY <1>2, <1>3, <1>4, BegunIs
<1>6. SettingsTypes'
  BY <1>3, <1>4, <1>5 DEF SettingsTypes
<1>7. KindsInv'
  <2>1. KindIs(new)'
    BY <1>2, <1>4 DEF KindIs
  <2> QED BY <1>2, <1>3, <1>4, <2>1, BeginKinds
<1>8. TogetherInv'
  <2>1. \A x \in Source : x # s => place'[x] = place[x] /\ (x \in attached' <=> x \in attached)
    BY <1>3, <1>4 DEF SettingsTypes
  <2>2. s \in attached'
    BY <1>4
  <2> QED BY <1>2, <1>3, <1>4, <2>1, <2>2, BeginTogether
<1>9. SweepsInv'
  BY <1>3, <1>4, <1>5, IdleRec, SweepsKeep DEF Probes
<1>10. HealthInv'
  <2>1. ~Probes(c) /\ ~Probes(c)' /\ ~Settings!Opening(c) /\ ~Settings!Opening(c)' /\ OwedBy(c, s)' /\ \A x \in Source : ~OwedBy(c, x)
    BY <1>5, IdleRec DEF Probes, Settings!Opening, OwedBy
  <2>2. \A x \in attached' \ refused' : \/ OwedBy(c, x)'
                                        \/ x \in attached \ refused /\ place'[x] = place[x] /\ secret'[x] = secret[x] /\ ~OwedBy(c, x)
    BY <1>3, <1>4, <2>1 DEF SettingsTypes
  <2> QED BY <1>3, <1>4, <1>5, <2>1, <2>2, HealthKeeps
<1> QED BY <1>6, <1>7, <1>8, <1>9, <1>10 DEF SettingsInv

\* A correction: nothing has changed yet.
LEMMA EditKeeps ==
  ASSUME Settings!Bounds, SettingsInv, NEW c \in Call, NEW s \in Source, NEW p \in Settings!Place, NEW typed \in Settings!Typings, Settings!Edit(c, s, p, typed)
  PROVE  SettingsInv'
<1>1. PICK new : new = [Settings!Idle EXCEPT !.kind = "edit", !.pc = "reading", !.of = s, !.place = p, !.typed = typed]
  OBVIOUS
<1>2. new \in Rec /\ new.kind = "edit" /\ new.pc = "reading" /\ new.of = s /\ new.place = p
  <2>1. typed \in Settings!Secret
    BY DEF Settings!Typings, Settings!Secret, Settings!Place
  <2> QED BY <1>1, <2>1 DEF Settings!Idle, Rec, Settings!Nothing, Settings!Secret, CallPc
<1>3. SettingsTypes /\ KindsInv /\ TogetherInv /\ SweepsInv /\ HealthInv
  BY DEF SettingsInv
<1>4. /\ Settings!Begin(c, new) /\ s \in attached \cup unproven
      /\ UNCHANGED <<attached, removed, place, secret, open, built, health, sweeps, arrived, refused, outrun, blended>>
  BY <1>1 DEF Settings!Edit, Settings!stored, Settings!reading
<1>5. /\ edit[c] = Settings!Idle /\ edit' \in [Call -> Rec] /\ \A d \in Call : d # c => Alike(d)
      /\ edit'[c].kind = "edit" /\ edit'[c].pc = "reading" /\ edit'[c].of = s /\ unproven' \in {unproven, unproven \cup {s}}
  BY <1>2, <1>3, <1>4, BegunIs
<1>6. SettingsTypes'
  BY <1>3, <1>4, <1>5 DEF SettingsTypes
<1>7. KindsInv'
  <2>1. KindIs(new)'
    BY <1>2 DEF KindIs
  <2> QED BY <1>2, <1>3, <1>4, <2>1, BeginKinds
<1>8. TogetherInv'
  BY <1>2, <1>3, <1>4, BeginTogether
<1>9. SweepsInv'
  BY <1>3, <1>4, <1>5, IdleRec, SweepsKeep DEF Probes
<1>10. HealthInv'
  <2>1. ~Probes(c) /\ ~Probes(c)' /\ ~Settings!Opening(c) /\ ~Settings!Opening(c)' /\ \A x \in Source : ~OwedBy(c, x)
    BY <1>5, IdleRec DEF Probes, Settings!Opening, OwedBy
  <2>2. \A x \in attached' \ refused' : x \in attached \ refused /\ place'[x] = place[x] /\ secret'[x] = secret[x] /\ ~OwedBy(c, x)
    BY <1>3, <1>4, <2>1 DEF SettingsTypes
  <2> QED BY <1>3, <1>4, <1>5, <2>1, <2>2, HealthKeeps
<1> QED BY <1>6, <1>7, <1>8, <1>9, <1>10 DEF SettingsInv
-----------------------------------------------------------------------------
(* A call goes on.                                                           *)

\* A call that stores, or forgets, what it was asked to.
LEMMA StoringCall ==
  ASSUME Settings!Bounds, TogetherInv, NEW c \in Call, NEW s \in Source, edit[c].of = s, edit[c].kind # "switch",
         \A d \in Call : d # c => edit'[d] = edit[d],
         \A x \in Source : x # s => SameAt(x),
         \/ edit'[c] = Settings!Idle
         \/ /\ edit'[c].kind = edit[c].kind /\ edit'[c].of = s /\ edit'[c].alone = edit[c].alone
            /\ edit[c].alone => /\ edit[c].kind = "add" => s \in attached'
                                /\ edit[c].kind = "edit" => s \in attached' \cup unproven'
                                /\ EditIs(edit[c], s)',
         s \notin unproven' \cup refused' =>
           edit[c].alone /\ ((edit'[c].of = s /\ edit'[c].kind # "switch" /\ Half(edit'[c].pc)) \/ Together(s)')
  PROVE  TogetherInv'
<1>0. "none" \notin Source /\ Settings!Idle.of = "none" /\ AloneAt(s) /\ TogetherAt(s) /\ c \in Settings!On(s)
  BY IdleRec DEF TogetherInv, Settings!On
<1>1. Settings!On(s)' \subseteq Settings!On(s) /\ (Settings!On(s)' = Settings!On(s) \/ edit'[c] = Settings!Idle)
  BY <1>0 DEF Settings!On
<1>2. \A d \in Settings!On(s) : edit[d].alone => d = c /\ \A e \in Settings!On(s) : e = c
  BY <1>0 DEF AloneAt, AloneIs, Settings!On
<1>3. AloneAt(s)'
  <2>1. ASSUME NEW d \in Settings!On(s)', edit'[d].alone PROVE AloneIs(d)'
    <3>0. d \in Settings!On(s) /\ d \in Call /\ edit'[d].of = s
      BY <1>1, <2>1 DEF Settings!On
    <3>1. CASE d # c
      BY <1>0, <1>2, <2>1, <3>0, <3>1
    <3>2. CASE d = c
      <4>1. edit'[c].kind = edit[c].kind /\ edit[c].alone /\ EditIs(edit[c], s)' /\ edit'[c] # Settings!Idle
        BY <1>0, <2>1, <3>0, <3>2
      <4>2. \A e \in Settings!On(s)' : e = d
        BY <1>0, <1>1, <1>2, <3>2, <4>1
      <4>3. edit[c].kind = "add" => s \in attached'
        BY <1>0, <4>1
      <4>4. edit[c].kind = "edit" => s \in attached' \cup unproven'
        BY <1>0, <4>1
      <4>5. AloneIs(c)'
        BY <3>0, <3>2, <4>1, <4>2, <4>3, <4>4 DEF AloneIs, EditIs
      <4> QED BY <3>2, <4>5
    <3> QED BY <3>1, <3>2
  <2> QED BY <2>1 DEF AloneAt
<1>4. TogetherAt(s)'
  <2> SUFFICES ASSUME s \notin unproven' \cup refused'
               PROVE  (\A d \in Settings!On(s)' : edit'[d].alone) /\ (Halfway(s)' \/ Together(s)')
    BY DEF TogetherAt
  <2>1. \A d \in Settings!On(s)' : d = c /\ edit'[c] # Settings!Idle
    BY <1>0, <1>1, <1>2 DEF Settings!On
  <2>2. \A d \in Settings!On(s)' : edit'[d].alone
    BY <2>1
  <2>3. edit'[c].of = s /\ edit'[c].kind # "switch" /\ Half(edit'[c].pc) => Halfway(s)'
    BY DEF Halfway, Half, Settings!On
  <2> QED BY <2>2, <2>3
<1>5. \A x \in Source : x # s => SameAt(x) /\ c \notin Settings!On(x) /\ c \notin Settings!On(x)'
  BY <1>0 DEF Settings!On
<1>6. \A d \in Call : d # c => edit'[d].of = edit[d].of
  OBVIOUS
<1>7. \A d \in Call : d # c /\ edit[d].of # s => edit'[d] = edit[d]
  OBVIOUS
<1> QED BY <1>3, <1>4, <1>5, <1>6, <1>7, TogetherKeeps

\* An opening sets the source and reads its credential, or a removal that finds
\* another one open by now goes on to its sweep.
LEMMA OpenKeeps ==
  ASSUME Settings!Bounds, SettingsInv, NEW c \in Call, Settings!Open(c)
  PROVE  SettingsInv'
<1>1. SettingsTypes /\ KindsInv /\ TogetherInv /\ SweepsInv /\ HealthInv
  BY DEF SettingsInv
<1>2. /\ edit[c].pc = "opening" /\ UNCHANGED <<Settings!stored, unproven, refused>>
      /\ UNCHANGED <<attached, removed, place, secret, built, health, arrived, unproven, refused, outrun>>
  BY DEF Settings!Open, Settings!stored
<1>k. /\ KindIs(edit[c]) /\ edit[c].kind \in {"switch", "add", "remove"} /\ edit[c].pc # "idle" /\ ~Half(edit[c].pc)
  <2>1. KindIs(edit[c]) /\ edit[c].kind \in {"none", "switch", "add", "edit", "remove"}
    BY <1>1 DEF KindsInv, SettingsTypes, Rec
  <2> QED BY <1>2, <2>1 DEF KindIs, Half
<1>3. PICK s \in Source \cup {"none"} :
        IF edit[c].kind = "remove" /\ s = open /\ s # "none"
        THEN Settings!Sweeping(c) /\ UNCHANGED <<open, blended>>
        ELSE /\ open' = s /\ Settings!Building(c) /\ blended' = Settings!Meeting /\ UNCHANGED sweeps
  BY <1>1 DEF Settings!Open, SettingsTypes
<1>4. CASE edit[c].kind = "remove" /\ s = open /\ s # "none"
  <2>1. UNCHANGED <<open, blended>> /\ Settings!Sweeping(c)
    BY <1>3, <1>4
  <2>2. /\ edit' \in [Call -> Rec] /\ \A d \in Call : d # c => edit'[d] = edit[d]
        /\ sweeps' = sweeps + 1 /\ edit'[c].pc = "probing" /\ edit'[c].sweep = sweeps + 1
        /\ edit'[c].got = [x \in Source |-> IF x \notin attached THEN "skip" ELSE IF x = open THEN "open" ELSE "todo"]
        /\ edit'[c].kind = "remove" /\ edit'[c].of = edit[c].of /\ edit'[c].alone = edit[c].alone
    BY <1>1, <1>4, <2>1, SweepingIs
  <2>3. SettingsTypes'
    BY <1>1, <1>2, <1>k, <2>1, <2>2 DEF SettingsTypes, Settings!Meeting
  <2>4. KindsInv'
    <3>1. KindIs(edit[c])'
      BY <1>2, <1>k, <1>4, <2>2 DEF KindIs
    <3> QED BY <1>1, <1>2, <1>k, <2>2, <3>1, KindsKeep
  <2>5. TogetherInv'
    <3>1. EditIs(edit'[c], edit[c].of)
      BY <2>2 DEF EditIs
    <3> QED BY <1>1, <1>2, <1>k, <1>4, <2>2, <3>1, QuietCall
  <2>a. \A d \in Call : d # c => Alike(d)
    BY <2>2 DEF Alike
  <2>6. SweepsInv'
    BY <1>1, <1>2, <1>k, <2>2, <2>a, SweepsBegin
  <2>7. HealthInv'
    <3>1. ~Settings!Opening(c) /\ \A x \in Source : ~OwedBy(c, x)
      BY <1>2, <1>k, <1>4 DEF Settings!Opening, OwedBy
    <3>2. attached' \subseteq Source /\ open' = open
      BY <1>1, <1>2, <1>k, <2>1 DEF SettingsTypes
    <3> QED BY <1>1, <1>2, <1>k, <2>1, <2>2, <2>a, <3>1, <3>2, HealthSweeps
  <2> QED BY <2>3, <2>4, <2>5, <2>6, <2>7 DEF SettingsInv
<1>5. CASE ~(edit[c].kind = "remove" /\ s = open /\ s # "none")
  <2>1. open' = s /\ Settings!Building(c) /\ blended' = Settings!Meeting /\ sweeps' = sweeps
    BY <1>3, <1>5
  <2>b. secret' \in [Source -> Settings!Secret]
    BY <1>1, <1>2, <1>k DEF SettingsTypes
  <2>2. /\ edit' \in [Call -> Rec] /\ \A d \in Call : d # c => edit'[d] = edit[d]
        /\ edit'[c].pc = "building" /\ (open' \in Source => edit'[c].seen = secret'[open'])
        /\ edit'[c].kind = edit[c].kind /\ edit'[c].of = edit[c].of /\ edit'[c].alone = edit[c].alone
    BY <1>1, <2>1, <2>b, BuildingIs
  <2>3. SettingsTypes'
    BY <1>1, <1>2, <1>k, <2>1, <2>2 DEF SettingsTypes, Settings!Meeting
  <2>4. KindsInv'
    <3>1. KindIs(edit[c])'
      BY <1>2, <1>k, <2>2 DEF KindIs
    <3> QED BY <1>1, <1>2, <1>k, <2>2, <3>1, KindsKeep
  <2>5. TogetherInv'
    <3>1. EditIs(edit'[c], edit[c].of)
      BY <2>2 DEF EditIs
    <3> QED BY <1>1, <1>2, <1>k, <2>2, <3>1, QuietCall
  <2>a. (\A d \in Call : d # c => Alike(d)) /\ ~Probes(c) /\ ~Probes(c)'
    BY <1>2, <1>k, <2>2 DEF Alike, Probes
  <2>6. SweepsInv'
    BY <1>1, <1>2, <1>k, <2>1, <2>a, SweepsKeep
  <2>7. HealthInv'
    <3>1. \A x \in attached' \ refused' :
             \/ OwedBy(c, x)'
             \/ x \in attached \ refused /\ place'[x] = place[x] /\ secret'[x] = secret[x] /\ ~OwedBy(c, x)
      BY <1>2, <1>k, <2>2 DEF OwedBy
    <3>2. open' \in attached' => edit'[c].seen = secret'[open']
      BY <1>1, <1>2, <1>k, <2>2 DEF SettingsTypes
    <3> QED BY <1>1, <1>2, <1>k, <2>1, <2>2, <2>a, <3>1, <3>2, HealthOpens
  <2> QED BY <2>3, <2>4, <2>5, <2>6, <2>7 DEF SettingsInv
<1> QED BY <1>4, <1>5

\* The reader is built of what was read; only a switch is followed by no sweep.
LEMMA BuildKeeps ==
  ASSUME Settings!Bounds, SettingsInv, NEW c \in Call, Settings!Build(c)
  PROVE  SettingsInv'
<1>1. SettingsTypes /\ KindsInv /\ TogetherInv /\ SweepsInv /\ HealthInv
  BY DEF SettingsInv
<1>2. /\ edit[c].pc = "building" /\ UNCHANGED <<Settings!stored, unproven, refused>>
      /\ UNCHANGED <<attached, removed, place, secret, open, health, arrived, unproven, refused, outrun, blended>>
      /\ built' = IF open = "none" THEN Settings!NoReader ELSE [place |-> place[open], secret |-> edit[c].seen]
      /\ edit[c] \in Rec /\ Settings!Opening(c)
  BY <1>1 DEF Settings!Build, Settings!stored, Settings!history, SettingsTypes, Settings!Opening
<1>k. /\ KindIs(edit[c]) /\ edit[c].kind \in {"switch", "add", "edit", "remove"} /\ edit[c].pc # "idle" /\ ~Half(edit[c].pc)
  <2>1. KindIs(edit[c]) /\ edit[c].kind \in {"none", "switch", "add", "edit", "remove"}
    BY <1>1 DEF KindsInv, SettingsTypes, Rec
  <2> QED BY <1>2, <2>1 DEF KindIs, Half
<1>3. built' \in [place : {0} \cup Settings!Place, secret : Settings!Secret]
  BY <1>1, <1>2, <1>k, IdleRec DEF SettingsTypes, Settings!NoReader, Rec
<1>4. CASE edit[c].kind = "switch"
  <2>1. sweeps' = sweeps /\ edit' \in [Call -> Rec] /\ edit'[c] = Settings!Idle /\ \A d \in Call : d # c => edit'[d] = edit[d]
    BY <1>1, <1>4, IdleRec, BecomesIs DEF Settings!Build, Settings!Ended
  <2>3. SettingsTypes'
    BY <1>1, <1>2, <1>k, <1>3, <2>1 DEF SettingsTypes
  <2>4. KindsInv'
    <3>1. KindIs(edit[c])'
      BY <2>1, IdleRec DEF KindIs, Settings!Idle
    <3> QED BY <1>1, <1>2, <1>k, <2>1, <3>1, KindsKeep
  <2>5. TogetherInv'
    BY <1>1, <1>2, <1>k, <2>1, QuietCall
  <2>a. (\A d \in Call : d # c => Alike(d)) /\ ~Probes(c) /\ ~Probes(c)'
    BY <1>2, <1>k, <2>1, IdleRec DEF Alike, Probes
  <2>6. SweepsInv'
    BY <1>1, <1>2, <1>k, <2>1, <2>a, SweepsKeep
  <2>7. HealthInv'
    <3>1. open \in Source => built' = [place |-> place[open], secret |-> edit[c].seen]
      BY <1>2, <1>k, IdleRec
    <3> QED BY <1>1, <1>2, <1>k, <1>4, <2>1, <3>1, HealthSwitched
  <2> QED BY <2>3, <2>4, <2>5, <2>6, <2>7 DEF SettingsInv
<1>5. CASE edit[c].kind # "switch"
  <2>1. Settings!Sweeping(c)
    BY <1>5 DEF Settings!Build
  <2>2. /\ edit' \in [Call -> Rec] /\ \A d \in Call : d # c => edit'[d] = edit[d]
        /\ sweeps' = sweeps + 1 /\ edit'[c].pc = "probing" /\ edit'[c].sweep = sweeps + 1
        /\ edit'[c].got = [x \in Source |-> IF x \notin attached THEN "skip" ELSE IF x = open THEN "open" ELSE "todo"]
        /\ edit'[c].kind = edit[c].kind /\ edit'[c].of = edit[c].of /\ edit'[c].alone = edit[c].alone
        /\ edit'[c].place = edit[c].place
    BY <1>1, <2>1, SweepingIs
  <2>3. SettingsTypes'
    BY <1>1, <1>2, <1>k, <1>3, <2>2 DEF SettingsTypes
  <2>4. KindsInv'
    <3>1. KindIs(edit[c])'
      BY <1>2, <1>k, <1>5, <2>2 DEF KindIs
    <3> QED BY <1>1, <1>2, <1>k, <2>2, <3>1, KindsKeep
  <2>5. TogetherInv'
    <3>1. EditIs(edit'[c], edit[c].of)
      BY <2>2 DEF EditIs
    <3> QED BY <1>1, <1>2, <1>k, <2>2, <3>1, QuietCall
  <2>a. \A d \in Call : d # c => Alike(d)
    BY <2>2 DEF Alike
  <2>6. SweepsInv'
    BY <1>1, <1>2, <1>k, <2>2, <2>a, SweepsBegin
  <2>7. HealthInv'
    <3>1. open \in attached' \ refused' => built' = [place |-> place[open], secret |-> edit[c].seen]
      BY <1>1, <1>2, <1>k, IdleRec DEF SettingsTypes
    <3>2. attached' \subseteq Source /\ open' = open
      BY <1>1, <1>2, <1>k DEF SettingsTypes
    <3> QED BY <1>1, <1>2, <1>k, <2>2, <2>a, <3>1, <3>2, HealthSweeps
  <2> QED BY <2>3, <2>4, <2>5, <2>6, <2>7 DEF SettingsInv
<1> QED BY <1>4, <1>5
\* A correction reads what is stored for the candidate it proves.
LEMMA ReadKeeps ==
  ASSUME Settings!Bounds, SettingsInv, NEW c \in Call, Settings!Read(c)
  PROVE  SettingsInv'
<1>1. SettingsTypes /\ KindsInv /\ TogetherInv /\ SweepsInv /\ HealthInv
  BY DEF SettingsInv
<1>2. /\ edit[c].pc = "reading" /\ UNCHANGED <<Settings!stored, unproven, refused>> /\ KindIs(edit[c]) /\ edit[c] \in Rec
      /\ UNCHANGED <<attached, removed, place, secret, open, built, health, sweeps, arrived, unproven, refused, outrun, blended>>
  BY <1>1 DEF Settings!Read, Settings!stored, Settings!reading, Settings!history, KindsInv, SettingsTypes
<1>3. PICK s \in Source : s = edit[c].of /\ edit[c].kind = "edit"
  <2>1. edit[c].kind \in {"none", "switch", "add", "edit", "remove"}
    BY <1>2 DEF Rec
  <2> QED BY <1>2, <2>1 DEF KindIs
<1>4. PICK r : r = [edit[c] EXCEPT !.pc = "proving", !.seen = Settings!Candidate(secret[s], edit[c].typed)]
  OBVIOUS
<1>5. Settings!Candidate(secret[s], edit[c].typed) \in Settings!Secret
  BY <1>1, <1>2 DEF Settings!Candidate, Settings!Secret, SettingsTypes, Rec
<1>6. /\ r \in Rec /\ r.pc = "proving" /\ r.seen = Settings!Candidate(secret[s], edit[c].typed) /\ r.kind = "edit" /\ r.of = s
      /\ r.place = edit[c].place /\ r.alone = edit[c].alone /\ r.typed = edit[c].typed
  BY <1>2, <1>3, <1>4, <1>5 DEF Rec, CallPc
<1>7. edit' \in [Call -> Rec] /\ edit'[c] = r /\ \A d \in Call : d # c => edit'[d] = edit[d]
  BY <1>1, <1>3, <1>4, <1>6, BecomesIs DEF Settings!Read
<1>8. SettingsTypes'
  BY <1>1, <1>2, <1>7 DEF SettingsTypes
<1>9. KindsInv'
  <2>1. KindIs(edit[c])'
    BY <1>2, <1>3, <1>6, <1>7 DEF KindIs
  <2> QED BY <1>1, <1>2, <1>7, <2>1, KindsKeep
<1>10. TogetherInv'
  <2>1. EditIs(edit'[c], edit[c].of) /\ ~Half(edit[c].pc)
    BY <1>2, <1>3, <1>6, <1>7 DEF EditIs, Half
  <2> QED BY <1>1, <1>2, <1>3, <1>6, <1>7, <2>1, QuietCall
<1>a. (\A d \in Call : d # c => Alike(d)) /\ ~Probes(c) /\ ~Probes(c)' /\ ~Settings!Opening(c) /\ ~Settings!Opening(c)'
  BY <1>2, <1>6, <1>7 DEF Alike, Probes, Settings!Opening
<1>11. SweepsInv'
  BY <1>1, <1>2, <1>a, SweepsKeep
<1>12. HealthInv'
  <2>1. \A x \in Source : ~OwedBy(c, x)
    BY <1>2 DEF OwedBy
  <2> QED BY <1>1, <1>2, <1>a, <2>1, HealthKeeps DEF SettingsTypes
<1> QED BY <1>8, <1>9, <1>10, <1>11, <1>12 DEF SettingsInv

\* It reads it again for what it stores: the same, when it was alone.
LEMMA MergeKeeps ==
  ASSUME Settings!Bounds, SettingsInv, NEW c \in Call, Settings!Merge(c)
  PROVE  SettingsInv'
<1>1. SettingsTypes /\ KindsInv /\ TogetherInv /\ SweepsInv /\ HealthInv
  BY DEF SettingsInv
<1>2. /\ edit[c].pc = "merging" /\ UNCHANGED <<Settings!stored, unproven, refused>> /\ KindIs(edit[c]) /\ edit[c] \in Rec
      /\ UNCHANGED <<attached, removed, place, secret, open, built, health, sweeps, arrived, unproven, refused, outrun, blended>>
  BY <1>1 DEF Settings!Merge, Settings!stored, Settings!reading, Settings!history, KindsInv, SettingsTypes
<1>3. PICK s \in Source : s = edit[c].of /\ edit[c].kind = "edit"
  <2>1. edit[c].kind \in {"none", "switch", "add", "edit", "remove"}
    BY <1>2 DEF Rec
  <2> QED BY <1>2, <2>1 DEF KindIs
<1>4. PICK r : r = [edit[c] EXCEPT !.pc = "storing", !.seen = Settings!Merged(secret[s], edit[c].typed)]
  OBVIOUS
<1>5. Settings!Merged(secret[s], edit[c].typed) \in Settings!Secret /\ Settings!Merged(secret[s], edit[c].typed) = Settings!Candidate(secret[s], edit[c].typed)
  BY <1>1, <1>2 DEF Settings!Merged, Settings!Candidate, Settings!Secret, SettingsTypes, Rec
<1>6. /\ r \in Rec /\ r.pc = "storing" /\ r.seen = Settings!Candidate(secret[s], edit[c].typed) /\ r.kind = "edit" /\ r.of = s
      /\ r.place = edit[c].place /\ r.alone = edit[c].alone
  BY <1>2, <1>3, <1>4, <1>5 DEF Rec, CallPc
<1>7. edit' \in [Call -> Rec] /\ edit'[c] = r /\ \A d \in Call : d # c => edit'[d] = edit[d]
  BY <1>1, <1>3, <1>4, <1>6, BecomesIs DEF Settings!Merge
<1>8. SettingsTypes'
  BY <1>1, <1>2, <1>7 DEF SettingsTypes
<1>9. KindsInv'
  <2>1. KindIs(edit[c])'
    BY <1>2, <1>3, <1>6, <1>7 DEF KindIs
  <2> QED BY <1>1, <1>2, <1>7, <2>1, KindsKeep
<1>10. TogetherInv'
  <2>1. edit[c].alone => AloneIs(c)
    BY <1>1, <1>3 DEF TogetherInv, AloneAt, Settings!On
  <2>2. EditIs(edit'[c], edit[c].of) \/ ~edit[c].alone
    BY <1>2, <1>3, <1>6, <1>7, <2>1 DEF EditIs, AloneIs
  <2>3. Half(edit'[c].pc)
    BY <1>6, <1>7 DEF Half
  <2> QED BY <1>1, <1>2, <1>3, <1>6, <1>7, <2>2, <2>3, QuietCall
<1>a. (\A d \in Call : d # c => Alike(d)) /\ ~Probes(c) /\ ~Probes(c)' /\ ~Settings!Opening(c) /\ ~Settings!Opening(c)'
  BY <1>2, <1>6, <1>7 DEF Alike, Probes, Settings!Opening
<1>11. SweepsInv'
  BY <1>1, <1>2, <1>a, SweepsKeep
<1>12. HealthInv'
  <2>1. \A x \in Source : OwedBy(c, x) => OwedBy(c, x)'
    BY <1>2, <1>3, <1>6, <1>7 DEF OwedBy
  <2> QED BY <1>1, <1>2, <1>a, <2>1, HealthKeeps DEF SettingsTypes
<1> QED BY <1>8, <1>9, <1>10, <1>11, <1>12 DEF SettingsInv

\* A candidate that does not work changes nothing.
LEMMA RefuseKeeps ==
  ASSUME Settings!Bounds, SettingsInv, NEW c \in Call, Settings!Refuse(c)
  PROVE  SettingsInv'
<1>1. SettingsTypes /\ KindsInv /\ TogetherInv /\ SweepsInv /\ HealthInv
  BY DEF SettingsInv
<1>2. /\ edit[c].pc = "proving" /\ UNCHANGED <<Settings!stored, unproven, refused>>
      /\ UNCHANGED <<attached, removed, place, secret, open, built, health, sweeps, arrived, unproven, refused, outrun, blended>>
  BY DEF Settings!Refuse, Settings!stored, Settings!reading, Settings!history
<1>3. edit' \in [Call -> Rec] /\ edit'[c] = Settings!Idle /\ \A d \in Call : d # c => edit'[d] = edit[d]
  BY <1>1, IdleRec, BecomesIs DEF Settings!Refuse, Settings!Ended
<1>4. SettingsTypes'
  BY <1>1, <1>2, <1>3 DEF SettingsTypes
<1>5. KindsInv'
  <2>1. KindIs(edit[c])'
    BY <1>3, IdleRec DEF KindIs, Settings!Idle
  <2> QED BY <1>1, <1>2, <1>3, <2>1, KindsKeep
<1>6. TogetherInv'
  <2>1. ~Half(edit[c].pc) /\ edit[c].pc # "idle"
    BY <1>2 DEF Half
  <2> QED BY <1>1, <1>2, <1>3, <2>1, QuietCall
<1>a. (\A d \in Call : d # c => Alike(d)) /\ ~Probes(c) /\ ~Probes(c)' /\ ~Settings!Opening(c) /\ ~Settings!Opening(c)'
  BY <1>2, <1>3, IdleRec DEF Alike, Probes, Settings!Opening
<1>7. SweepsInv'
  BY <1>1, <1>2, <1>a, SweepsKeep
<1>8. HealthInv'
  <2>1. \A x \in Source : ~OwedBy(c, x)
    BY <1>2 DEF OwedBy
  <2> QED BY <1>1, <1>2, <1>a, <2>1, HealthKeeps DEF SettingsTypes
<1> QED BY <1>4, <1>5, <1>6, <1>7, <1>8 DEF SettingsInv

\* A sweep looks at a source.
LEMMA LookKeeps ==
  ASSUME Settings!Bounds, SettingsInv, NEW c \in Call, NEW s \in Source, Settings!Look(c, s)
  PROVE  SettingsInv'
<1>1. SettingsTypes /\ KindsInv /\ TogetherInv /\ SweepsInv /\ HealthInv
  BY DEF SettingsInv
<1>2. /\ edit[c].pc = "probing" /\ UNCHANGED <<Settings!stored, unproven, refused>> /\ edit[c] \in Rec /\ KindIs(edit[c])
      /\ UNCHANGED <<attached, removed, place, secret, open, built, health, sweeps, arrived, unproven, refused, outrun>>
      /\ blended' = IF (edit[c].got[s] = "open" /\ built # Settings!NoReader) /\ (open # s \/ \E d \in Call : Settings!Opening(d)) THEN blended \cup {s} ELSE blended
  BY <1>1 DEF Settings!Look, Settings!stored, Settings!reading, SettingsTypes, KindsInv
<1>3. PICK f \in {"ok", "broken"} : f = Settings!Found(IF edit[c].got[s] = "open" /\ built # Settings!NoReader THEN built ELSE Settings!Stored(s))
  BY DEF Settings!Found
<1>4. PICK r : r = [edit[c] EXCEPT !.got = [@ EXCEPT ![s] = f]]
  OBVIOUS
<1>5. /\ r \in Rec /\ r.pc = "probing" /\ r.sweep = edit[c].sweep /\ r.kind = edit[c].kind /\ r.of = edit[c].of
      /\ r.place = edit[c].place /\ r.alone = edit[c].alone
  BY <1>2, <1>4 DEF Rec
<1>6. edit' \in [Call -> Rec] /\ edit'[c] = r /\ \A d \in Call : d # c => edit'[d] = edit[d]
  BY <1>1, <1>3, <1>4, <1>5, BecomesIs DEF Settings!Look
<1>7. SettingsTypes'
  <2>1. blended' \subseteq Source
    BY <1>1, <1>2 DEF SettingsTypes
  <2> QED BY <1>1, <1>2, <1>6, <2>1 DEF SettingsTypes
<1>8. KindsInv'
  <2>1. KindIs(edit[c])'
    BY <1>2, <1>5, <1>6 DEF KindIs
  <2> QED BY <1>1, <1>2, <1>6, <2>1, KindsKeep
<1>9. TogetherInv'
  <2>1. EditIs(edit'[c], edit[c].of) /\ ~Half(edit[c].pc) /\ edit[c].pc # "idle"
    BY <1>2, <1>5, <1>6 DEF EditIs, Half
  <2> QED BY <1>1, <1>2, <1>5, <1>6, <2>1, QuietCall
<1>10. SweepsInv'
  <2>1. \A d \in Call : (Probes(d)' <=> Probes(d)) /\ edit'[d].sweep = edit[d].sweep
    BY <1>2, <1>5, <1>6 DEF Probes
  <2> QED BY <1>1, <1>2, <2>1 DEF SweepsInv
<1>11. HealthInv'
  BY <1>1, HealthLook
<1> QED BY <1>7, <1>8, <1>9, <1>10, <1>11 DEF SettingsInv

\* A sweep ends, and its answer is every row's.
LEMMA LandKeeps ==
  ASSUME Settings!Bounds, SettingsInv, NEW c \in Call, Settings!Land(c)
  PROVE  SettingsInv'
<1>1. SettingsTypes /\ KindsInv /\ TogetherInv /\ SweepsInv /\ HealthInv
  BY DEF SettingsInv
<1>2. /\ edit[c].pc = "probing" /\ UNCHANGED <<Settings!stored, unproven, refused>> /\ edit[c] \in Rec
      /\ UNCHANGED <<attached, removed, place, secret, open, built, sweeps, unproven, refused, blended>>
      /\ outrun' = (edit[c].sweep < arrived) /\ arrived' = IF edit[c].sweep < arrived THEN arrived ELSE edit[c].sweep
      /\ \A s \in Source : edit[c].got[s] \notin {"todo", "open"}
      /\ health' = [s \in Source |-> IF edit[c].got[s] = "skip" THEN "unknown" ELSE edit[c].got[s]]
  BY <1>1 DEF Settings!Land, Settings!stored, Settings!reading, SettingsTypes
<1>3. edit' \in [Call -> Rec] /\ edit'[c] = Settings!Idle /\ \A d \in Call : d # c => edit'[d] = edit[d]
  BY <1>1, IdleRec, BecomesIs DEF Settings!Land, Settings!Ended
<1>4. SettingsTypes'
  <2>1. outrun' \in BOOLEAN /\ arrived' \in Nat
    BY <1>1, <1>2 DEF SettingsTypes, Rec
  <2>2. health' \in [Source -> {"unknown", "ok", "broken"}]
    <3>1. edit[c].got \in [Source -> {"skip", "todo", "open", "ok", "broken"}]
      BY <1>2 DEF Rec
    <3>2. \A s \in Source : (IF edit[c].got[s] = "skip" THEN "unknown" ELSE edit[c].got[s]) \in {"unknown", "ok", "broken"}
      BY <1>2, <3>1
    <3> QED BY <1>2, <3>2
  <2> QED BY <1>1, <1>2, <1>3, <2>1, <2>2 DEF SettingsTypes
<1>5. KindsInv'
  <2>1. KindIs(edit[c])'
    BY <1>3, IdleRec DEF KindIs, Settings!Idle
  <2> QED BY <1>1, <1>2, <1>3, <2>1, KindsKeep
<1>6. TogetherInv'
  <2>1. ~Half(edit[c].pc) /\ edit[c].pc # "idle"
    BY <1>2 DEF Half
  <2> QED BY <1>1, <1>2, <1>3, <2>1, QuietCall
<1>7. SweepsInv'
  <2>1. (\A d \in Call : d # c => Alike(d)) /\ Probes(c) /\ ~Probes(c)'
    BY <1>2, <1>3, IdleRec DEF Alike, Probes
  <2> QED BY <1>1, <1>2, <2>1, SweepsLand
<1>8. HealthInv'
  BY <1>1, HealthLand
<1> QED BY <1>4, <1>5, <1>6, <1>7, <1>8 DEF SettingsInv
\* A correction that is stored: the source's reader is built anew, or a sweep begins.
LEMMA ChangedKeeps ==
  ASSUME Settings!Bounds, SettingsInv, NEW c \in Call, NEW s \in Source, edit[c].of = s, edit[c].kind = "edit",
         edit[c].pc \in {"proving", "storing"}, Settings!Changed(c), place' \in [Source -> Settings!Place], secret' \in [Source -> Settings!Secret],
         \A x \in Source : x # s => place'[x] = place[x] /\ secret'[x] = secret[x],
         UNCHANGED <<attached, removed, built, health, arrived, outrun>>,
         edit[c].alone => Settings!Works(place'[s], secret'[s])
  PROVE  SettingsInv'
<1>1. SettingsTypes /\ KindsInv /\ TogetherInv /\ SweepsInv /\ HealthInv
  BY DEF SettingsInv
<1>2. KindIs(edit[c]) /\ edit[c] \in Rec /\ (edit[c].alone => AloneIs(c)) /\ TogetherAt(s)
  BY <1>1 DEF KindsInv, SettingsTypes, TogetherInv, AloneAt, Settings!On
<1>3. /\ unproven' = IF edit[c].alone /\ s \in attached THEN unproven \ {s} ELSE unproven
      /\ refused' = IF edit[c].alone /\ s \in attached THEN refused \ {s} ELSE refused
      /\ open' = open
  BY DEF Settings!Changed, Settings!Reopens
<1>4. \A x \in Source : x # s => SameAt(x)
  BY <1>3 DEF SameAt
<1>5. s \notin unproven' \cup refused' => edit[c].alone /\ Together(s)'
  <2>1. ASSUME s \notin unproven' \cup refused' PROVE edit[c].alone /\ s \in attached
    <3>1. CASE edit[c].alone /\ s \in attached
      BY <3>1
    <3>2. CASE ~(edit[c].alone /\ s \in attached)
      <4>1. edit[c].alone
        BY <1>2, <1>3, <2>1, <3>2 DEF TogetherAt, Settings!On
      <4>2. s \in attached \cup unproven
        BY <1>2, <4>1 DEF AloneIs
      <4> QED BY <1>3, <2>1, <3>2, <4>1, <4>2
    <3> QED BY <3>1, <3>2
  <2>2. ASSUME edit[c].alone, s \in attached PROVE Together(s)'
    <3>1. s \notin removed
      BY <1>1, <2>2 DEF SettingsTypes
    <3> QED BY <2>2, <3>1 DEF Together
  <2> QED BY <2>1, <2>2
<1>6. edit[c].alone => s \in attached' \cup unproven'
  BY <1>2, <1>3 DEF AloneIs
<1>7. \A d \in Call : ~(Settings!Opening(c) \/ Probes(c) \/ edit[c].pc = "idle")
  BY DEF Settings!Opening, Probes
<1>8. CASE Settings!Reopens(s)
  <2>1. sweeps' = sweeps /\ Settings!Building(c) /\ blended' = Settings!Meeting
    BY <1>8 DEF Settings!Changed
  <2>2. /\ edit' \in [Call -> Rec] /\ \A d \in Call : d # c => edit'[d] = edit[d]
        /\ edit'[c].pc = "building" /\ (open' \in Source => edit'[c].seen = secret'[open'])
        /\ edit'[c].kind = edit[c].kind /\ edit'[c].of = edit[c].of /\ edit'[c].place = edit[c].place
        /\ edit'[c].alone = edit[c].alone
    BY <1>1, <1>3, <2>1, BuildingIs DEF SettingsTypes
  <2>3. SettingsTypes'
    BY <1>1, <1>3, <2>1, <2>2 DEF SettingsTypes, Settings!Meeting
  <2>4. KindsInv'
    <3>1. KindIs(edit[c])'
      BY <1>2, <2>2 DEF KindIs
    <3> QED BY <1>1, <2>2, <3>1, KindsKeep
  <2>5. TogetherInv'
    <3>1. EditIs(edit[c], s)'
      BY <2>2 DEF EditIs
    <3> QED BY <1>1, <1>4, <1>5, <1>6, <2>2, <3>1, StoringCall
  <2>a. (\A d \in Call : d # c => Alike(d)) /\ ~Probes(c) /\ ~Probes(c)'
    BY <1>7, <2>2 DEF Alike, Probes
  <2>6. SweepsInv'
    BY <1>1, <2>1, <2>a, SweepsKeep
  <2>7. HealthInv'
    <3>1. \A x \in attached' \ refused' :
             \/ OwedBy(c, x)'
             \/ x \in attached \ refused /\ place'[x] = place[x] /\ secret'[x] = secret[x] /\ ~OwedBy(c, x)
      BY <1>1, <1>3, <2>2 DEF OwedBy, SettingsTypes
    <3>2. open' \in attached' => edit'[c].seen = secret'[open']
      BY <1>1, <2>2 DEF SettingsTypes
    <3> QED BY <1>1, <2>1, <2>2, <2>a, <3>1, <3>2, HealthOpens
  <2> QED BY <2>3, <2>4, <2>5, <2>6, <2>7 DEF SettingsInv
<1>9. CASE ~Settings!Reopens(s)
  <2>1. Settings!Sweeping(c) /\ blended' = blended
    BY <1>9 DEF Settings!Changed
  <2>2. /\ edit' \in [Call -> Rec] /\ \A d \in Call : d # c => edit'[d] = edit[d]
        /\ sweeps' = sweeps + 1 /\ edit'[c].pc = "probing" /\ edit'[c].sweep = sweeps + 1
        /\ edit'[c].got = [x \in Source |-> IF x \notin attached THEN "skip" ELSE IF x = open THEN "open" ELSE "todo"]
        /\ edit'[c].kind = edit[c].kind /\ edit'[c].of = edit[c].of /\ edit'[c].alone = edit[c].alone
        /\ edit'[c].place = edit[c].place
    BY <1>1, <2>1, SweepingIs
  <2>3. SettingsTypes'
    BY <1>1, <1>3, <2>1, <2>2 DEF SettingsTypes, Settings!Meeting
  <2>4. KindsInv'
    <3>1. KindIs(edit[c])'
      BY <1>2, <2>2 DEF KindIs
    <3> QED BY <1>1, <2>2, <3>1, KindsKeep
  <2>5. TogetherInv'
    <3>1. EditIs(edit[c], s)'
      BY <2>2 DEF EditIs
    <3> QED BY <1>1, <1>4, <1>5, <1>6, <2>2, <3>1, StoringCall
  <2>a. \A d \in Call : d # c => Alike(d)
    BY <2>2 DEF Alike
  <2>6. SweepsInv'
    BY <1>1, <2>2, <2>a, SweepsBegin
  <2>7. HealthInv'
    <3>1. open # s
      BY <1>9 DEF Settings!Reopens
    <3>2. open \in attached' \ refused' =>
           /\ open \in attached \ refused /\ place'[open] = place[open] /\ secret'[open] = secret[open]
           /\ ~Settings!Opening(c) /\ ~OwedBy(c, open) /\ built' = built
      BY <1>1, <1>3, <1>7, <3>1 DEF OwedBy, SettingsTypes
    <3>3. attached' \subseteq Source
      BY <1>1 DEF SettingsTypes
    <3> QED BY <1>1, <1>3, <2>1, <2>2, <2>a, <3>2, <3>3, HealthSweeps
  <2> QED BY <2>3, <2>4, <2>5, <2>6, <2>7 DEF SettingsInv
<1> QED BY <1>8, <1>9

\* A configuration that works is recorded: all of the change, or halfway.
LEMMA ConfigureKeeps ==
  ASSUME Settings!Bounds, SettingsInv, NEW c \in Call, Settings!Configure(c)
  PROVE  SettingsInv'
<1>1. SettingsTypes /\ KindsInv /\ TogetherInv /\ SweepsInv /\ HealthInv
  BY DEF SettingsInv
<1>2. /\ edit[c].pc = "proving" /\ Settings!Works(edit[c].place, edit[c].seen) /\ KindIs(edit[c]) /\ edit[c] \in Rec
      /\ UNCHANGED <<attached, removed, secret, built, health, arrived, outrun>>
      /\ place' = [place EXCEPT ![edit[c].of] = edit[c].place]
  BY <1>1 DEF Settings!Configure, KindsInv, SettingsTypes
<1>3. PICK s \in Source : s = edit[c].of
  BY <1>2 DEF KindIs
<1>k. edit[c].kind = "edit" /\ edit[c].place \in Settings!Place
  <2>1. edit[c].kind \in {"none", "switch", "add", "edit", "remove"}
    BY <1>2 DEF Rec
  <2> QED BY <1>2, <2>1 DEF KindIs
<1>4. /\ place' \in [Source -> Settings!Place] /\ place'[s] = edit[c].place /\ \A x \in Source : x # s => place'[x] = place[x]
      /\ secret \in [Source -> Settings!Secret]
  BY <1>1, <1>2, <1>3, <1>k DEF SettingsTypes
<1>5. edit[c].alone => edit[c].seen = Settings!Candidate(secret[s], edit[c].typed)
  <2>1. edit[c].alone => AloneIs(c)
    BY <1>1, <1>3, <1>k DEF TogetherInv, AloneAt, Settings!On
  <2> QED BY <1>2, <1>3, <1>k, <2>1 DEF AloneIs
<1>6. CASE edit[c].typed = Settings!Nothing
  <2>1. Settings!Changed(c)
    BY <1>6 DEF Settings!Configure
  <2>2. Settings!Candidate(secret[s], Settings!Nothing) = secret[s]
    BY <1>4 DEF Settings!Candidate, Settings!Nothing, Settings!Secret
  <2>3. edit[c].alone => Settings!Works(place'[s], secret'[s])
    BY <1>2, <1>4, <1>5, <1>6, <2>2
  <2> QED BY <1>2, <1>3, <1>k, <1>4, <2>1, <2>3, ChangedKeeps
<1>7. CASE edit[c].typed # Settings!Nothing
  <2>1. Settings!Go(c, "merging") /\ UNCHANGED <<open, sweeps, unproven, refused, blended>>
    BY <1>7 DEF Settings!Configure
  <2>2. /\ edit' \in [Call -> Rec] /\ \A d \in Call : d # c => edit'[d] = edit[d]
        /\ edit'[c].pc = "merging" /\ edit'[c].kind = edit[c].kind /\ edit'[c].of = edit[c].of /\ edit'[c].place = edit[c].place
        /\ edit'[c].alone = edit[c].alone /\ edit'[c].seen = edit[c].seen /\ edit'[c].typed = edit[c].typed
    BY <1>1, <2>1, GoIs DEF CallPc
  <2>3. SettingsTypes'
    BY <1>1, <1>2, <1>4, <2>1, <2>2 DEF SettingsTypes
  <2>4. KindsInv'
    <3>1. KindIs(edit[c])'
      BY <1>2, <1>k, <2>2 DEF KindIs
    <3> QED BY <1>1, <1>2, <2>2, <3>1, KindsKeep
  <2>5. TogetherInv'
    <3>1. \A x \in Source : x # s => SameAt(x)
      BY <1>2, <1>4, <2>1 DEF SameAt
    <3>2. edit[c].alone => AloneIs(c)
      BY <1>1, <1>3, <1>k DEF TogetherInv, AloneAt, Settings!On
    <3>3. edit[c].alone => EditIs(edit[c], s)' /\ s \in attached' \cup unproven'
      BY <1>2, <1>3, <1>k, <1>4, <1>5, <2>1, <2>2, <3>2 DEF EditIs, AloneIs
    <3>4. s \notin unproven' \cup refused' => edit[c].alone
      BY <1>1, <1>3, <1>k, <2>1 DEF TogetherInv, TogetherAt, Settings!On
    <3>5. Half(edit'[c].pc)
      BY <2>2 DEF Half
    <3> QED BY <1>1, <1>3, <1>k, <2>2, <3>1, <3>3, <3>4, <3>5, StoringCall
  <2>a. (\A d \in Call : d # c => Alike(d)) /\ ~Probes(c) /\ ~Probes(c)' /\ ~Settings!Opening(c) /\ ~Settings!Opening(c)'
    BY <1>2, <2>2 DEF Alike, Probes, Settings!Opening
  <2>6. SweepsInv'
    BY <1>1, <1>2, <2>1, <2>a, SweepsKeep
  <2>7. HealthInv'
    <3>1. \A x \in attached' \ refused' :
             \/ OwedBy(c, x)'
             \/ x \in attached \ refused /\ place'[x] = place[x] /\ secret'[x] = secret[x] /\ ~OwedBy(c, x)
      BY <1>1, <1>2, <1>3, <1>k, <1>4, <2>1, <2>2 DEF OwedBy, SettingsTypes
    <3> QED BY <1>1, <1>2, <2>1, <2>a, <3>1, HealthKeeps
  <2> QED BY <2>3, <2>4, <2>5, <2>6, <2>7 DEF SettingsInv
<1> QED BY <1>6, <1>7

\* The credential that goes with it is stored.
LEMMA StoreKeeps ==
  ASSUME Settings!Bounds, SettingsInv, NEW c \in Call, Settings!Store(c)
  PROVE  SettingsInv'
<1>1. SettingsTypes /\ KindsInv /\ TogetherInv /\ SweepsInv /\ HealthInv
  BY DEF SettingsInv
<1>2. /\ edit[c].pc = "storing" /\ KindIs(edit[c]) /\ edit[c] \in Rec
      /\ UNCHANGED <<attached, removed, place, built, health, arrived, outrun>>
      /\ secret' = [secret EXCEPT ![edit[c].of] = edit[c].seen]
  BY <1>1 DEF Settings!Store, KindsInv, SettingsTypes
<1>3. PICK s \in Source : s = edit[c].of
  BY <1>2 DEF KindIs
<1>k. edit[c].kind \in {"add", "edit"}
  <2>1. edit[c].kind \in {"none", "switch", "add", "edit", "remove"}
    BY <1>2 DEF Rec
  <2> QED BY <1>2, <2>1 DEF KindIs
<1>4. /\ secret' \in [Source -> Settings!Secret] /\ secret'[s] = edit[c].seen /\ \A x \in Source : x # s => secret'[x] = secret[x]
      /\ place \in [Source -> Settings!Place]
  BY <1>1, <1>2, <1>3 DEF SettingsTypes, Rec
<1>5. edit[c].alone => AloneIs(c)
  BY <1>1, <1>3, <1>k DEF TogetherInv, AloneAt, Settings!On
<1>6. CASE edit[c].kind = "edit"
  <2>1. Settings!Changed(c)
    BY <1>6 DEF Settings!Store
  <2>2. edit[c].alone => Settings!Works(place'[s], secret'[s])
    BY <1>2, <1>3, <1>4, <1>5, <1>6 DEF AloneIs
  <2> QED BY <1>2, <1>3, <1>4, <1>6, <2>1, <2>2, ChangedKeeps
<1>7. CASE edit[c].kind = "add"
  <2>1. /\ Settings!Go(c, "opening") /\ UNCHANGED <<open, sweeps, refused, blended>>
        /\ unproven' = IF Settings!Works(place[s], edit[c].seen) THEN unproven ELSE unproven \cup {s}
    BY <1>3, <1>7 DEF Settings!Store
  <2>2. /\ edit' \in [Call -> Rec] /\ \A d \in Call : d # c => edit'[d] = edit[d]
        /\ edit'[c].pc = "opening" /\ edit'[c].kind = edit[c].kind /\ edit'[c].of = edit[c].of /\ edit'[c].place = edit[c].place
        /\ edit'[c].alone = edit[c].alone
    BY <1>1, <2>1, GoIs DEF CallPc
  <2>3. SettingsTypes'
    BY <1>1, <1>2, <1>4, <2>1, <2>2 DEF SettingsTypes
  <2>4. KindsInv'
    <3>1. KindIs(edit[c])'
      BY <1>2, <1>7, <2>2 DEF KindIs
    <3> QED BY <1>1, <1>2, <2>2, <3>1, KindsKeep
  <2>5. TogetherInv'
    <3>1. \A x \in Source : x # s => SameAt(x)
      BY <1>2, <1>4, <2>1 DEF SameAt
    <3>2. edit[c].alone => s \in attached'
      BY <1>2, <1>3, <1>5, <1>7 DEF AloneIs
    <3>3. EditIs(edit[c], s)'
      BY <1>7, <2>2 DEF EditIs
    <3>4. s \notin unproven' \cup refused' => edit[c].alone
      BY <1>1, <1>3, <1>7, <2>1 DEF TogetherInv, TogetherAt, Settings!On
    <3>5. s \notin unproven' \cup refused' => Together(s)'
      <4>1. s \in attached' => s \notin removed'
        BY <1>1, <1>2 DEF SettingsTypes
      <4> QED BY <1>2, <1>4, <2>1, <3>2, <3>4, <4>1 DEF Together
    <3> QED BY <1>1, <1>3, <1>7, <2>2, <3>1, <3>2, <3>3, <3>4, <3>5, StoringCall
  <2>a. (\A d \in Call : d # c => Alike(d)) /\ ~Probes(c) /\ ~Probes(c)' /\ ~Settings!Opening(c) /\ ~Settings!Opening(c)'
    BY <1>2, <2>2 DEF Alike, Probes, Settings!Opening
  <2>6. SweepsInv'
    BY <1>1, <1>2, <2>1, <2>a, SweepsKeep
  <2>7. HealthInv'
    <3>1. \A x \in attached' \ refused' :
             \/ OwedBy(c, x)'
             \/ x \in attached \ refused /\ place'[x] = place[x] /\ secret'[x] = secret[x] /\ ~OwedBy(c, x)
      BY <1>1, <1>2, <1>3, <1>7, <1>4, <2>1, <2>2 DEF OwedBy, SettingsTypes
    <3> QED BY <1>1, <1>2, <2>1, <2>a, <3>1, HealthKeeps
  <2> QED BY <2>3, <2>4, <2>5, <2>6, <2>7 DEF SettingsInv
<1> QED BY <1>k, <1>6, <1>7
\* The record goes first: halfway.
LEMMA DeleteKeeps ==
  ASSUME Settings!Bounds, SettingsInv, NEW c \in Call, Settings!Delete(c)
  PROVE  SettingsInv'
<1>1. SettingsTypes /\ KindsInv /\ TogetherInv /\ SweepsInv /\ HealthInv
  BY DEF SettingsInv
<1>2. /\ edit[c].pc = "forgetting" /\ KindIs(edit[c]) /\ edit[c] \in Rec
      /\ UNCHANGED <<place, secret, open, built, health, sweeps, arrived, unproven, refused, outrun, blended>>
      /\ attached' = attached \ {edit[c].of} /\ removed' = removed \cup {edit[c].of}
  BY <1>1 DEF Settings!Delete, KindsInv, SettingsTypes, Settings!reading, Settings!history
<1>3. PICK s \in Source : s = edit[c].of /\ edit[c].kind = "remove"
  <2>1. edit[c].kind \in {"none", "switch", "add", "edit", "remove"}
    BY <1>2 DEF Rec
  <2> QED BY <1>2, <2>1 DEF KindIs
<1>4. /\ edit' \in [Call -> Rec] /\ \A d \in Call : d # c => edit'[d] = edit[d]
      /\ edit'[c].pc = "deleting" /\ edit'[c].kind = edit[c].kind /\ edit'[c].of = edit[c].of /\ edit'[c].alone = edit[c].alone
  BY <1>1, GoIs DEF Settings!Delete, CallPc
<1>5. SettingsTypes'
  BY <1>1, <1>2, <1>3, <1>4 DEF SettingsTypes
<1>6. KindsInv'
  <2>1. KindIs(edit[c])'
    BY <1>2, <1>3, <1>4 DEF KindIs
  <2>2. attached \cup removed \subseteq attached' \cup removed' /\ removed \subseteq removed'
    BY <1>2
  <2> QED BY <1>1, <1>4, <2>1, <2>2, KindsKeep
<1>7. TogetherInv'
  <2>1. \A x \in Source : x # s => SameAt(x)
    BY <1>2, <1>3 DEF SameAt
  <2>2. EditIs(edit[c], s)'
    BY <1>3, <1>4 DEF EditIs
  <2>3. s \notin unproven' \cup refused' => edit[c].alone
    BY <1>1, <1>2, <1>3 DEF TogetherInv, TogetherAt, Settings!On
  <2>4. Half(edit'[c].pc)
    BY <1>4 DEF Half
  <2> QED BY <1>1, <1>3, <1>4, <2>1, <2>2, <2>3, <2>4, StoringCall
<1>a. (\A d \in Call : d # c => Alike(d)) /\ ~Probes(c) /\ ~Probes(c)' /\ ~Settings!Opening(c) /\ ~Settings!Opening(c)'
  BY <1>2, <1>4 DEF Alike, Probes, Settings!Opening
<1>8. SweepsInv'
  BY <1>1, <1>2, <1>a, SweepsKeep
<1>9. HealthInv'
  <2>1. \A x \in attached' \ refused' :
           x \in attached \ refused /\ place'[x] = place[x] /\ secret'[x] = secret[x] /\ ~OwedBy(c, x)
    BY <1>2, <1>3 DEF OwedBy
  <2> QED BY <1>1, <1>2, <1>a, <2>1, HealthKeeps
<1> QED BY <1>5, <1>6, <1>7, <1>8, <1>9 DEF SettingsInv

\* The credential follows: gone with all it had.
LEMMA ForgetKeeps ==
  ASSUME Settings!Bounds, SettingsInv, NEW c \in Call, Settings!Forget(c)
  PROVE  SettingsInv'
<1>1. SettingsTypes /\ KindsInv /\ TogetherInv /\ SweepsInv /\ HealthInv
  BY DEF SettingsInv
<1>2. /\ edit[c].pc = "deleting" /\ KindIs(edit[c]) /\ edit[c] \in Rec
      /\ UNCHANGED <<attached, removed, place, open, built, health, arrived, unproven, refused, outrun, blended>>
      /\ secret' = [secret EXCEPT ![edit[c].of] = Settings!Nothing]
  BY <1>1 DEF Settings!Forget, KindsInv, SettingsTypes, Settings!reading, Settings!history
<1>3. PICK s \in Source : s = edit[c].of /\ edit[c].kind = "remove" /\ s \in removed
  <2>1. edit[c].kind \in {"none", "switch", "add", "edit", "remove"}
    BY <1>2 DEF Rec
  <2> QED BY <1>2, <2>1 DEF KindIs
<1>4. /\ secret' \in [Source -> Settings!Secret] /\ secret'[s] = Settings!Nothing /\ \A x \in Source : x # s => secret'[x] = secret[x]
      /\ s \notin attached
  BY <1>1, <1>2, <1>3, IdleRec DEF SettingsTypes
<1>t. ASSUME \A d \in Call : d # c => edit'[d] = edit[d],
             edit'[c].kind = edit[c].kind, edit'[c].of = s, edit'[c].alone = edit[c].alone
      PROVE  TogetherInv'
  <2>1. \A x \in Source : x # s => SameAt(x)
    BY <1>2, <1>4 DEF SameAt
  <2>2. EditIs(edit[c], s)'
    BY <1>3, <1>t DEF EditIs
  <2>3. s \notin unproven' \cup refused' => edit[c].alone
    BY <1>1, <1>2, <1>3 DEF TogetherInv, TogetherAt, Settings!On
  <2>4. Together(s)'
    BY <1>2, <1>4 DEF Together
  <2> QED BY <1>1, <1>3, <1>t, <2>1, <2>2, <2>3, <2>4, StoringCall
<1>5. CASE edit[c].wasOpen
  <2>1. Settings!Go(c, "opening") /\ sweeps' = sweeps
    BY <1>5 DEF Settings!Forget
  <2>2. /\ edit' \in [Call -> Rec] /\ \A d \in Call : d # c => edit'[d] = edit[d]
        /\ edit'[c].pc = "opening" /\ edit'[c].kind = edit[c].kind /\ edit'[c].of = edit[c].of /\ edit'[c].alone = edit[c].alone
    BY <1>1, <2>1, GoIs DEF CallPc
  <2>3. SettingsTypes'
    BY <1>1, <1>2, <1>4, <2>1, <2>2 DEF SettingsTypes
  <2>4. KindsInv'
    <3>1. KindIs(edit[c])'
      BY <1>2, <1>3, <2>2 DEF KindIs
    <3> QED BY <1>1, <1>2, <2>2, <3>1, KindsKeep
  <2>5. TogetherInv'
    BY <1>3, <1>t, <2>2
  <2>a. (\A d \in Call : d # c => Alike(d)) /\ ~Probes(c) /\ ~Probes(c)' /\ ~Settings!Opening(c) /\ ~Settings!Opening(c)'
    BY <1>2, <2>2 DEF Alike, Probes, Settings!Opening
  <2>6. SweepsInv'
    BY <1>1, <1>2, <2>1, <2>a, SweepsKeep
  <2>7. HealthInv'
    <3>1. \A x \in attached' \ refused' :
             x \in attached \ refused /\ place'[x] = place[x] /\ secret'[x] = secret[x] /\ ~OwedBy(c, x)
      BY <1>1, <1>2, <1>3, <1>4 DEF OwedBy, SettingsTypes
    <3> QED BY <1>1, <1>2, <2>1, <2>a, <3>1, HealthKeeps
  <2> QED BY <2>3, <2>4, <2>5, <2>6, <2>7 DEF SettingsInv
<1>6. CASE ~edit[c].wasOpen
  <2>1. Settings!Sweeping(c)
    BY <1>6 DEF Settings!Forget
  <2>2. /\ edit' \in [Call -> Rec] /\ \A d \in Call : d # c => edit'[d] = edit[d]
        /\ sweeps' = sweeps + 1 /\ edit'[c].pc = "probing" /\ edit'[c].sweep = sweeps + 1
        /\ edit'[c].got = [x \in Source |-> IF x \notin attached THEN "skip" ELSE IF x = open THEN "open" ELSE "todo"]
        /\ edit'[c].kind = edit[c].kind /\ edit'[c].of = edit[c].of /\ edit'[c].alone = edit[c].alone
    BY <1>1, <2>1, SweepingIs
  <2>3. SettingsTypes'
    BY <1>1, <1>2, <1>4, <2>2 DEF SettingsTypes
  <2>4. KindsInv'
    <3>1. KindIs(edit[c])'
      BY <1>2, <1>3, <2>2 DEF KindIs
    <3> QED BY <1>1, <1>2, <2>2, <3>1, KindsKeep
  <2>5. TogetherInv'
    BY <1>3, <1>t, <2>2
  <2>a. \A d \in Call : d # c => Alike(d)
    BY <2>2 DEF Alike
  <2>6. SweepsInv'
    BY <1>1, <1>2, <2>2, <2>a, SweepsBegin
  <2>7. HealthInv'
    <3>1. open \in attached' \ refused' =>
           /\ open \in attached \ refused /\ place'[open] = place[open] /\ secret'[open] = secret[open]
           /\ ~Settings!Opening(c) /\ ~OwedBy(c, open) /\ built' = built
      BY <1>1, <1>2, <1>3, <1>4 DEF OwedBy, Settings!Opening, SettingsTypes
    <3>2. attached' \subseteq Source
      BY <1>1, <1>2 DEF SettingsTypes
    <3> QED BY <1>1, <1>2, <2>2, <2>a, <3>1, <3>2, HealthSweeps
  <2> QED BY <2>3, <2>4, <2>5, <2>6, <2>7 DEF SettingsInv
<1> QED BY <1>5, <1>6

\* A write is refused, and the source is told of as failed.
LEMMA FailKeeps ==
  ASSUME Settings!Bounds, SettingsInv, NEW c \in Call, Settings!Fail(c)
  PROVE  SettingsInv'
<1>1. SettingsTypes /\ KindsInv /\ TogetherInv /\ SweepsInv /\ HealthInv
  BY DEF SettingsInv
<1>2. /\ edit[c].pc \in {"storing", "deleting"} /\ KindIs(edit[c]) /\ edit[c] \in Rec
      /\ UNCHANGED <<attached, removed, place, secret, open, built, health, sweeps, arrived, unproven, outrun, blended>>
      /\ refused' = refused \cup {edit[c].of}
  BY <1>1 DEF Settings!Fail, KindsInv, SettingsTypes, Settings!reading, Settings!stored
<1>3. PICK s \in Source : s = edit[c].of /\ edit[c].kind # "switch"
  <2>1. edit[c].kind \in {"none", "switch", "add", "edit", "remove"}
    BY <1>2 DEF Rec
  <2> QED BY <1>2, <2>1 DEF KindIs
<1>4. edit' \in [Call -> Rec] /\ edit'[c] = Settings!Idle /\ \A d \in Call : d # c => edit'[d] = edit[d]
  BY <1>1, IdleRec, BecomesIs DEF Settings!Fail, Settings!Ended
<1>5. SettingsTypes'
  BY <1>1, <1>2, <1>3, <1>4 DEF SettingsTypes
<1>6. KindsInv'
  <2>1. KindIs(edit[c])'
    BY <1>4, IdleRec DEF KindIs, Settings!Idle
  <2> QED BY <1>1, <1>2, <1>4, <2>1, KindsKeep
<1>7. TogetherInv'
  <2>1. \A x \in Source : x # s => SameAt(x)
    BY <1>2, <1>3 DEF SameAt
  <2>2. s \in unproven' \cup refused'
    BY <1>2, <1>3
  <2> QED BY <1>1, <1>3, <1>4, <2>1, <2>2, StoringCall
<1>a. (\A d \in Call : d # c => Alike(d)) /\ ~Probes(c) /\ ~Probes(c)' /\ ~Settings!Opening(c) /\ ~Settings!Opening(c)'
  BY <1>2, <1>4, IdleRec DEF Alike, Probes, Settings!Opening
<1>8. SweepsInv'
  BY <1>1, <1>2, <1>a, SweepsKeep
<1>9. HealthInv'
  <2>1. \A x \in attached' \ refused' :
           x \in attached \ refused /\ place'[x] = place[x] /\ secret'[x] = secret[x] /\ ~OwedBy(c, x)
    BY <1>2, <1>3 DEF OwedBy
  <2> QED BY <1>1, <1>2, <1>a, <2>1, HealthKeeps
<1> QED BY <1>5, <1>6, <1>7, <1>8, <1>9 DEF SettingsInv

-----------------------------------------------------------------------------
(* The specification.                                                        *)

\* The app begins with every source shown to work, and nothing under way.
LEMMA SettingsInvInit ==
  ASSUME Settings!Bounds, Settings!Init
  PROVE  SettingsInv
<1>1. \A c \in Call : edit[c] = Settings!Idle
  BY DEF Settings!Init
<1>2. SettingsTypes
  <2>1. Settings!Nothing \in Settings!Secret /\ [k \in Settings!Key |-> 1] \in Settings!Secret
    BY DEF Settings!Nothing, Settings!Secret, Settings!Place
  <2>2. place \in [Source -> Settings!Place] /\ secret \in [Source -> Settings!Secret] /\ health \in [Source -> {"unknown", "ok", "broken"}]
    BY <2>1 DEF Settings!Init, Settings!Place
  <2>3. open \in Source \cup {"none"}
    BY DEF Settings!Init
  <2>4. built \in [place : {0} \cup Settings!Place, secret : Settings!Secret]
    BY <2>1, <2>2, <2>3 DEF Settings!Init, Settings!NoReader, Settings!Stored
  <2> QED BY <2>2, <2>3, <2>4, IdleRec DEF Settings!Init, SettingsTypes
<1>3. KindsInv
  BY <1>1, IdleRec DEF KindsInv, KindIs
<1>4. \A s \in Source : Settings!On(s) = {}
  BY <1>1, IdleRec DEF Settings!On
<1>5. \A s \in attached : place[s] = 1 /\ secret[s] = [k \in Settings!Key |-> 1] /\ Told(s) = "ok" /\ health[s] = "ok"
  BY DEF Settings!Init, Told, Settings!Found, Settings!Stored, Settings!Works
<1>6. TogetherInv
  <2>1. \A s \in Source : Together(s)
    BY <1>5 DEF Settings!Init, Together, Settings!Works
  <2> QED BY <1>4, <2>1 DEF TogetherInv, AloneAt, TogetherAt
<1>7. SweepsInv
  BY <1>1, IdleRec DEF Settings!Init, SweepsInv, Probes
<1>8. HealthInv
  <2>1. \A c \in Call : ~Settings!Opening(c)
    BY <1>1, IdleRec DEF Settings!Opening
  <2>2. \A s \in attached : Current(s)
    BY <1>5 DEF Settings!Init, Current
  <2>3. \A s \in attached : open = s => ReaderIs(s)
    BY <1>2 DEF Settings!Init, ReaderIs, SettingsTypes, Settings!Bounds
  <2> QED BY <2>1, <2>2, <2>3 DEF HealthInv, OneOpening, HealthAt, SeenIs
<1> QED BY <1>2, <1>3, <1>6, <1>7, <1>8 DEF SettingsInv

\* Every step keeps it.
LEMMA SettingsInvStep ==
  ASSUME Settings!Bounds, SettingsInv, Settings!Next
  PROVE  SettingsInv'
<1> PICK c \in Call :
      \/ \E s \in Source : Settings!Switch(c, s) \/ Settings!Remove(c, s) \/ Settings!Look(c, s)
      \/ \E s \in Source, p \in Settings!Place, typed \in Settings!Typings : Settings!Add(c, s, p, typed) \/ Settings!Edit(c, s, p, typed)
      \/ Settings!Open(c) \/ Settings!Build(c) \/ Settings!Read(c) \/ Settings!Refuse(c) \/ Settings!Configure(c) \/ Settings!Merge(c) \/ Settings!Store(c)
      \/ Settings!Delete(c) \/ Settings!Forget(c) \/ Settings!Fail(c) \/ Settings!Land(c)
  BY DEF Settings!Next
<1>1. CASE \E s \in Source : Settings!Switch(c, s) \/ Settings!Remove(c, s) \/ Settings!Look(c, s)
  BY <1>1, SwitchKeeps, RemoveKeeps, LookKeeps
<1>2. CASE \E s \in Source, p \in Settings!Place, typed \in Settings!Typings : Settings!Add(c, s, p, typed) \/ Settings!Edit(c, s, p, typed)
  BY <1>2, AddKeeps, EditKeeps
<1>3. CASE Settings!Open(c) \/ Settings!Build(c) \/ Settings!Read(c) \/ Settings!Refuse(c)
  BY <1>3, OpenKeeps, BuildKeeps, ReadKeeps, RefuseKeeps
<1>4. CASE Settings!Configure(c) \/ Settings!Merge(c) \/ Settings!Store(c)
  BY <1>4, ConfigureKeeps, MergeKeeps, StoreKeeps
<1>5. CASE Settings!Delete(c) \/ Settings!Forget(c) \/ Settings!Fail(c) \/ Settings!Land(c)
  BY <1>5, DeleteKeeps, ForgetKeeps, FailKeeps, LandKeeps
<1> QED BY <1>1, <1>2, <1>3, <1>4, <1>5

\* So does a step of something else.
LEMMA SettingsInvStutter ==
  ASSUME SettingsInv, UNCHANGED Settings!vars
  PROVE  SettingsInv'
<1>1. UNCHANGED <<attached, removed, place, secret, open, built, health, edit, sweeps, arrived, unproven, refused, outrun, blended>>
  BY DEF Settings!vars, Settings!stored, Settings!reading, Settings!history
<1>2. SettingsTypes' /\ KindsInv' /\ SweepsInv'
  BY <1>1 DEF SettingsInv, SettingsTypes, KindsInv, KindIs, SweepsInv, Probes
<1>3. TogetherInv'
  BY <1>1 DEF SettingsInv, TogetherInv, AloneAt, AloneIs, TogetherAt, Halfway, Together, Settings!On
<1>4. HealthInv'
  BY <1>1 DEF SettingsInv, HealthInv, Clear, OneOpening, HealthAt, Owed, OwedBy, Current, Told, Settings!Stored, SeenIs, ReaderIs, Settings!Opening, Probes
<1> QED BY <1>2, <1>3, <1>4 DEF SettingsInv

\* What the invariant says of the two properties: with no call on a source it is
\* together, and with no call at all nothing is owed and the last sweep landed.
LEMMA SettingsInvMeans ==
  ASSUME Settings!Bounds, SettingsInv
  PROVE  Settings!SourceHoldsTogether /\ Settings!HealthIsCurrent
<1>1. SettingsTypes /\ TogetherInv /\ HealthInv
  BY DEF SettingsInv
<1>2. Settings!SourceHoldsTogether
  <2>1. ASSUME NEW s \in Source \ (unproven \cup refused), Settings!On(s) = {} PROVE Together(s)
    BY <1>1, <2>1 DEF TogetherInv, TogetherAt, Halfway
  <2> QED BY <2>1 DEF Settings!SourceHoldsTogether, Together
<1>3. Settings!HealthIsCurrent
  <2> SUFFICES ASSUME \A c \in Call : edit[c] = Settings!Idle, ~outrun, NEW s \in attached \ (refused \cup blended)
               PROVE  health[s] = Settings!Found(Settings!Stored(s))
    BY DEF Settings!HealthIsCurrent
  <2>0. Clear
    BY <1>1 DEF Clear, SettingsTypes
  <2>1. ~Owed(s) /\ \A c \in Call : ~Probes(c)
    BY IdleRec DEF Owed, OwedBy, Probes
  <2>2. Current(s)
    BY <1>1, <2>0, <2>1 DEF HealthInv, HealthAt
  <2> QED BY <2>1, <2>2 DEF Current, Told
<1> QED BY <1>2, <1>3

\* Whatever calls overlap, however each of them fails: a source nobody touched
\* twice at once holds a storage and a credential shown to work together, and
\* with nothing under way every row says how its source is (SourceHoldsTogether
\* and HealthIsCurrent, for any sources and any number of calls; app.js
\* editSource, removeSource, probeSources, state/health.js).
THEOREM SourcesAreAsShown ==
  ASSUME Settings!Bounds
  PROVE  Settings!Spec => [](Settings!SourceHoldsTogether /\ Settings!HealthIsCurrent)
<1>1. Settings!Init => SettingsInv
  BY SettingsInvInit
<1>2. SettingsInv /\ [Settings!Next]_Settings!vars => SettingsInv'
  BY SettingsInvStep, SettingsInvStutter
<1>3. SettingsInv => Settings!SourceHoldsTogether /\ Settings!HealthIsCurrent
  BY SettingsInvMeans
<1> QED BY <1>1, <1>2, <1>3, PTL DEF Settings!Spec
===============================================================================
