------------------------------ MODULE EventReplay ------------------------------
(***************************************************************************)
(* The event log as the reader sees it: how web/src/state/event-store.js   *)
(* stamps, applies, absorbs and replays decisions, how the runners of      *)
(* web/src/state/runners.js turn them into findings, and what              *)
(* web/src/queries/index.js then shows.  Every device has a clock of its   *)
(* own, which may be set back.  DeviceSync models how the logs travel and  *)
(* what a failed write costs; here a file is what its device last pushed,  *)
(* a reload finds every write done, and one absorb runs at a time.         *)
(*                                                                         *)
(* A finding is the agent's, or a comment of the reader's own, which a     *)
(* `create` brings about.  Payloads are left out.                          *)
(***************************************************************************)
EXTENDS Naturals, FiniteSets, Sequences, SequencesExt

CONSTANTS Device,        \* the devices one source is open on
          Agents, Own,   \* the ids of the agent's findings, and of the reader's
          MaxTime,       \* bound: the last moment any clock shows
          MaxEvents      \* bound: decisions made on all devices together

Finding == Agents \cup Own

ASSUME FindingAssumption == Finding \subseteq Nat /\ Agents \cap Own = {}
ASSUME BoundAssumption == MaxTime \in Nat /\ MaxEvents \in Nat

VARIABLES
  last,    \* last[d]: the time of d's last own event since it was opened
  events,  \* events[d]: the log of d, in the order it was applied
  items,   \* items[d]: the "findings" collection the runners built
  queue,   \* queue[d]: the rest of the batch being absorbed
  file,    \* file[d]: d's file in the storage
  late     \* history: late[d], since d was opened it applied an event whose key
           \* does not come after the key of each it held

vars == <<last, events, items, queue, file, late>>

Action == {"create", "include", "exclude", "delete"}
Event == [time : 1 .. MaxTime, finding : Finding, action : Action, by : Device]

-------------------------------------------------------------------------------
(* Keys and orders.                                                          *)

\* An event's identity says nothing of the device that made it.
Key(e) == <<e.time, e.finding, e.action>>

Knows(log, e) == \E i \in DOMAIN log : Key(log[i]) = Key(e)

\* Storage iterates in key order; the key is a string that leads with the time.
Alphabetical == [create |-> 1, delete |-> 2, exclude |-> 3, include |-> 4]

KeyBefore(e, f) ==
  \/ e.time < f.time
  \/ e.time = f.time /\ e.finding < f.finding
  \/ /\ e.time = f.time /\ e.finding = f.finding
     /\ Alphabetical[e.action] < Alphabetical[f.action]

\* The members of S, each after all those that come before it.
Ranked(S, Before(_, _)) ==
  [k \in 1 .. Cardinality(S) |->
     CHOOSE x \in S : Cardinality({y \in S : Before(y, x)}) = k - 1]

InKeyOrder(S) == Ranked(S, KeyBefore)

\* The places I of a log in `sort((a, b) => a.time - b.time)`, which is stable.
\* Mutant: newest first.
Newest(log, I) ==
  LET before(i, j) == \/ log[i].time > log[j].time
                      \/ log[i].time = log[j].time /\ i < j
      place == Ranked(I, before)
  IN  [k \in DOMAIN place |-> log[place[k]]]

Oldest(log, I) ==
  LET before(i, j) == \/ log[i].time < log[j].time
                      \/ log[i].time = log[j].time /\ i < j
      place == Ranked(I, before)
  IN  [k \in DOMAIN place |-> log[place[k]]]

ByTime(log) == Oldest(log, DOMAIN log)

-------------------------------------------------------------------------------
(* Runners: an event against the collection.  A `find` answers the first     *)
(* item with the id, deleted or not.                                         *)

Item == [id : Finding, mine : BOOLEAN, deleted : BOOLEAN, included : BOOLEAN]

Made(id) == [id |-> id, mine |-> FALSE, deleted |-> FALSE, included |-> FALSE]

First(list, id) == SelectInSeq(list, LAMBDA item : item.id = id)

\* With the item an event concerns, made if this is the first thing said of it.
At(list, id) == IF First(list, id) = 0 THEN Append(list, Made(id)) ELSE list

CREATE(list, e) == Append(list, [Made(e.finding) EXCEPT !.mine = TRUE])

DELETE(list, e) ==
  LET all == At(list, e.finding) IN [all EXCEPT ![First(all, e.finding)].deleted = TRUE]

\* moment("includedAt") and moment("includedAt", null).  Mutant: null taken for
\* no value given.
MomentSet(list, e) ==
  LET all == At(list, e.finding) IN [all EXCEPT ![First(all, e.finding)].included = TRUE]

Moment(list, e) ==
  LET all == At(list, e.finding) IN
  [all EXCEPT ![First(all, e.finding)].included = (e.action = "include")]

Run(list, e) == CASE e.action = "create" -> CREATE(list, e)
                  [] e.action = "delete" -> DELETE(list, e)
                  [] OTHER -> Moment(list, e)

\* A log against an empty collection, first event first.
Replay(log) ==
  LET run[n \in 0 .. Len(log)] == IF n = 0 THEN <<>> ELSE Run(run[n - 1], log[n])
  IN  run[Len(log)]

\* What a reload rebuilds from the database of a device that held this log.
Restored(log) == ByTime(InKeyOrder(ToSet(log)))

-------------------------------------------------------------------------------
(* Queries: what is not deleted.                                             *)

Live(list, id) == {i \in DOMAIN list : list[i].id = id /\ ~list[i].deleted}

\* Where the reader's own comments of this id that are shown are.
Comments(list, id) == {i \in Live(list, id) : list[i].mine}

\* Whether an agent's finding would be sent: the first live item decides.
Included(list, id) ==
  \E i \in Live(list, id) : list[i].included /\ \A j \in Live(list, id) : i <= j

Seen(list) ==
  [id \in Finding |->
     IF id \in Own
       THEN SelectSeq(list, LAMBDA item : item.id = id /\ item.mine /\ ~item.deleted)
       ELSE <<Included(list, id)>>]

-------------------------------------------------------------------------------
Init ==
  /\ last = [d \in Device |-> 0]
  /\ events = [d \in Device |-> <<>>]
  /\ items = [d \in Device |-> <<>>]
  /\ queue = [d \in Device |-> <<>>]
  /\ file = [d \in Device |-> <<>>]
  /\ late = [d \in Device |-> FALSE]

Everything == UNION {ToSet(events[d]) : d \in Device}

\* An event that d holds does not come before e.
Behind(d, e) == \E f \in ToSet(events[d]) : ~KeyBefore(f, e)

\* An event is applied once; what its key already names is skipped.
Apply(d, e) ==
  IF Knows(events[d], e) THEN UNCHANGED <<events, items, late>>
  ELSE /\ events' = [events EXCEPT ![d] = Append(@, e)]
       /\ items' = [items EXCEPT ![d] = Run(@, e)]
       /\ late' = [late EXCEPT ![d] = @ \/ Behind(d, e)]

MaxNat(a, b) == IF a >= b THEN a ELSE b

\* Own events are stamped with the clock, or one tick past the last of them
\* since the device was opened.  Mutant: the last stamp as it is.
LastTime(d, now) == last[d]
NextLocalTime(d, now) == MaxNat(now, last[d] + 1)

Stamp(d, id, action, now) ==
  [time |-> NextLocalTime(d, now), finding |-> id, action |-> action, by |-> d]

\* What the interface offers for a finding as the reader sees it.
Offered(d, id, action) ==
  IF id \in Agents
    THEN \/ action = "include" /\ ~Included(items[d], id)
         \/ action = "exclude" /\ Included(items[d], id)
    ELSE \E i \in Comments(items[d], id) :
           \/ action = "delete"
           \/ action = "include" /\ ~items[d][i].included
           \/ action = "exclude" /\ items[d][i].included

\* The reader decides: stamped, applied at once.
Track(d, id, action, now) ==
  LET e == Stamp(d, id, action, now) IN
  /\ Offered(d, id, action)
  /\ Cardinality(Everything) < MaxEvents
  /\ e.time <= MaxTime
  /\ last' = [last EXCEPT ![d] = e.time]
  /\ Apply(d, e)
  /\ UNCHANGED <<queue, file>>

\* A comment of the reader's own: its creation, then its inclusion a tick later
\* at the least.  Its id is random, so one device uses it, once.
AddFinding(d, id, now) ==
  LET made == Stamp(d, id, "create", now)
      into == [Stamp(d, id, "include", now) EXCEPT !.time = @ + 1] IN
  /\ id \in Own /\ ~\E e \in Everything : e.finding = id
  /\ Cardinality(Everything) + 1 < MaxEvents
  /\ into.time <= MaxTime
  /\ last' = [last EXCEPT ![d] = into.time]
  /\ events' = [events EXCEPT ![d] = Append(Append(@, made), into)]
  /\ items' = [items EXCEPT ![d] = Run(Run(@, made), into)]
  /\ late' = [late EXCEPT ![d] = @ \/ Behind(d, made)]
  /\ UNCHANGED <<queue, file>>

\* The whole log, oldest first, replaces d's file.
Push(d) ==
  /\ file' = [file EXCEPT ![d] = ByTime(events[d])]
  /\ UNCHANGED <<last, events, items, queue, late>>

Unknown(d, q) == {i \in DOMAIN file[q] : ~Knows(events[d], file[q][i])}

\* Another device's file is read: what is new is sorted, and its oldest applied.
Absorb(d, q) ==
  LET ordered == Oldest(file[q], Unknown(d, q)) IN
  /\ queue[d] = <<>>
  /\ ordered # <<>>
  /\ Apply(d, ordered[1])
  /\ queue' = [queue EXCEPT ![d] = Tail(ordered)]
  /\ UNCHANGED <<last, file>>

\* The rest of the batch, an awaited write between any two of it.
AbsorbNext(d) ==
  /\ queue[d] # <<>>
  /\ Apply(d, queue[d][1])
  /\ queue' = [queue EXCEPT ![d] = Tail(@)]
  /\ UNCHANGED <<last, file>>

\* The log is rebuilt from the database, in the order of its keys.  Stamps start
\* again from the clock alone, whatever the log holds.
Reload(d) ==
  /\ events' = [events EXCEPT ![d] = Restored(@)]
  /\ items' = [items EXCEPT ![d] = Replay(events'[d])]
  /\ last' = [last EXCEPT ![d] = 0]
  /\ late' = [late EXCEPT ![d] = FALSE]
  /\ queue' = [queue EXCEPT ![d] = <<>>]
  /\ UNCHANGED file

Next ==
  \E d \in Device :
    \/ \E id \in Finding, now \in 1 .. MaxTime :
         \/ \E action \in Action : Track(d, id, action, now)
         \/ AddFinding(d, id, now)
    \/ Push(d)
    \/ \E q \in Device \ {d} : Absorb(d, q)
    \/ AbsorbNext(d) \/ Reload(d)

Spec == Init /\ [][Next]_vars

-------------------------------------------------------------------------------
(* Properties.                                                               *)

\* Every variable stays in its type: what is stamped, replayed, sorted and absorbed
\* are events and items of the source (event-store.js track, absorb, restore).
TypeOK ==
  /\ last \in [Device -> 0 .. MaxTime]
  /\ \A d \in Device : /\ ToSet(events[d]) \cup ToSet(queue[d]) \cup ToSet(file[d])
                            \subseteq Event
                       /\ ToSet(items[d]) \subseteq Item
  /\ late \in [Device -> BOOLEAN]

\* A reload shows the reader what was on the screen (event-store.js restore
\* against track and absorb), unless since the last one an event was applied
\* whose key does not follow the others: an own one of a clock behind what came
\* from elsewhere or set back across a reload, or an absorbed one.  What came out
\* of turn before the last reload excuses nothing after it.
ReloadShowsTheSame ==
  \A d \in Device : ~late[d] => Seen(items[d]) = Seen(Replay(Restored(events[d])))

\* The clocks put every decision about a comment after its creation.
StampedAfterCreation(id) ==
  \A c, e \in Everything :
    c.finding = id /\ e.finding = id /\ c.action = "create" /\ e # c => c.time < e.time

\* A comment the reader removed is never shown again on a device that knows of
\* the removal, before or after a reload, however the logs reached it
\* (event-store.js DELETE), if the clocks stamped the removal after the
\* creation: a whole log never delivers the one without the other.
RemovedStaysRemoved ==
  \A d \in Device, id \in Own :
    /\ StampedAfterCreation(id)
    /\ \E e \in ToSet(events[d]) : e.finding = id /\ e.action = "delete"
    => Comments(items[d], id) = {} /\ Comments(Replay(Restored(events[d])), id) = {}

\* "the create cannot resurrect what another device already threw away", of
\* any clocks (the comment of event-store.js DELETE).
NeverResurrected ==
  \A d \in Device, id \in Own :
    (\E e \in ToSet(events[d]) : e.finding = id /\ e.action = "delete")
      => Comments(items[d], id) = {}

\* Two devices that hold the same decisions, no two of one moment, show the same
\* whatever order they took them in: "absorbing them out of order still lands on the same state".
SameEventsSameView ==
  \A d, q \in Device :
    /\ ToSet(events[d]) = ToSet(events[q])
    /\ \A e, f \in ToSet(events[d]) : e # f => e.time # f.time
    => Seen(items[d]) = Seen(items[q])

\* What the reader decides is in the log and on the screen at once, however far
\* the clock is behind what is in the log, unless an event from another device or
\* from before the last reload carries the very moment it is stamped with
\* (event-store.js track and _apply): the key may then name both, and the
\* decision is dropped.  Two decisions since the device was opened never share one.
DecisionTakesEffect ==
  [][\A d \in Device : last'[d] > last[d] /\ (\A f \in ToSet(events[d]) : f.time # last'[d]) =>
       LET e == events'[d][Len(events'[d])] IN
       /\ Len(events'[d]) > Len(events[d])
       /\ e.finding \in Agents =>
            Included(items'[d], e.finding) = (e.action = "include")]_vars
===============================================================================
