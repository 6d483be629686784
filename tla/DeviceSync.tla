------------------------------ MODULE DeviceSync ------------------------------
(***************************************************************************)
(* One source read on several devices (web/src/state/sync.js, the parts of *)
(* web/src/state/event-store.js it calls, and the watch of                 *)
(* web/src/adapters/adapter.js that wakes it).                             *)
(*                                                                         *)
(* A device holds its decisions in memory, writes each to its own database *)
(* without waiting, and a second later writes its whole log to its own     *)
(* file in the source's storage.  It lists the other devices' files, reads *)
(* the changed ones and takes in the decisions it lacks, one awaited       *)
(* database write at a time.  `mark` counts the decisions the device       *)
(* believes have landed.  Every await is a point where another action of   *)
(* the same device may run, so each is a step of its own here.             *)
(*                                                                         *)
(* A decision is <<device, n>>: the n-th made on that device.  Its key is  *)
(* taken to be unique; EventReplay models the times keys are made of.      *)
(***************************************************************************)
EXTENDS Naturals, FiniteSets

CONSTANTS Device,        \* the devices this source is open on
          MaxDecisions,  \* bound: MaxDecisions[d], the decisions made on d
          MaxPushes,     \* bound: pushes of one device in flight together
          Faults,        \* which storage operations may fail
          Leavers        \* the devices whose page may go away

FaultKinds == {"local", "write", "mark", "read", "list"}

ASSUME DeviceAssumption == IsFiniteSet(Device)
ASSUME BoundAssumption == MaxDecisions \in [Device -> Nat] /\ MaxPushes \in Nat
ASSUME FaultAssumption == Faults \subseteq FaultKinds /\ Leavers \subseteq Device

Decision == UNION {{d} \X (1 .. MaxDecisions[d]) : d \in Device}

VARIABLES
  up,         \* up[d]: the app is running on d with this source open
  made,       \* made[d]: how many decisions were made on d
  log,        \* log[d]: the decisions held in memory
  disk,       \* disk[d]: the decisions in d's own database
  writing,    \* writing[d]: own decisions whose database write is outstanding
  timer,      \* timer[d]: the debounced push is waiting
  pushes,     \* pushes[d]: pushes in flight, with the bytes they carry
  mark,       \* mark[d]: the preference "synced:<source>"
  file,       \* file[d]: .reviewer/events/<d>.jsonl in the source's storage
  published,  \* history: every decision that ever was in a file
  news,       \* news[d][p]: p's file differs from d's last listing of it
  pullLeft,   \* pullLeft[d]: the files the pull at opening has yet to read
  absorb,     \* absorb[d][s]: the absorb running in slot s of d
  overlapped, \* history: d ran two of these at once in a way that miscounts
  lossy       \* history: d went away holding decisions its database did not

volatile == <<log, writing, timer, pushes, news, pullLeft, absorb>>
vars == <<up, made, log, disk, writing, timer, pushes, mark, file, published,
          news, pullLeft, absorb, overlapped, lossy>>

(***************************************************************************)
(* A file is read for the pull at opening and for the watch.  The two      *)
(* overlap when a pull is slow.  Bound: a watch round finds the last       *)
(* round's absorb of the same file done.                                   *)
(***************************************************************************)
Slot == {"pull", "watch"} \X Device

Stage == {"idle", "read", "store", "count", "mark"}

Absorb == [stage : Stage, events : SUBSET Decision, storing : SUBSET Decision,
           taken : SUBSET Decision, known : Nat]

Idle == [stage |-> "idle", events |-> {}, storing |-> {}, taken |-> {}, known |-> 0]

\* What a listing then a read of a file hands over.
Reading(bytes) == [Idle EXCEPT !.stage = "read", !.events = bytes]

Push == [body : SUBSET Decision, landed : BOOLEAN]

\* A device's decisions are taken in oldest first; between devices the times
\* decide, and any interleaving of them may be the one the times give.
Oldest(S) == {e \in S : \A f \in S : f[1] = e[1] => e[2] <= f[2]}

\* An absorb that has touched the log and not yet settled its mark.
Counting(d, s) == absorb[d][s].stage \in {"store", "count", "mark"}

Init ==
  /\ up = [d \in Device |-> TRUE]
  /\ made = [d \in Device |-> 0]
  /\ log = [d \in Device |-> {}]
  /\ disk = [d \in Device |-> {}]
  /\ writing = [d \in Device |-> {}]
  /\ timer = [d \in Device |-> FALSE]
  /\ pushes = [d \in Device |-> {}]
  /\ mark = [d \in Device |-> 0]
  /\ file = [d \in Device |-> {}]
  /\ published = {}
  /\ news = [d \in Device |-> [p \in Device |-> FALSE]]
  /\ pullLeft = [d \in Device |-> {}]
  /\ absorb = [d \in Device |-> [s \in Slot |-> Idle]]
  /\ overlapped = [d \in Device |-> FALSE]
  /\ lossy = [d \in Device |-> FALSE]

-------------------------------------------------------------------------------
(* Deciding: Commands.track, EventStore.track and EventStore._write.         *)

\* A push is asked for whatever else is under way.  Mutant: not while one is.
OneAtATime(d) == pushes[d] = {}
Asked(d) == TRUE

\* The decision is in memory at once; its database write and the push are not
\* waited for.  A pending push is put off rather than added to.
Track(d) ==
  LET e == <<d, made[d] + 1>> IN
  /\ up[d]
  /\ made[d] < MaxDecisions[d]
  /\ made' = [made EXCEPT ![d] = @ + 1]
  /\ log' = [log EXCEPT ![d] = @ \cup {e}]
  /\ writing' = [writing EXCEPT ![d] = @ \cup {e}]
  /\ timer' = [timer EXCEPT ![d] = Asked(d)]
  /\ UNCHANGED <<up, disk, pushes, mark, file, published, news, pullLeft,
                 absorb, overlapped, lossy>>

StoreOwn(d, e) ==
  /\ e \in writing[d]
  /\ writing' = [writing EXCEPT ![d] = @ \ {e}]
  /\ disk' = [disk EXCEPT ![d] = @ \cup {e}]
  /\ UNCHANGED <<up, made, log, timer, pushes, mark, file, published, news,
                 pullLeft, absorb, overlapped, lossy>>

\* A failed write is no longer outstanding, and nothing tries it again.
FailOwn(d, e) ==
  /\ "local" \in Faults
  /\ e \in writing[d]
  /\ writing' = [writing EXCEPT ![d] = @ \ {e}]
  /\ UNCHANGED <<up, made, log, disk, timer, pushes, mark, file, published,
                 news, pullLeft, absorb, overlapped, lossy>>

-------------------------------------------------------------------------------
(* Sync.push, in three steps: the bytes are fixed when the timer fires, they *)
(* reach the storage, and the mark is written.                               *)

\* The bytes are the whole log.  Mutants: only what the file does not hold yet;
\* only what the device's own database has taken.
NewPart(d) == log[d] \ file[d]
StoredPart(d) == disk[d]
Body(d) == log[d]

FirePush(d) ==
  /\ timer[d]
  /\ Cardinality(pushes[d]) < MaxPushes
  /\ timer' = [timer EXCEPT ![d] = FALSE]
  /\ pushes' = [pushes EXCEPT ![d] = @ \cup {[body |-> Body(d), landed |-> FALSE]}]
  /\ overlapped' = [overlapped EXCEPT
       ![d] = @ \/ pushes[d] # {} \/ \E s \in Slot : Counting(d, s)]
  /\ UNCHANGED <<up, made, log, disk, writing, mark, file, published, news,
                 pullLeft, absorb, lossy>>

\* The whole file is replaced.  Every other running device's next listing
\* differs from its last.
LandPush(d, w) ==
  /\ w \in pushes[d]
  /\ ~w.landed
  /\ pushes' = [pushes EXCEPT ![d] = (@ \ {w}) \cup {[w EXCEPT !.landed = TRUE]}]
  /\ file' = [file EXCEPT ![d] = w.body]
  /\ published' = published \cup w.body
  /\ news' = [q \in Device |-> [news[q] EXCEPT ![d] = @ \/ (up[q] /\ q # d)]]
  /\ UNCHANGED <<up, made, log, disk, writing, timer, mark, pullLeft, absorb,
                 overlapped, lossy>>

\* What went out is counted.  Mutants: what is held by now; what is left over.
HeldCount(d, w) == Cardinality(log[d])
LeftOver(d, w) == Cardinality(w.body) - Cardinality(log[d])
PushedCount(d, w) == Cardinality(w.body)

RecordPush(d, w) ==
  /\ w \in pushes[d]
  /\ w.landed
  /\ pushes' = [pushes EXCEPT ![d] = @ \ {w}]
  /\ mark' = [mark EXCEPT ![d] = PushedCount(d, w)]
  /\ UNCHANGED <<up, made, log, disk, writing, timer, file, published, news,
                 pullLeft, absorb, overlapped, lossy>>

\* The write, its answer or the mark's own write failed: the mark stands.
FailPush(d, w) ==
  /\ w \in pushes[d]
  /\ "write" \in Faults \/ (w.landed /\ "mark" \in Faults)
  /\ pushes' = [pushes EXCEPT ![d] = @ \ {w}]
  /\ UNCHANGED <<up, made, log, disk, writing, timer, mark, file, published,
                 news, pullLeft, absorb, overlapped, lossy>>

-------------------------------------------------------------------------------
(* Sync.watch and Sync.pull find the files; Sync._absorb takes them in.      *)

\* One round of the watch.  The listing is remembered before the file is read,
\* and a read that fails is an empty file.
WatchRound(d, p) ==
  /\ news[d][p]
  /\ absorb[d][<<"watch", p>>].stage = "idle"
  /\ news' = [news EXCEPT ![d][p] = FALSE]
  /\ \/ absorb' = [absorb EXCEPT ![d][<<"watch", p>>] = Reading(file[p])]
     \/ "read" \in Faults /\ UNCHANGED absorb
  /\ UNCHANGED <<up, made, log, disk, writing, timer, pushes, mark, file,
                 published, pullLeft, overlapped, lossy>>

\* The pull at opening reads one file after another.
PullFile(d, p) ==
  /\ p \in pullLeft[d]
  /\ \A q \in Device : absorb[d][<<"pull", q>>].stage = "idle"
  /\ pullLeft' = [pullLeft EXCEPT ![d] = @ \ {p}]
  /\ \/ absorb' = [absorb EXCEPT ![d][<<"pull", p>>] = Reading(file[p])]
     \/ "read" \in Faults /\ UNCHANGED absorb
  /\ UNCHANGED <<up, made, log, disk, writing, timer, pushes, mark, file,
                 published, news, overlapped, lossy>>

Fresh(d, s) == absorb[d][s].events \ log[d]

\* Nothing in the file was new: no mark is written.
NothingNew(d, s) ==
  /\ absorb[d][s].stage = "read"
  /\ Fresh(d, s) = {}
  /\ absorb' = [absorb EXCEPT ![d][s] = Idle]
  /\ UNCHANGED <<up, made, log, disk, writing, timer, pushes, mark, file,
                 published, news, pullLeft, overlapped, lossy>>

\* EventStore.absorb: what is fresh is settled once, before the first await,
\* and the oldest of it is applied.  `taken` is all of it; absorb answers its
\* length.
TakeIn(d, s, e) ==
  /\ absorb[d][s].stage = "read"
  /\ e \in Oldest(Fresh(d, s))
  /\ log' = [log EXCEPT ![d] = @ \cup {e}]
  /\ absorb' = [absorb EXCEPT ![d][s] =
       [stage |-> "store", events |-> Fresh(d, s) \ {e}, storing |-> {e},
        taken |-> Fresh(d, s), known |-> 0]]
  /\ overlapped' = [overlapped EXCEPT
       ![d] = @ \/ \E t \in Slot \ {s} : /\ absorb[d][t].stage = "store"
                                        /\ absorb[d][t].events \cap Fresh(d, s) # {}]
  /\ UNCHANGED <<up, made, disk, writing, timer, pushes, mark, file, published,
                 news, pullLeft, lossy>>

\* One database write is in; the next decision is applied and its write begun.
StoreTaken(d, s, e) ==
  /\ absorb[d][s].stage = "store"
  /\ e \in Oldest(absorb[d][s].events)
  /\ disk' = [disk EXCEPT ![d] = @ \cup absorb[d][s].storing]
  /\ log' = [log EXCEPT ![d] = @ \cup {e}]
  /\ absorb' = [absorb EXCEPT ![d][s] =
       [absorb[d][s] EXCEPT !.events = @ \ {e}, !.storing = {e}]]
  /\ UNCHANGED <<up, made, writing, timer, pushes, mark, file, published, news,
                 pullLeft, overlapped, lossy>>

StoreLastTaken(d, s) ==
  /\ absorb[d][s].stage = "store"
  /\ absorb[d][s].events = {}
  /\ disk' = [disk EXCEPT ![d] = @ \cup absorb[d][s].storing]
  /\ absorb' = [absorb EXCEPT ![d][s] =
       [absorb[d][s] EXCEPT !.stage = "count", !.storing = {}]]
  /\ UNCHANGED <<up, made, log, writing, timer, pushes, mark, file, published,
                 news, pullLeft, overlapped, lossy>>

\* `_record(await _known + taken)`: the mark is read ...
CountTaken(d, s) ==
  /\ absorb[d][s].stage = "count"
  /\ absorb' = [absorb EXCEPT ![d][s] =
       [absorb[d][s] EXCEPT !.stage = "mark", !.known = mark[d]]]
  /\ UNCHANGED <<up, made, log, disk, writing, timer, pushes, mark, file,
                 published, news, pullLeft, overlapped, lossy>>

\* ... and written back, whatever it has become meanwhile.
MarkTaken(d, s) ==
  /\ absorb[d][s].stage = "mark"
  /\ mark' = [mark EXCEPT ![d] = absorb[d][s].known + Cardinality(absorb[d][s].taken)]
  /\ absorb' = [absorb EXCEPT ![d][s] = Idle]
  /\ UNCHANGED <<up, made, log, disk, writing, timer, pushes, file, published,
                 news, pullLeft, overlapped, lossy>>

\* A rejected database or preference write ends the absorb where it stands,
\* and ends the pull it belongs to.
FailAbsorb(d, s) ==
  /\ \/ absorb[d][s].stage = "store" /\ "local" \in Faults
     \/ absorb[d][s].stage \in {"count", "mark"} /\ "mark" \in Faults
  /\ absorb' = [absorb EXCEPT ![d][s] = Idle]
  /\ pullLeft' = [pullLeft EXCEPT ![d] = IF s[1] = "pull" THEN {} ELSE @]
  /\ UNCHANGED <<up, made, log, disk, writing, timer, pushes, mark, file,
                 published, news, overlapped, lossy>>

-------------------------------------------------------------------------------
(* The page goes away (closed, reloaded or crashed) and is opened again.     *)

\* Nothing is flushed: what was only in memory or in flight is gone.
Crash(d) ==
  /\ d \in Leavers /\ up[d]
  /\ up' = [up EXCEPT ![d] = FALSE]
  /\ log' = [log EXCEPT ![d] = {}]
  /\ writing' = [writing EXCEPT ![d] = {}]
  /\ timer' = [timer EXCEPT ![d] = FALSE]
  /\ pushes' = [pushes EXCEPT ![d] = {}]
  /\ news' = [news EXCEPT ![d] = [p \in Device |-> FALSE]]
  /\ pullLeft' = [pullLeft EXCEPT ![d] = {}]
  /\ absorb' = [absorb EXCEPT ![d] = [s \in Slot |-> Idle]]
  /\ lossy' = [lossy EXCEPT ![d] = @ \/ log[d] # disk[d]]
  /\ UNCHANGED <<made, disk, mark, file, published, overlapped>>

\* What the database gives back.  Mutants: the device's own decisions alone;
\* only what is not in the file yet.
RestoredOwn(d) == {e \in disk[d] : e[1] = d}
RestoredUnpushed(d) == disk[d] \ file[d]
Restored(d) == disk[d]

Listed(d) == {p \in Device \ {d} : file[p] # {}}

\* A watch's first look is all news.  Mutant: its first listing is what later
\* ones are compared with, and says nothing.
NoFirstLook(d) == {}
FirstLook(d) == Listed(d)

\* Opening restores the log from the database, starts a watch that has been
\* told nothing yet, and lists the files to pull; a listing that fails pulls
\* none of them.
Open(d) ==
  /\ ~up[d]
  /\ up' = [up EXCEPT ![d] = TRUE]
  /\ log' = [log EXCEPT ![d] = Restored(d)]
  /\ news' = [news EXCEPT ![d] = [p \in Device |-> p \in FirstLook(d)]]
  /\ \/ pullLeft' = [pullLeft EXCEPT ![d] = Listed(d)]
     \/ "list" \in Faults /\ pullLeft' = [pullLeft EXCEPT ![d] = {}]
  /\ UNCHANGED <<made, disk, writing, timer, pushes, mark, file, published,
                 absorb, overlapped, lossy>>

-------------------------------------------------------------------------------
PushStep(d) ==
  \/ FirePush(d)
  \/ \E w \in pushes[d] : LandPush(d, w) \/ RecordPush(d, w)

AbsorbStep(d) ==
  \E s \in Slot :
    \/ NothingNew(d, s) \/ StoreLastTaken(d, s) \/ CountTaken(d, s) \/ MarkTaken(d, s)
    \/ \E e \in absorb[d][s].events : TakeIn(d, s, e) \/ StoreTaken(d, s, e)

DeviceStep(d) ==
  \/ Track(d) \/ Crash(d) \/ Open(d)
  \/ \E e \in writing[d] : StoreOwn(d, e) \/ FailOwn(d, e)
  \/ PushStep(d) \/ \E w \in pushes[d] : FailPush(d, w)
  \/ \E p \in Device : WatchRound(d, p) \/ PullFile(d, p)
  \/ AbsorbStep(d) \/ \E s \in Slot : FailAbsorb(d, s)

Next == \E d \in Device : DeviceStep(d)

Spec == Init /\ [][Next]_vars

(***************************************************************************)
(* Fairness.  The timer fires, a request that was sent is answered, a      *)
(* database write completes and the two-second poll comes round.  No        *)
(* decision, crash, reopening or failure is ever owed.                     *)
(***************************************************************************)
Fairness ==
  \A d \in Device :
    /\ WF_vars(FirePush(d))
    /\ WF_vars(\E w \in pushes[d] : LandPush(d, w))
    /\ WF_vars(\E w \in pushes[d] : RecordPush(d, w))
    /\ \A p \in Device : WF_vars(WatchRound(d, p)) /\ WF_vars(PullFile(d, p))
    /\ WF_vars(AbsorbStep(d))

FairSpec == Spec /\ Fairness

-------------------------------------------------------------------------------
(* Properties.                                                               *)

\* Every variable stays in its type.
TypeOK ==
  /\ up \in [Device -> BOOLEAN]
  /\ made \in [Device -> Nat] /\ \A d \in Device : made[d] <= MaxDecisions[d]
  /\ log \in [Device -> SUBSET Decision]
  /\ disk \in [Device -> SUBSET Decision]
  /\ writing \in [Device -> SUBSET Decision]
  /\ timer \in [Device -> BOOLEAN]
  /\ pushes \in [Device -> SUBSET Push]
  /\ mark \in [Device -> Nat]
  /\ file \in [Device -> SUBSET Decision]
  /\ published \in SUBSET Decision
  /\ news \in [Device -> [Device -> BOOLEAN]]
  /\ pullLeft \in [Device -> SUBSET Device]
  /\ absorb \in [Device -> [Slot -> Absorb]]
  /\ overlapped \in [Device -> BOOLEAN]
  /\ lossy \in [Device -> BOOLEAN]

\* A running device shows every decision its database holds, whatever
\* interleaving of own writes, absorbs and restarts put it there
\* (event-store.js restore and absorb): nothing is stored that a reload would
\* spring on the reader.
KeptIsHeld == \A d \in Device : up[d] => disk[d] \subseteq log[d]

\* sync.js `pull` skips this device's own file as "the one thing in here it
\* already knows".  That is so on every device that never went away with a
\* decision its database did not have.
OwnFileKnown ==
  \A d \in Device : up[d] /\ ~lossy[d] => file[d] \subseteq log[d]

OwnWaiting(d) == {e \in log[d] : e[1] = d} \ file[d]

Unsynced(d) == Cardinality(log[d]) - mark[d]

\* The footer's count (Sync.unsynced) never says fewer decisions are waiting
\* than really are absent from this device's file, provided no push ran beside
\* another push or beside an absorb that had begun to apply, no two absorbs
\* took in the same decision, and nothing was lost at a restart.
WaitingNeverUnderstated ==
  \A d \in Device :
    up[d] /\ ~overlapped[d] /\ ~lossy[d] =>
      Unsynced(d) >= Cardinality(OwnWaiting(d))

\* What `unsynced` is documented to be, "exact however they interleave": not
\* even an understatement is ruled out when a push overlaps an absorb.
WaitingAlwaysCounted ==
  \A d \in Device :
    up[d] /\ ~lossy[d] => Unsynced(d) >= Cardinality(OwnWaiting(d))

\* A decision that another device holds was published first, and whatever was
\* published was decided by its author: no half-read file, overlap or restart
\* makes one up.
PeersHoldPublished ==
  \A d \in Device :
    /\ \A e \in log[d] \cup disk[d] : e[1] # d => e \in published
    /\ \A e \in published : e[2] <= made[e[1]]

\* "One file per device, appended to": a push never takes a decision out of
\* the device's file, unless two pushes overlapped or a restart lost one.
FileOnlyGrows ==
  [][\A d \in Device : ~overlapped[d] /\ ~lossy[d] => file[d] \subseteq file'[d]]_vars

\* The decision log every device is promised (DecisionLog): refinement.
Log == INSTANCE DecisionLog WITH
         Author <- [e \in Decision |-> e[1]],
         decided <- {e \in Decision : e[2] <= made[e[1]]},
         held <- [d \in Device |-> IF up[d] THEN log[d] ELSE disk[d]],
         kept <- disk

ImplementsDecisionLog == Log!Spec

\* A decision made on a device that stays open reaches the device's file, when
\* the storage does not fail: also one made while a push waits, which puts it
\* off, or while one is on its way without it (commands/index.js _laterSync).
\* That an older push landing last takes it out again is for FileOnlyGrows.
ReachesStorage ==
  \A d \in Device : \A e \in {f \in Decision : f[1] = d} :
    e \in writing[d] ~> (e \in published \/ ~up[d])

\* A decision that stays in its author's file reaches every device that stays
\* open, however the pull and the watch overlap.
ReachesPeers ==
  \A e \in Decision, p \in Device :
    <>[](e \in file[e[1]] /\ up[p]) => <>(e \in log[p])
===============================================================================
