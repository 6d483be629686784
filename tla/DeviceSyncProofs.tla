--------------------------- MODULE DeviceSyncProofs ---------------------------
(* What DeviceSync guarantees for any devices, bounds and failures.          *)
EXTENDS DeviceSync, FiniteSetTheorems, TLAPS

\* A finite number of devices each decide a finite number of times, so counts
\* of decisions (the mark, the number taken in) are numbers.
LEMMA DecisionFinite == IsFiniteSet(Decision)
<1> DEFINE Of == [d \in Device |-> {d} \X (1 .. MaxDecisions[d])]
           Parts == {Of[d] : d \in Device}
<1>1. IsFiniteSet(Parts)
  <2>1. Of \in Surjection(Device, Parts)
    BY DEF Surjection
  <2> HIDE DEF Of, Parts
  <2> QED BY <2>1, FS_Surjection, DeviceAssumption
<1>2. ASSUME NEW d \in Device PROVE IsFiniteSet(Of[d])
  <2>1. MaxDecisions[d] \in Nat
    BY BoundAssumption
  <2>2. IsFiniteSet({d})
    BY FS_Singleton
  <2>3. IsFiniteSet(1 .. MaxDecisions[d])
    BY <2>1, FS_Interval
  <2>4. IsFiniteSet({d} \X (1 .. MaxDecisions[d]))
    BY <2>2, <2>3, FS_Product
  <2> QED BY <2>4
<1>3. \A T \in Parts : IsFiniteSet(T)
  BY <1>2
<1>4. IsFiniteSet(UNION Parts)
  <2> HIDE DEF Parts
  <2> QED BY <1>1, <1>3, FS_UNION
<1>5. Decision = UNION Parts
  BY DEF Decision
<1> QED BY <1>4, <1>5

\* So a set of decisions has a number of them.
LEMMA CountsAreNat ==
  ASSUME NEW S \in SUBSET Decision
  PROVE  Cardinality(S) \in Nat
BY DecisionFinite, FS_Subset, FS_CardinalityType

-------------------------------------------------------------------------------
(* Types.                                                                    *)

\* Nothing was decided, and nothing is under way.
LEMMA TypeInit == Init => TypeOK
<1> SUFFICES ASSUME Init PROVE TypeOK
  OBVIOUS
<1>1. Idle \in Absorb
  BY DEF Idle, Absorb, Stage
<1>2. \A d \in Device : made[d] <= MaxDecisions[d]
  BY BoundAssumption DEF Init
<1> QED BY <1>1, <1>2 DEF Init, TypeOK

\* What a step of the deciding half does to the types.
LEMMA TypeDecide ==
  ASSUME TypeOK, NEW d \in Device,
         \/ Track(d)
         \/ \E e \in writing[d] : StoreOwn(d, e) \/ FailOwn(d, e)
  PROVE  TypeOK'
<1>1. CASE Track(d)
  <2>1. <<d, made[d] + 1>> \in Decision
    <3>1. made[d] + 1 \in 1 .. MaxDecisions[d]
      <4>1. /\ made[d] \in Nat /\ MaxDecisions[d] \in Nat
            /\ made[d] < MaxDecisions[d]
        BY <1>1, BoundAssumption DEF Track, TypeOK
      <4> QED BY <4>1
    <3>2. <<d, made[d] + 1>> \in {d} \X (1 .. MaxDecisions[d])
      BY <3>1
    <3> QED BY <3>2 DEF Decision
  <2>2. /\ made' \in [Device -> Nat]
        /\ \A c \in Device : made'[c] <= MaxDecisions[c]
    <3>1. made[d] \in Nat /\ MaxDecisions[d] \in Nat
      BY BoundAssumption DEF TypeOK
    <3> QED BY <1>1, <3>1 DEF Track, TypeOK
  <2>3. /\ log' \in [Device -> SUBSET Decision]
        /\ writing' \in [Device -> SUBSET Decision]
        /\ timer' \in [Device -> BOOLEAN]
    BY <1>1, <2>1 DEF Track, Asked, TypeOK
  <2> QED BY <1>1, <2>2, <2>3 DEF Track, TypeOK
<1>2. ASSUME NEW e \in writing[d], StoreOwn(d, e) PROVE TypeOK'
  BY <1>2 DEF StoreOwn, TypeOK
<1>3. ASSUME NEW e \in writing[d], FailOwn(d, e) PROVE TypeOK'
  BY <1>3 DEF FailOwn, TypeOK
<1> QED BY <1>1, <1>2, <1>3

\* A push takes what is held, and its count is a number.
LEMMA TypePush ==
  ASSUME TypeOK, NEW d \in Device,
         PushStep(d) \/ \E w \in pushes[d] : FailPush(d, w)
  PROVE  TypeOK'
<1>1. CASE FirePush(d)
  <2>1. [body |-> Body(d), landed |-> FALSE] \in Push
    BY DEF TypeOK, Push, Body
  <2>2. /\ pushes' \in [Device -> SUBSET Push]
        /\ timer' \in [Device -> BOOLEAN]
    BY <1>1, <2>1 DEF FirePush, TypeOK
  <2>3. overlapped' \in [Device -> BOOLEAN]
    BY <1>1 DEF FirePush, TypeOK
  <2> QED BY <1>1, <2>2, <2>3 DEF FirePush, TypeOK
<1>2. ASSUME NEW w \in pushes[d], LandPush(d, w) PROVE TypeOK'
  <2>1. w \in Push
    BY DEF TypeOK
  <2>2. w.body \in SUBSET Decision /\ [w EXCEPT !.landed = TRUE] \in Push
    BY <2>1 DEF Push
  <2> QED BY <1>2, <2>2 DEF LandPush, TypeOK
<1>3. ASSUME NEW w \in pushes[d], RecordPush(d, w) PROVE TypeOK'
  <2>1. PushedCount(d, w) \in Nat
    BY CountsAreNat DEF TypeOK, Push, PushedCount
  <2> QED BY <1>3, <2>1 DEF RecordPush, TypeOK
<1>4. ASSUME NEW w \in pushes[d], FailPush(d, w) PROVE TypeOK'
  BY <1>4 DEF FailPush, TypeOK
<1> QED BY <1>1, <1>2, <1>3, <1>4 DEF PushStep

\* Finding other devices' files and taking them in.
LEMMA TypeAbsorb ==
  ASSUME TypeOK, NEW d \in Device,
         \/ \E p \in Device : WatchRound(d, p) \/ PullFile(d, p)
         \/ AbsorbStep(d)
         \/ \E s \in Slot : FailAbsorb(d, s)
  PROVE  TypeOK'
<1>1. ASSUME NEW a \in Absorb, NEW s \in Slot,
             absorb' = [absorb EXCEPT ![d][s] = a]
      PROVE  absorb' \in [Device -> [Slot -> Absorb]]
  BY <1>1 DEF TypeOK
<1>2. Idle \in Absorb /\ \A p \in Device : Reading(file[p]) \in Absorb
  BY DEF Idle, Absorb, Stage, Reading, TypeOK
<1>3. ASSUME NEW p \in Device, WatchRound(d, p) PROVE TypeOK'
  <2>1. <<"watch", p>> \in Slot
    BY DEF Slot
  <2>2. absorb' \in [Device -> [Slot -> Absorb]]
    BY <1>1, <1>2, <1>3, <2>1 DEF WatchRound, TypeOK
  <2> QED BY <1>3, <2>2 DEF WatchRound, TypeOK
<1>4. ASSUME NEW p \in Device, PullFile(d, p) PROVE TypeOK'
  <2>1. <<"pull", p>> \in Slot
    BY DEF Slot
  <2>2. absorb' \in [Device -> [Slot -> Absorb]]
    BY <1>1, <1>2, <1>4, <2>1 DEF PullFile, TypeOK
  <2> QED BY <1>4, <2>2 DEF PullFile, TypeOK
<1>5. ASSUME NEW s \in Slot PROVE absorb[d][s] \in Absorb
  BY DEF TypeOK
<1>6. ASSUME NEW s \in Slot, NothingNew(d, s) PROVE TypeOK'
  <2>1. absorb' \in [Device -> [Slot -> Absorb]]
    BY <1>1, <1>2, <1>6 DEF NothingNew
  <2> QED BY <1>6, <2>1 DEF NothingNew, TypeOK
<1>7. ASSUME NEW s \in Slot, NEW e \in absorb[d][s].events, TakeIn(d, s, e)
      PROVE  TypeOK'
  <2> DEFINE a == [stage |-> "store", events |-> Fresh(d, s) \ {e},
                   storing |-> {e}, taken |-> Fresh(d, s), known |-> 0]
  <2>1. e \in Decision /\ Fresh(d, s) \in SUBSET Decision
    BY <1>5 DEF Fresh, Absorb
  <2>2. a \in Absorb
    BY <2>1 DEF Absorb, Stage
  <2>3. absorb' = [absorb EXCEPT ![d][s] = a]
    BY <1>7 DEF TakeIn
  <2>4. absorb' \in [Device -> [Slot -> Absorb]]
    <3> HIDE DEF a
    <3> QED BY <1>1, <2>2, <2>3
  <2>5. overlapped' \in [Device -> BOOLEAN]
    BY <1>7 DEF TakeIn, TypeOK
  <2> QED BY <1>7, <2>1, <2>4, <2>5 DEF TakeIn, TypeOK
<1>8. ASSUME NEW s \in Slot, NEW e \in absorb[d][s].events, StoreTaken(d, s, e)
      PROVE  TypeOK'
  <2>1. e \in Decision /\ absorb[d][s].storing \in SUBSET Decision
    BY <1>5 DEF Absorb
  <2>2. [absorb[d][s] EXCEPT !.events = @ \ {e}, !.storing = {e}] \in Absorb
    BY <1>5, <2>1 DEF Absorb
  <2>3. absorb' \in [Device -> [Slot -> Absorb]]
    BY <1>1, <1>8, <2>2 DEF StoreTaken
  <2> QED BY <1>8, <2>1, <2>3 DEF StoreTaken, TypeOK
<1>9. ASSUME NEW s \in Slot, StoreLastTaken(d, s) PROVE TypeOK'
  <2>1. [absorb[d][s] EXCEPT !.stage = "count", !.storing = {}] \in Absorb
    BY <1>5 DEF Absorb, Stage
  <2>2. absorb' \in [Device -> [Slot -> Absorb]]
    BY <1>1, <1>9, <2>1 DEF StoreLastTaken
  <2>3. absorb[d][s].storing \in SUBSET Decision
    BY <1>5 DEF Absorb
  <2> QED BY <1>9, <2>2, <2>3 DEF StoreLastTaken, TypeOK
<1>10. ASSUME NEW s \in Slot, CountTaken(d, s) PROVE TypeOK'
  <2>1. [absorb[d][s] EXCEPT !.stage = "mark", !.known = mark[d]] \in Absorb
    BY <1>5 DEF Absorb, Stage, TypeOK
  <2>2. absorb' \in [Device -> [Slot -> Absorb]]
    BY <1>1, <1>10, <2>1 DEF CountTaken
  <2> QED BY <1>10, <2>2 DEF CountTaken, TypeOK
<1>11. ASSUME NEW s \in Slot, MarkTaken(d, s) PROVE TypeOK'
  <2>1. absorb' \in [Device -> [Slot -> Absorb]]
    BY <1>1, <1>2, <1>11 DEF MarkTaken
  <2>2. absorb[d][s].known + Cardinality(absorb[d][s].taken) \in Nat
    BY <1>5, CountsAreNat DEF Absorb
  <2> QED BY <1>11, <2>1, <2>2 DEF MarkTaken, TypeOK
<1>12. ASSUME NEW s \in Slot, FailAbsorb(d, s) PROVE TypeOK'
  <2>1. absorb' \in [Device -> [Slot -> Absorb]]
    BY <1>1, <1>2, <1>12 DEF FailAbsorb
  <2> QED BY <1>12, <2>1 DEF FailAbsorb, TypeOK
<1> QED
  BY <1>3, <1>4, <1>6, <1>7, <1>8, <1>9, <1>10, <1>11, <1>12 DEF AbsorbStep

\* A device that goes away forgets, and one that opens starts from its database.
LEMMA TypeRestart ==
  ASSUME TypeOK, NEW d \in Device, Crash(d) \/ Open(d)
  PROVE  TypeOK'
<1>1. CASE Crash(d)
  <2>1. Idle \in Absorb
    BY DEF Idle, Absorb, Stage
  <2> QED BY <1>1, <2>1 DEF Crash, TypeOK
<1>2. CASE Open(d)
  <2>1. Listed(d) \in SUBSET Device
    BY DEF Listed
  <2>2. pullLeft' \in [Device -> SUBSET Device]
    BY <1>2, <2>1 DEF Open, TypeOK
  <2>3. news' \in [Device -> [Device -> BOOLEAN]]
    BY <1>2 DEF Open, TypeOK
  <2>4. up' \in [Device -> BOOLEAN] /\ log' \in [Device -> SUBSET Decision]
    BY <1>2 DEF Open, TypeOK, Restored
  <2> QED BY <1>2, <2>2, <2>3, <2>4 DEF Open, TypeOK
<1> QED BY <1>1, <1>2

\* No step of any device leaves the types.
LEMMA TypeNext == TypeOK /\ [Next]_vars => TypeOK'
<1> SUFFICES ASSUME TypeOK, [Next]_vars PROVE TypeOK'
  OBVIOUS
<1>1. CASE UNCHANGED vars
  BY <1>1 DEF vars, TypeOK
<1>2. CASE Next
  BY <1>2, TypeDecide, TypePush, TypeAbsorb, TypeRestart DEF Next, DeviceStep
<1> QED BY <1>1, <1>2

\* However pushes, absorbs, failures and restarts interleave, the mark stays a
\* number, a push carries decisions and an absorb is at one of its stages.
THEOREM TypeCorrect == Spec => []TypeOK
<1> QED BY TypeInit, TypeNext, PTL DEF Spec

-------------------------------------------------------------------------------
(* The inductive invariant.                                                  *)

\* Nothing of a device that is away is in memory or in flight.
Away ==
  \A d \in Device : ~up[d] =>
    /\ log[d] = {} /\ writing[d] = {} /\ pushes[d] = {}
    /\ ~timer[d] /\ pullLeft[d] = {}
    /\ \A p \in Device : ~news[d][p]
    /\ \A s \in Slot : absorb[d][s] = Idle

\* Whatever is on its way to the database or to the file is held in memory.
InMemory ==
  \A d \in Device :
    /\ writing[d] \subseteq log[d]
    /\ \A w \in pushes[d] : w.body \subseteq log[d]
    /\ \A s \in Slot : absorb[d][s].storing \subseteq log[d]

\* What a file holds, and what was read from one, was published.
ReadIsPublished ==
  \A d \in Device :
    /\ file[d] \subseteq published
    /\ \A s \in Slot : absorb[d][s].events \subseteq published

\* The two halves of PeersHoldPublished.
ForeignIsPublished ==
  \A d \in Device : \A e \in log[d] \cup disk[d] : e[1] # d => e \in published

PublishedIsMade == \A e \in published : e[2] <= made[e[1]]

OwnIsMade == \A d \in Device : \A e \in log[d] \cup disk[d] : e[2] <= made[e[1]]

\* What a device that lost nothing has in its file is in its memory or, while
\* it is away, in its database.
OwnFile ==
  \A d \in Device : ~lossy[d] => file[d] \subseteq (IF up[d] THEN log[d] ELSE disk[d])

\* Without an overlap there is one push at a time, and it carries the file's
\* decisions and more.
OnePush ==
  \A d \in Device : ~overlapped[d] /\ ~lossy[d] =>
    \A w \in pushes[d] : pushes[d] = {w} /\ file[d] \subseteq w.body

IInv ==
  /\ TypeOK /\ Away /\ InMemory /\ KeptIsHeld
  /\ ReadIsPublished /\ ForeignIsPublished /\ PublishedIsMade /\ OwnIsMade
  /\ OwnFile /\ OnePush

\* A decision names the device it was made on and its turn there.
LEMMA DecisionParts ==
  ASSUME NEW e \in Decision
  PROVE  e[1] \in Device /\ e[2] \in Nat
<1>1. PICK d \in Device : e \in {d} \X (1 .. MaxDecisions[d])
  BY DEF Decision
<1>2. e[1] = d /\ e[2] \in 1 .. MaxDecisions[d]
  BY <1>1
<1>3. MaxDecisions[d] \in Nat
  BY BoundAssumption
<1> QED BY <1>2, <1>3

\* Finding a file changes one absorb at most, to one that holds the file's bytes
\* and stores nothing yet.
LEMMA FindingParts ==
  ASSUME TypeOK, NEW d \in Device, NEW p \in Device,
         WatchRound(d, p) \/ PullFile(d, p)
  PROVE  \A c \in Device : \A s \in Slot :
           \/ absorb'[c][s] = absorb[c][s]
           \/ absorb'[c][s].events = file[p] /\ absorb'[c][s].storing = {}
<1>1. ASSUME NEW x \in Slot, NEW a, absorb' = [absorb EXCEPT ![d][x] = a]
      PROVE  \A c \in Device : \A s \in Slot :
               absorb'[c][s] = absorb[c][s] \/ absorb'[c][s] = a
  BY <1>1 DEF TypeOK
<1>2. Reading(file[p]).events = file[p] /\ Reading(file[p]).storing = {}
  BY DEF Reading, Idle
<1>3. <<"watch", p>> \in Slot /\ <<"pull", p>> \in Slot
  BY DEF Slot
<1>4. \/ absorb' = [absorb EXCEPT ![d][<<"watch", p>>] = Reading(file[p])]
      \/ absorb' = [absorb EXCEPT ![d][<<"pull", p>>] = Reading(file[p])]
      \/ absorb' = absorb
  BY DEF WatchRound, PullFile
<1>5. CASE absorb' = [absorb EXCEPT ![d][<<"watch", p>>] = Reading(file[p])]
  BY <1>1, <1>2, <1>3, <1>5
<1>6. CASE absorb' = [absorb EXCEPT ![d][<<"pull", p>>] = Reading(file[p])]
  BY <1>1, <1>2, <1>3, <1>6
<1> QED BY <1>4, <1>5, <1>6

\* A device that is away does nothing but open; what the others do leaves it alone.
LEMMA AwayStep ==
  ASSUME TypeOK, Away,
         NEW d \in Device, DeviceStep(d)
  PROVE  Away'
<1>1. CASE Track(d)
  BY <1>1 DEF TypeOK, Away, Track
<1>2. ASSUME NEW e \in writing[d], StoreOwn(d, e) PROVE Away'
  BY <1>2 DEF TypeOK, Away, StoreOwn
<1>3. ASSUME NEW e \in writing[d], FailOwn(d, e) PROVE Away'
  BY <1>3 DEF TypeOK, Away, FailOwn
<1>4. CASE FirePush(d)
  BY <1>4 DEF TypeOK, Away, FirePush, Body, Push
<1>5. ASSUME NEW w \in pushes[d], LandPush(d, w) PROVE Away'
  BY <1>5 DEF TypeOK, Away, LandPush, Push
<1>6. ASSUME NEW w \in pushes[d], RecordPush(d, w) PROVE Away'
  BY <1>6 DEF TypeOK, Away, RecordPush, Push
<1>7. ASSUME NEW w \in pushes[d], FailPush(d, w) PROVE Away'
  BY <1>7 DEF TypeOK, Away, FailPush, Push
<1>8. ASSUME NEW p \in Device, WatchRound(d, p) PROVE Away'
  BY <1>8 DEF TypeOK, Away, WatchRound, Absorb, Idle
<1>9. ASSUME NEW p \in Device, PullFile(d, p) PROVE Away'
  BY <1>9 DEF TypeOK, Away, PullFile, Absorb, Idle
<1>10. ASSUME NEW s \in Slot, NothingNew(d, s) PROVE Away'
  BY <1>10 DEF TypeOK, Away, NothingNew, Idle, Absorb
<1>11. ASSUME NEW s \in Slot, NEW e \in absorb[d][s].events, TakeIn(d, s, e)
      PROVE  Away'
  BY <1>11 DEF TypeOK, Away, TakeIn, Fresh, Oldest, Absorb, Idle
<1>12. ASSUME NEW s \in Slot, NEW e \in absorb[d][s].events, StoreTaken(d, s, e)
      PROVE  Away'
  BY <1>12 DEF TypeOK, Away, StoreTaken, Oldest, Absorb, Idle
<1>13. ASSUME NEW s \in Slot, StoreLastTaken(d, s) PROVE Away'
  BY <1>13 DEF TypeOK, Away, StoreLastTaken, Absorb, Idle
<1>14. ASSUME NEW s \in Slot, CountTaken(d, s) PROVE Away'
  BY <1>14 DEF TypeOK, Away, CountTaken, Absorb, Idle
<1>15. ASSUME NEW s \in Slot, MarkTaken(d, s) PROVE Away'
  BY <1>15 DEF TypeOK, Away, MarkTaken, Idle, Absorb
<1>16. ASSUME NEW s \in Slot, FailAbsorb(d, s) PROVE Away'
  BY <1>16 DEF TypeOK, Away, FailAbsorb, Idle, Absorb
<1>17. CASE Crash(d)
  BY <1>17 DEF TypeOK, Away, Crash, Idle, Absorb, Push
<1>18. CASE Open(d)
  BY <1>18 DEF TypeOK, Away, Open, Restored
<1> QED
  BY <1>1, <1>2, <1>3, <1>4, <1>5, <1>6, <1>7, <1>8, <1>9, <1>10, <1>11,
     <1>12, <1>13, <1>14, <1>15, <1>16, <1>17, <1>18
  DEF DeviceStep, PushStep, AbsorbStep

\* Memory only grows while the device is up, and all of it goes at once.
LEMMA InMemoryStep ==
  ASSUME TypeOK, Away, InMemory,
         NEW d \in Device, DeviceStep(d)
  PROVE  InMemory'
<1>1. CASE Track(d)
  BY <1>1 DEF TypeOK, Away, InMemory, Track
<1>2. ASSUME NEW e \in writing[d], StoreOwn(d, e) PROVE InMemory'
  BY <1>2 DEF TypeOK, Away, InMemory, StoreOwn
<1>3. ASSUME NEW e \in writing[d], FailOwn(d, e) PROVE InMemory'
  BY <1>3 DEF TypeOK, Away, InMemory, FailOwn
<1>4. CASE FirePush(d)
  BY <1>4 DEF TypeOK, Away, InMemory, FirePush, Body, Push
<1>5. ASSUME NEW w \in pushes[d], LandPush(d, w) PROVE InMemory'
  <2>1. w.body \subseteq log[d] /\ [w EXCEPT !.landed = TRUE].body = w.body
    BY DEF InMemory, TypeOK, Push
  <2>2. \A x \in pushes'[d] : x.body \subseteq log[d]
    BY <1>5, <2>1 DEF LandPush, TypeOK, InMemory
  <2>3. \A c \in Device \ {d} : pushes'[c] = pushes[c]
    BY <1>5 DEF LandPush, TypeOK
  <2> QED BY <1>5, <2>2, <2>3 DEF LandPush, InMemory
<1>6. ASSUME NEW w \in pushes[d], RecordPush(d, w) PROVE InMemory'
  BY <1>6 DEF TypeOK, Away, InMemory, RecordPush, Push
<1>7. ASSUME NEW w \in pushes[d], FailPush(d, w) PROVE InMemory'
  BY <1>7 DEF TypeOK, Away, InMemory, FailPush, Push
<1>8. ASSUME NEW p \in Device, WatchRound(d, p) PROVE InMemory'
  BY <1>8, FindingParts DEF InMemory, WatchRound
<1>9. ASSUME NEW p \in Device, PullFile(d, p) PROVE InMemory'
  BY <1>9, FindingParts DEF InMemory, PullFile
<1>10. ASSUME NEW s \in Slot, NothingNew(d, s) PROVE InMemory'
  BY <1>10 DEF TypeOK, Away, InMemory, NothingNew, Idle, Absorb
<1>11. ASSUME NEW s \in Slot, NEW e \in absorb[d][s].events, TakeIn(d, s, e)
      PROVE  InMemory'
  BY <1>11 DEF TypeOK, Away, InMemory, TakeIn, Fresh, Oldest, Absorb
<1>12. ASSUME NEW s \in Slot, NEW e \in absorb[d][s].events, StoreTaken(d, s, e)
      PROVE  InMemory'
  BY <1>12 DEF TypeOK, Away, InMemory, StoreTaken, Oldest, Absorb
<1>13. ASSUME NEW s \in Slot, StoreLastTaken(d, s) PROVE InMemory'
  BY <1>13 DEF TypeOK, Away, InMemory, StoreLastTaken, Absorb
<1>14. ASSUME NEW s \in Slot, CountTaken(d, s) PROVE InMemory'
  BY <1>14 DEF TypeOK, Away, InMemory, CountTaken, Absorb
<1>15. ASSUME NEW s \in Slot, MarkTaken(d, s) PROVE InMemory'
  BY <1>15 DEF TypeOK, Away, InMemory, MarkTaken, Idle, Absorb
<1>16. ASSUME NEW s \in Slot, FailAbsorb(d, s) PROVE InMemory'
  BY <1>16 DEF TypeOK, Away, InMemory, FailAbsorb, Idle, Absorb
<1>17. CASE Crash(d)
  BY <1>17 DEF TypeOK, Away, InMemory, Crash, Idle, Absorb, Push
<1>18. CASE Open(d)
  BY <1>18 DEF TypeOK, Away, InMemory, Open, Restored
<1> QED
  BY <1>1, <1>2, <1>3, <1>4, <1>5, <1>6, <1>7, <1>8, <1>9, <1>10, <1>11,
     <1>12, <1>13, <1>14, <1>15, <1>16, <1>17, <1>18
  DEF DeviceStep, PushStep, AbsorbStep

\* The database gains only what is in memory.
LEMMA KeptIsHeldStep ==
  ASSUME TypeOK, KeptIsHeld, InMemory,
         NEW d \in Device, DeviceStep(d)
  PROVE  KeptIsHeld'
<1>1. CASE Track(d)
  BY <1>1 DEF TypeOK, KeptIsHeld, InMemory, Track
<1>2. ASSUME NEW e \in writing[d], StoreOwn(d, e) PROVE KeptIsHeld'
  BY <1>2 DEF TypeOK, KeptIsHeld, InMemory, StoreOwn
<1>3. ASSUME NEW s \in Slot, NEW e \in absorb[d][s].events, TakeIn(d, s, e)
      PROVE  KeptIsHeld'
  BY <1>3 DEF TypeOK, KeptIsHeld, InMemory, TakeIn, Fresh, Oldest
<1>4. ASSUME NEW s \in Slot, NEW e \in absorb[d][s].events, StoreTaken(d, s, e)
      PROVE  KeptIsHeld'
  BY <1>4 DEF TypeOK, KeptIsHeld, InMemory, StoreTaken, Oldest
<1>5. ASSUME NEW s \in Slot, StoreLastTaken(d, s) PROVE KeptIsHeld'
  BY <1>5 DEF TypeOK, KeptIsHeld, InMemory, StoreLastTaken
<1>6. CASE Crash(d)
  BY <1>6 DEF TypeOK, KeptIsHeld, InMemory, Crash, Idle
<1>7. CASE Open(d)
  BY <1>7 DEF TypeOK, KeptIsHeld, InMemory, Open, Restored
<1>8. ASSUME
         \/ \E e \in writing[d] : FailOwn(d, e)
         \/ FirePush(d)
         \/ \E w \in pushes[d] : LandPush(d, w) \/ RecordPush(d, w) \/ FailPush(d, w)
         \/ \E p \in Device : WatchRound(d, p) \/ PullFile(d, p)
         \/ \E s \in Slot : NothingNew(d, s) \/ CountTaken(d, s) \/ MarkTaken(d, s) \/ FailAbsorb(d, s)
      PROVE  KeptIsHeld'
  <2>1. UNCHANGED <<up, disk, log>>
    BY <1>8 DEF FailOwn, FirePush, LandPush, RecordPush, FailPush,
      WatchRound, PullFile, NothingNew, CountTaken, MarkTaken, FailAbsorb
  <2> QED BY <2>1 DEF KeptIsHeld
<1> QED
  BY <1>1, <1>2, <1>3, <1>4, <1>5, <1>6, <1>7, <1>8
  DEF DeviceStep, PushStep, AbsorbStep

\* A file is replaced by what is published with it.
LEMMA ReadIsPublishedStep ==
  ASSUME TypeOK, ReadIsPublished,
         NEW d \in Device, DeviceStep(d)
  PROVE  ReadIsPublished'
<1>1. ASSUME NEW w \in pushes[d], LandPush(d, w)
      PROVE  ReadIsPublished'
  BY <1>1 DEF TypeOK, ReadIsPublished, LandPush
<1>2. ASSUME NEW p \in Device, WatchRound(d, p)
      PROVE  ReadIsPublished'
  BY <1>2, FindingParts DEF ReadIsPublished, WatchRound
<1>3. ASSUME NEW p \in Device, PullFile(d, p) PROVE ReadIsPublished'
  <2>1. UNCHANGED <<file, published>>
    BY <1>3 DEF PullFile
  <2> QED BY <1>3, <2>1, FindingParts DEF ReadIsPublished
<1>4. ASSUME NEW s \in Slot, NothingNew(d, s) PROVE ReadIsPublished'
  BY <1>4 DEF TypeOK, ReadIsPublished, NothingNew, Idle, Absorb
<1>5. ASSUME NEW s \in Slot, NEW e \in absorb[d][s].events, TakeIn(d, s, e)
      PROVE  ReadIsPublished'
  BY <1>5 DEF TypeOK, ReadIsPublished, TakeIn, Fresh, Oldest, Absorb
<1>6. ASSUME NEW s \in Slot, NEW e \in absorb[d][s].events, StoreTaken(d, s, e)
      PROVE  ReadIsPublished'
  BY <1>6 DEF TypeOK, ReadIsPublished, StoreTaken, Oldest, Absorb
<1>7. ASSUME NEW s \in Slot, StoreLastTaken(d, s)
      PROVE  ReadIsPublished'
  BY <1>7 DEF TypeOK, ReadIsPublished, StoreLastTaken, Absorb
<1>8. ASSUME NEW s \in Slot, CountTaken(d, s) PROVE ReadIsPublished'
  BY <1>8 DEF TypeOK, ReadIsPublished, CountTaken, Absorb
<1>9. ASSUME NEW s \in Slot, MarkTaken(d, s) PROVE ReadIsPublished'
  BY <1>9 DEF TypeOK, ReadIsPublished, MarkTaken, Idle, Absorb
<1>10. ASSUME NEW s \in Slot, FailAbsorb(d, s)
      PROVE  ReadIsPublished'
  BY <1>10 DEF TypeOK, ReadIsPublished, FailAbsorb, Idle, Absorb
<1>11. CASE Crash(d)
  BY <1>11 DEF TypeOK, ReadIsPublished, Crash, Idle, Absorb
<1>12. ASSUME
         \/ Track(d) \/ FirePush(d) \/ Open(d)
         \/ \E e \in writing[d] : StoreOwn(d, e) \/ FailOwn(d, e)
         \/ \E w \in pushes[d] : RecordPush(d, w) \/ FailPush(d, w)
      PROVE  ReadIsPublished'
  <2>1. UNCHANGED <<file, published, absorb>>
    BY <1>12 DEF Track, StoreOwn, FailOwn, FirePush, RecordPush, FailPush, Open
  <2> QED BY <2>1 DEF ReadIsPublished
<1> QED
  BY <1>1, <1>2, <1>3, <1>4, <1>5, <1>6, <1>7, <1>8, <1>9, <1>10, <1>11, <1>12
  DEF DeviceStep, PushStep, AbsorbStep

\* A decision of another device comes out of a file.
LEMMA ForeignIsPublishedStep ==
  ASSUME TypeOK, ForeignIsPublished, InMemory, ReadIsPublished,
         NEW d \in Device, DeviceStep(d)
  PROVE  ForeignIsPublished'
<1>1. CASE Track(d)
  BY <1>1 DEF TypeOK, ForeignIsPublished, InMemory, ReadIsPublished, Track
<1>2. ASSUME NEW e \in writing[d], StoreOwn(d, e)
      PROVE  ForeignIsPublished'
  BY <1>2 DEF TypeOK, ForeignIsPublished, InMemory, ReadIsPublished, StoreOwn
<1>3. ASSUME NEW w \in pushes[d], LandPush(d, w)
      PROVE  ForeignIsPublished'
  BY <1>3 DEF TypeOK, ForeignIsPublished, InMemory, ReadIsPublished, LandPush
<1>4. ASSUME NEW s \in Slot, NEW e \in absorb[d][s].events, TakeIn(d, s, e)
      PROVE  ForeignIsPublished'
  BY <1>4 DEF TypeOK, ForeignIsPublished, InMemory, ReadIsPublished, TakeIn,
    Fresh, Oldest
<1>5. ASSUME NEW s \in Slot, NEW e \in absorb[d][s].events, StoreTaken(d, s, e)
      PROVE  ForeignIsPublished'
  BY <1>5 DEF TypeOK, ForeignIsPublished, InMemory, ReadIsPublished,
    StoreTaken, Oldest
<1>6. ASSUME NEW s \in Slot, StoreLastTaken(d, s)
      PROVE  ForeignIsPublished'
  BY <1>6 DEF TypeOK, ForeignIsPublished, InMemory, ReadIsPublished,
    StoreLastTaken
<1>7. CASE Crash(d)
  BY <1>7 DEF TypeOK, ForeignIsPublished, InMemory, ReadIsPublished, Crash, Idle
<1>8. CASE Open(d)
  BY <1>8 DEF TypeOK, ForeignIsPublished, InMemory, ReadIsPublished, Open,
    Restored
<1>9. ASSUME
         \/ \E e \in writing[d] : FailOwn(d, e)
         \/ FirePush(d)
         \/ \E w \in pushes[d] : RecordPush(d, w) \/ FailPush(d, w)
         \/ \E p \in Device : WatchRound(d, p) \/ PullFile(d, p)
         \/ \E s \in Slot : NothingNew(d, s) \/ CountTaken(d, s) \/ MarkTaken(d, s) \/ FailAbsorb(d, s)
      PROVE  ForeignIsPublished'
  <2>1. UNCHANGED <<log, disk, published>>
    BY <1>9 DEF FailOwn, FirePush, RecordPush, FailPush, WatchRound,
      PullFile, NothingNew, CountTaken, MarkTaken, FailAbsorb
  <2> QED BY <2>1 DEF ForeignIsPublished
<1> QED
  BY <1>1, <1>2, <1>3, <1>4, <1>5, <1>6, <1>7, <1>8, <1>9
  DEF DeviceStep, PushStep, AbsorbStep

\* A push carries decisions that were made; decisions are only ever added.
LEMMA PublishedIsMadeStep ==
  ASSUME TypeOK, PublishedIsMade, InMemory, OwnIsMade,
         NEW d \in Device, DeviceStep(d)
  PROVE  PublishedIsMade'
<1>1. CASE Track(d)
  <2>1. \A c \in Device : made[c] \in Nat /\ made'[c] \in Nat /\ made[c] <= made'[c]
    BY <1>1 DEF Track, TypeOK
  <2>2. \A e \in published : e[1] \in Device /\ e[2] \in Nat
    BY DecisionParts DEF TypeOK
  <2>3. ASSUME NEW e \in published PROVE e[2] <= made'[e[1]]
    <3>1. e[2] <= made[e[1]]
      BY DEF PublishedIsMade
    <3> QED BY <2>1, <2>2, <3>1
  <2> QED BY <1>1, <2>3 DEF Track, PublishedIsMade
<1>2. ASSUME NEW w \in pushes[d], LandPush(d, w)
      PROVE  PublishedIsMade'
  BY <1>2 DEF TypeOK, PublishedIsMade, InMemory, OwnIsMade, LandPush
<1>3. ASSUME
         \/ \E e \in writing[d] : StoreOwn(d, e) \/ FailOwn(d, e)
         \/ FirePush(d) \/ Crash(d) \/ Open(d)
         \/ \E w \in pushes[d] : RecordPush(d, w) \/ FailPush(d, w)
         \/ \E p \in Device : WatchRound(d, p) \/ PullFile(d, p)
         \/ \E s \in Slot : NothingNew(d, s) \/ StoreLastTaken(d, s) \/ CountTaken(d, s) \/ MarkTaken(d, s) \/ FailAbsorb(d, s)
         \/ \E s \in Slot : \E e \in absorb[d][s].events : TakeIn(d, s, e) \/ StoreTaken(d, s, e)
      PROVE  PublishedIsMade'
  <2>1. UNCHANGED <<published, made>>
    BY <1>3 DEF StoreOwn, FailOwn, FirePush, RecordPush, FailPush,
      WatchRound, PullFile, NothingNew, TakeIn, StoreTaken, StoreLastTaken, CountTaken, MarkTaken, FailAbsorb, Crash, Open
  <2> QED BY <2>1 DEF PublishedIsMade
<1> QED
  BY <1>1, <1>2, <1>3
  DEF DeviceStep, PushStep, AbsorbStep

\* A decision enters memory by being made, or out of a file.
LEMMA OwnIsMadeStep ==
  ASSUME TypeOK, OwnIsMade, PublishedIsMade, InMemory, ReadIsPublished,
         NEW d \in Device, DeviceStep(d)
  PROVE  OwnIsMade'
<1>1. CASE Track(d)
  <2> DEFINE n == made[d] + 1
  <2>1. \A c \in Device : made[c] \in Nat /\ made'[c] \in Nat /\ made[c] <= made'[c]
    BY <1>1 DEF Track, TypeOK
  <2>2. made'[d] = n
    BY <1>1 DEF Track, TypeOK
  <2>3. ASSUME NEW c \in Device, NEW e \in log[c] \cup disk[c]
        PROVE  e[2] <= made'[e[1]]
    <3>1. e[1] \in Device /\ e[2] \in Nat
      BY DecisionParts DEF TypeOK
    <3>2. e[2] <= made[e[1]]
      BY DEF OwnIsMade
    <3> QED BY <2>1, <3>1, <3>2
  <2>4. <<d, n>>[2] <= made'[<<d, n>>[1]]
    BY <2>1, <2>2
  <2>5. /\ \A c \in Device : log'[c] \subseteq log[c] \cup {<<d, n>>}
        /\ UNCHANGED disk
    BY <1>1 DEF Track, TypeOK
  <2> QED BY <2>3, <2>4, <2>5 DEF OwnIsMade
<1>2. ASSUME NEW e \in writing[d], StoreOwn(d, e) PROVE OwnIsMade'
  BY <1>2 DEF TypeOK, OwnIsMade, PublishedIsMade, InMemory, ReadIsPublished,
    StoreOwn
<1>3. ASSUME NEW s \in Slot, NEW e \in absorb[d][s].events, TakeIn(d, s, e)
      PROVE  OwnIsMade'
  BY <1>3 DEF TypeOK, OwnIsMade, PublishedIsMade, InMemory, ReadIsPublished,
    TakeIn, Fresh, Oldest
<1>4. ASSUME NEW s \in Slot, NEW e \in absorb[d][s].events, StoreTaken(d, s, e)
      PROVE  OwnIsMade'
  BY <1>4 DEF TypeOK, OwnIsMade, PublishedIsMade, InMemory, ReadIsPublished,
    StoreTaken, Oldest
<1>5. ASSUME NEW s \in Slot, StoreLastTaken(d, s) PROVE OwnIsMade'
  BY <1>5 DEF TypeOK, OwnIsMade, PublishedIsMade, InMemory, ReadIsPublished,
    StoreLastTaken
<1>6. CASE Crash(d)
  BY <1>6 DEF TypeOK, OwnIsMade, PublishedIsMade, InMemory, ReadIsPublished,
    Crash, Idle
<1>7. CASE Open(d)
  BY <1>7 DEF TypeOK, OwnIsMade, PublishedIsMade, InMemory, ReadIsPublished,
    Open, Restored
<1>8. ASSUME
         \/ \E e \in writing[d] : FailOwn(d, e)
         \/ FirePush(d)
         \/ \E w \in pushes[d] : LandPush(d, w) \/ RecordPush(d, w) \/ FailPush(d, w)
         \/ \E p \in Device : WatchRound(d, p) \/ PullFile(d, p)
         \/ \E s \in Slot : NothingNew(d, s) \/ CountTaken(d, s) \/ MarkTaken(d, s) \/ FailAbsorb(d, s)
      PROVE  OwnIsMade'
  <2>1. UNCHANGED <<log, disk, made>>
    BY <1>8 DEF FailOwn, FirePush, LandPush, RecordPush, FailPush,
      WatchRound, PullFile, NothingNew, CountTaken, MarkTaken, FailAbsorb
  <2> QED BY <2>1 DEF OwnIsMade
<1> QED
  BY <1>1, <1>2, <1>3, <1>4, <1>5, <1>6, <1>7, <1>8
  DEF DeviceStep, PushStep, AbsorbStep

\* A push carries memory; a crash that loses nothing leaves memory in the database.
LEMMA OwnFileStep ==
  ASSUME TypeOK, Away, InMemory, KeptIsHeld, OwnFile,
         NEW d \in Device, DeviceStep(d)
  PROVE  OwnFile'
<1>1. CASE Track(d)
  BY <1>1 DEF TypeOK, Away, InMemory, KeptIsHeld, OwnFile, Track
<1>2. ASSUME NEW e \in writing[d], StoreOwn(d, e) PROVE OwnFile'
  BY <1>2 DEF TypeOK, Away, InMemory, KeptIsHeld, OwnFile, StoreOwn
<1>3. ASSUME NEW w \in pushes[d], LandPush(d, w) PROVE OwnFile'
  BY <1>3 DEF TypeOK, Away, InMemory, KeptIsHeld, OwnFile, LandPush
<1>4. ASSUME NEW s \in Slot, NEW e \in absorb[d][s].events, TakeIn(d, s, e)
      PROVE  OwnFile'
  BY <1>4 DEF TypeOK, Away, InMemory, KeptIsHeld, OwnFile, TakeIn, Fresh, Oldest
<1>5. ASSUME NEW s \in Slot, NEW e \in absorb[d][s].events, StoreTaken(d, s, e)
      PROVE  OwnFile'
  BY <1>5 DEF TypeOK, Away, InMemory, KeptIsHeld, OwnFile, StoreTaken, Oldest
<1>6. ASSUME NEW s \in Slot, StoreLastTaken(d, s) PROVE OwnFile'
  BY <1>6 DEF TypeOK, Away, InMemory, KeptIsHeld, OwnFile, StoreLastTaken
<1>7. CASE Crash(d)
  BY <1>7 DEF TypeOK, Away, InMemory, KeptIsHeld, OwnFile, Crash, Idle
<1>8. CASE Open(d)
  BY <1>8 DEF TypeOK, Away, InMemory, KeptIsHeld, OwnFile, Open, Restored
<1>9. ASSUME
         \/ \E e \in writing[d] : FailOwn(d, e)
         \/ FirePush(d)
         \/ \E w \in pushes[d] : RecordPush(d, w) \/ FailPush(d, w)
         \/ \E p \in Device : WatchRound(d, p) \/ PullFile(d, p)
         \/ \E s \in Slot : NothingNew(d, s) \/ CountTaken(d, s) \/ MarkTaken(d, s) \/ FailAbsorb(d, s)
      PROVE  OwnFile'
  <2>1. UNCHANGED <<lossy, file, up, log, disk>>
    BY <1>9 DEF FailOwn, FirePush, RecordPush, FailPush, WatchRound,
      PullFile, NothingNew, CountTaken, MarkTaken, FailAbsorb
  <2> QED BY <2>1 DEF OwnFile
<1> QED
  BY <1>1, <1>2, <1>3, <1>4, <1>5, <1>6, <1>7, <1>8, <1>9
  DEF DeviceStep, PushStep, AbsorbStep

\* A second push at once is an overlap.
LEMMA OnePushStep ==
  ASSUME TypeOK, Away, InMemory, OwnFile, OnePush,
         NEW d \in Device, DeviceStep(d)
  PROVE  OnePush'
<1>1. CASE FirePush(d)
  <2> DEFINE w == [body |-> log[d], landed |-> FALSE]
  <2>1. up[d] /\ w.body = log[d]
    BY <1>1 DEF FirePush, Away
  <2>2. /\ \A c \in Device \ {d} : /\ pushes'[c] = pushes[c]
                                   /\ overlapped'[c] = overlapped[c]
        /\ UNCHANGED <<file, lossy>>
    BY <1>1 DEF FirePush, TypeOK
  <2>3. ASSUME ~overlapped'[d], ~lossy'[d]
        PROVE  /\ pushes'[d] = {w}
               /\ file[d] \subseteq log[d]
    <3>1. pushes[d] = {}
      BY <1>1, <2>3 DEF FirePush, TypeOK
    <3>2. file[d] \subseteq log[d]
      BY <1>1, <2>1, <2>3 DEF FirePush, OwnFile
    <3> QED BY <1>1, <3>1, <3>2 DEF FirePush, TypeOK, Body
  <2> HIDE DEF w
  <2> QED BY <2>1, <2>2, <2>3 DEF OnePush
<1>2. ASSUME NEW w \in pushes[d], LandPush(d, w) PROVE OnePush'
  <2>1. /\ \A c \in Device \ {d} : pushes'[c] = pushes[c] /\ file'[c] = file[c]
        /\ UNCHANGED <<overlapped, lossy>>
    BY <1>2 DEF LandPush, TypeOK
  <2>2. w.body = [w EXCEPT !.landed = TRUE].body
    BY DEF TypeOK, Push
  <2>3. ASSUME ~overlapped[d], ~lossy[d]
        PROVE  /\ pushes'[d] = {[w EXCEPT !.landed = TRUE]}
               /\ file'[d] = w.body
    <3>1. pushes[d] = {w}
      BY <2>3 DEF OnePush
    <3> QED BY <1>2, <3>1 DEF LandPush, TypeOK
  <2> QED BY <2>1, <2>2, <2>3 DEF OnePush
<1>3. ASSUME NEW w \in pushes[d], RecordPush(d, w) PROVE OnePush'
  BY <1>3 DEF TypeOK, Away, InMemory, OwnFile, OnePush, RecordPush, Push
<1>4. ASSUME NEW w \in pushes[d], FailPush(d, w) PROVE OnePush'
  BY <1>4 DEF TypeOK, Away, InMemory, OwnFile, OnePush, FailPush, Push
<1>5. ASSUME NEW s \in Slot, NEW e \in absorb[d][s].events, TakeIn(d, s, e)
      PROVE  OnePush'
  BY <1>5 DEF TypeOK, Away, InMemory, OwnFile, OnePush, TakeIn, Fresh, Oldest
<1>6. CASE Crash(d)
  BY <1>6 DEF TypeOK, Away, InMemory, OwnFile, OnePush, Crash, Idle, Push
<1>7. ASSUME
         \/ Track(d) \/ Open(d)
         \/ \E e \in writing[d] : StoreOwn(d, e) \/ FailOwn(d, e)
         \/ \E p \in Device : WatchRound(d, p) \/ PullFile(d, p)
         \/ \E s \in Slot : NothingNew(d, s) \/ StoreLastTaken(d, s) \/ CountTaken(d, s) \/ MarkTaken(d, s) \/ FailAbsorb(d, s)
         \/ \E s \in Slot : \E e \in absorb[d][s].events : StoreTaken(d, s, e)
      PROVE  OnePush'
  <2>1. UNCHANGED <<overlapped, lossy, pushes, file>>
    BY <1>7 DEF Track, StoreOwn, FailOwn, WatchRound, PullFile, NothingNew,
      StoreTaken, StoreLastTaken, CountTaken, MarkTaken, FailAbsorb, Open
  <2> QED BY <2>1 DEF OnePush
<1> QED
  BY <1>1, <1>2, <1>3, <1>4, <1>5, <1>6, <1>7
  DEF DeviceStep, PushStep, AbsorbStep

-------------------------------------------------------------------------------
(* Theorems.                                                                 *)

\* The invariant holds before anything was decided ...
LEMMA InvInit == Init => IInv
<1> SUFFICES ASSUME Init PROVE IInv
  OBVIOUS
<1>1. TypeOK
  BY TypeInit
<1>2. Idle.events = {} /\ Idle.storing = {}
  BY DEF Idle
<1>3. Away /\ KeptIsHeld /\ OwnFile /\ OnePush
  BY DEF Init, Away, KeptIsHeld, OwnFile, OnePush
<1>4. InMemory /\ ReadIsPublished
  BY <1>2 DEF Init, InMemory, ReadIsPublished
<1>5. ForeignIsPublished /\ PublishedIsMade /\ OwnIsMade
  BY DEF Init, ForeignIsPublished, PublishedIsMade, OwnIsMade
<1> QED BY <1>1, <1>3, <1>4, <1>5 DEF IInv

\* ... and after every step.
LEMMA InvNext == IInv /\ [Next]_vars => IInv'
<1> SUFFICES ASSUME IInv, [Next]_vars PROVE IInv'
  OBVIOUS
<1>1. TypeOK'
  BY TypeNext DEF IInv
<1>2. CASE UNCHANGED vars
  BY <1>1, <1>2 DEF IInv, vars, Away, InMemory, KeptIsHeld, ReadIsPublished,
    ForeignIsPublished, PublishedIsMade, OwnIsMade, OwnFile, OnePush
<1>3. ASSUME NEW d \in Device, DeviceStep(d) PROVE IInv'
  BY <1>1, <1>3, AwayStep, InMemoryStep, KeptIsHeldStep, ReadIsPublishedStep,
     ForeignIsPublishedStep, PublishedIsMadeStep, OwnIsMadeStep, OwnFileStep,
     OnePushStep
  DEF IInv
<1> QED BY <1>2, <1>3 DEF Next

\* It holds whatever overlaps, fails, goes away or comes back.
THEOREM Inductive == Spec => []IInv
<1> QED BY InvInit, InvNext, PTL DEF Spec

\* A running device shows every decision its database holds.
THEOREM KeptIsHeldAlways == Spec => []KeptIsHeld
<1>1. IInv => KeptIsHeld
  BY DEF IInv
<1> QED BY <1>1, Inductive, PTL

\* On a running device that lost nothing at a restart, pull has nothing to
\* learn from the device's own file.
THEOREM OwnFileKnownAlways == Spec => []OwnFileKnown
<1>1. IInv => OwnFileKnown
  BY DEF IInv, OwnFile, OwnFileKnown
<1> QED BY <1>1, Inductive, PTL

\* No overlap, failure or restart makes a decision up: what a device holds of
\* another's was in a file, and what was in a file was made.
THEOREM PeersHoldPublishedAlways == Spec => []PeersHoldPublished
<1>1. IInv => PeersHoldPublished
  BY DEF IInv, ForeignIsPublished, PublishedIsMade, PeersHoldPublished
<1> QED BY <1>1, Inductive, PTL

\* A device's file is written by a push that lands, and by nothing else.
LEMMA OnlyLandPushWrites ==
  ASSUME NEW d \in Device, DeviceStep(d)
  PROVE  UNCHANGED file \/ \E w \in pushes[d] : LandPush(d, w)
<1>1. ASSUME Track(d) \/ Crash(d) \/ Open(d) \/ FirePush(d) PROVE UNCHANGED file
  BY <1>1 DEF Track, Crash, Open, FirePush
<1>2. ASSUME NEW e \in writing[d], StoreOwn(d, e) \/ FailOwn(d, e)
      PROVE  UNCHANGED file
  BY <1>2 DEF StoreOwn, FailOwn
<1>3. ASSUME NEW w \in pushes[d], RecordPush(d, w) \/ FailPush(d, w)
      PROVE  UNCHANGED file
  BY <1>3 DEF RecordPush, FailPush
<1>4. ASSUME NEW p \in Device, WatchRound(d, p) \/ PullFile(d, p)
      PROVE  UNCHANGED file
  BY <1>4 DEF WatchRound, PullFile
<1>5. ASSUME AbsorbStep(d) \/ \E s \in Slot : FailAbsorb(d, s)
      PROVE  UNCHANGED file
  BY <1>5 DEF AbsorbStep, NothingNew, TakeIn, StoreTaken, StoreLastTaken,
    CountTaken, MarkTaken, FailAbsorb
<1> QED BY <1>1, <1>2, <1>3, <1>4, <1>5 DEF DeviceStep, PushStep

\* A push takes nothing out of the file of a device that ran one push at a time
\* and lost nothing.
THEOREM FileGrows == Spec => FileOnlyGrows
<1> DEFINE Grows ==
      \A d \in Device : ~overlapped[d] /\ ~lossy[d] => file[d] \subseteq file'[d]
<1>1. ASSUME IInv, [Next]_vars PROVE Grows
  <2>1. TypeOK /\ OnePush
    BY <1>1 DEF IInv
  <2>2. ASSUME NEW d \in Device, NEW w \in pushes[d], LandPush(d, w) PROVE Grows
    <3>1. \A c \in Device \ {d} : file'[c] = file[c]
      BY <2>1, <2>2 DEF LandPush, TypeOK
    <3>2. file'[d] = w.body
      BY <2>1, <2>2 DEF LandPush, TypeOK
    <3>3. ~overlapped[d] /\ ~lossy[d] => file[d] \subseteq w.body
      BY <2>1 DEF OnePush
    <3> QED BY <3>1, <3>2, <3>3
  <2>3. CASE UNCHANGED file
    BY <2>3
  <2>4. CASE UNCHANGED vars
    BY <2>3, <2>4 DEF vars
  <2> QED BY <1>1, <2>2, <2>3, <2>4, OnlyLandPushWrites DEF Next
<1>2. IInv /\ [Next]_vars => [Grows]_vars
  BY <1>1
<1> QED BY <1>2, Inductive, PTL DEF Spec, FileOnlyGrows

-------------------------------------------------------------------------------
(* Refinement.                                                               *)

\* The abstract variables, as DeviceSync maps them.
Decided == {e \in Decision : e[2] <= made[e[1]]}
Held == [d \in Device |-> IF up[d] THEN log[d] ELSE disk[d]]

\* A step of device d adds published decisions to what it shows, keeps some of
\* what it shows, or changes nothing that the abstract log has.
LEMMA AdvanceMap ==
  ASSUME TypeOK, NEW d \in Device, NEW S \in SUBSET Decision, NEW K \in SUBSET Decision,
         up[d], S \subseteq published, K \subseteq log[d],
         UNCHANGED <<up, made, published>>,
         log' = [log EXCEPT ![d] = @ \cup S],
         disk' = [disk EXCEPT ![d] = @ \cup K]
  PROVE  Log!Advance(d)
<1> DEFINE A == S \ Held[d]
           B == K \ disk[d]
<1>1. A \in SUBSET (published \ Held[d]) /\ B \in SUBSET (Held[d] \ disk[d])
  BY DEF Held
<1>2. Held' = [Held EXCEPT ![d] = @ \cup A]
  BY DEF Held, TypeOK
<1>3. disk' = [disk EXCEPT ![d] = @ \cup B]
  BY DEF TypeOK
<1>4. UNCHANGED <<Decided, published>>
  BY DEF Decided
<1> HIDE DEF A, B
<1> QED BY <1>1, <1>2, <1>3, <1>4 DEF Log!Advance, Held, Decided

\* Nothing is decided, published, shown or kept.
LEMMA LogInit == Init => Log!Init
<1> SUFFICES ASSUME Init PROVE Log!Init
  OBVIOUS
<1>1. Decided = {}
  <2>1. \A e \in Decision : ~(e[2] <= made[e[1]])
    <3> SUFFICES ASSUME NEW e \in Decision PROVE ~(e[2] <= made[e[1]])
      OBVIOUS
    <3>1. PICK d \in Device : e \in {d} \X (1 .. MaxDecisions[d])
      BY DEF Decision
    <3>2. e[1] = d /\ e[2] \in 1 .. MaxDecisions[d] /\ MaxDecisions[d] \in Nat
      BY <3>1, BoundAssumption
    <3>3. made[e[1]] = 0
      BY <3>2 DEF Init
    <3> QED BY <3>2, <3>3
  <2> QED BY <2>1 DEF Decided
<1>2. Held = [d \in Device |-> {}]
  BY DEF Held, Init
<1> QED BY <1>1, <1>2 DEF Init, Log!Init, Decided, Held

\* A decision is made in memory, where it is shown at once.
LEMMA TrackMap ==
  ASSUME TypeOK, NEW d \in Device, Track(d)
  PROVE  Log!Decide(d)
<1> DEFINE n == made[d] + 1
           e == <<d, n>>
<1>1. /\ made[d] \in Nat /\ MaxDecisions[d] \in Nat /\ made[d] < MaxDecisions[d]
      /\ made' = [made EXCEPT ![d] = n]
  BY BoundAssumption DEF Track, TypeOK
<1>2. e \in Decision /\ e[1] = d /\ e[2] = n
  <2>1. n \in 1 .. MaxDecisions[d]
    BY <1>1
  <2>2. e \in {d} \X (1 .. MaxDecisions[d])
    BY <2>1
  <2> QED BY <2>2 DEF Decision
<1>3. e \notin Decided
  BY <1>1, <1>2 DEF Decided
<1>4. Decided' = Decided \cup {e}
  <2>1. ASSUME NEW f \in Decision
        PROVE  f[2] <= made'[f[1]] <=> f[2] <= made[f[1]] \/ f = e
    <3>1. PICK c \in Device : f \in {c} \X (1 .. MaxDecisions[c])
      BY DEF Decision
    <3>2. f[1] = c /\ f[2] \in 1 .. MaxDecisions[c] /\ f = <<f[1], f[2]>>
      BY <3>1
    <3>3. f[2] \in Nat /\ made[c] \in Nat
      BY <3>2, BoundAssumption DEF TypeOK
    <3>4. CASE c = d
      <4>1. made'[c] = n
        BY <1>1, <3>4 DEF TypeOK
      <4>2. f = e <=> f[2] = n
        BY <3>2, <3>4
      <4>3. f[2] <= made[d] + 1 <=> f[2] <= made[d] \/ f[2] = made[d] + 1
        BY <1>1, <3>3
      <4> QED BY <3>2, <3>4, <4>1, <4>2, <4>3
    <3>5. CASE c # d
      <4>1. made'[c] = made[c]
        BY <1>1, <3>5 DEF TypeOK
      <4> QED BY <1>2, <3>2, <3>5, <4>1
    <3> QED BY <3>4, <3>5
  <2> QED BY <1>2, <2>1 DEF Decided
<1>5. Held' = [Held EXCEPT ![d] = @ \cup {e}]
  BY DEF Track, Held, TypeOK
<1>6. UNCHANGED <<published, disk>>
  BY DEF Track
<1>7. [f \in Decision |-> f[1]][e] = d
  BY <1>2
<1> HIDE DEF e
<1> QED BY <1>2, <1>3, <1>4, <1>5, <1>6, <1>7 DEF Log!Decide, Decided, Held

\* A push that lands publishes what its device shows and had not published.
LEMMA PublishMap ==
  ASSUME TypeOK, InMemory, Away,
         NEW d \in Device, NEW w \in pushes[d], LandPush(d, w)
  PROVE  Log!Publish(d)
<1> DEFINE S == w.body \ published
<1>1. up[d] /\ w.body \subseteq log[d]
  BY DEF Away, InMemory
<1>2. S \in SUBSET (Held[d] \ published)
  BY <1>1 DEF Held
<1>3. published' = published \cup S
  BY DEF LandPush
<1>4. UNCHANGED <<Decided, Held, disk>>
  BY DEF LandPush, Decided, Held
<1> HIDE DEF S
<1> QED BY <1>2, <1>3, <1>4 DEF Log!Publish, Held, Decided

\* A device that goes away is left with what its database kept.
LEMMA CrashMap ==
  ASSUME TypeOK, NEW d \in Device, Crash(d)
  PROVE  Log!Restart(d)
<1>1. Held' = [Held EXCEPT ![d] = disk[d]]
  BY DEF Crash, Held, TypeOK
<1>2. UNCHANGED <<Decided, published, disk>>
  BY DEF Crash, Decided
<1> QED BY <1>1, <1>2 DEF Log!Restart, Held, Decided

\* Opening shows what the database kept, which is what was shown while away.
LEMMA OpenMap ==
  ASSUME TypeOK, NEW d \in Device, Open(d)
  PROVE  UNCHANGED <<Decided, published, Held, disk>>
<1>1. UNCHANGED Held
  BY DEF Open, Held, TypeOK, Restored
<1>2. UNCHANGED <<Decided, published, disk>>
  BY DEF Open, Decided
<1> QED BY <1>1, <1>2

\* A decision the device lacks is applied while another is being stored, one
\* after the other, or the last is stored.
LEMMA TakingMap ==
  ASSUME TypeOK, InMemory, Away, ReadIsPublished, NEW d \in Device, NEW s \in Slot,
         \/ \E e \in absorb[d][s].events : TakeIn(d, s, e) \/ StoreTaken(d, s, e)
         \/ StoreLastTaken(d, s)
  PROVE  Log!Advance(d)
<1>1. /\ absorb[d][s].events \in SUBSET Decision
      /\ absorb[d][s].storing \in SUBSET Decision
  BY DEF TypeOK, Absorb
<1>2. up[d]
  <2>1. absorb[d][s].stage # "idle"
    BY DEF TakeIn, StoreTaken, StoreLastTaken
  <2> QED BY <2>1 DEF Away, Idle
<1>3. /\ absorb[d][s].events \subseteq published
      /\ absorb[d][s].storing \subseteq log[d]
  BY DEF ReadIsPublished, InMemory
<1>4. ASSUME NEW e \in absorb[d][s].events, TakeIn(d, s, e)
      PROVE  Log!Advance(d)
  <2>1. disk' = [disk EXCEPT ![d] = @ \cup {}]
    BY <1>4 DEF TakeIn, TypeOK
  <2>2. log' = [log EXCEPT ![d] = @ \cup {e}] /\ UNCHANGED <<up, made, published>>
    BY <1>4 DEF TakeIn
  <2>3. {e} \in SUBSET Decision /\ {e} \subseteq published
    BY <1>1, <1>3
  <2>4. {} \in SUBSET Decision /\ {} \subseteq log[d]
    OBVIOUS
  <2> QED BY <1>2, <2>1, <2>2, <2>3, <2>4, AdvanceMap
<1>5. ASSUME NEW e \in absorb[d][s].events, StoreTaken(d, s, e)
      PROVE  Log!Advance(d)
  <2>1. /\ disk' = [disk EXCEPT ![d] = @ \cup absorb[d][s].storing]
        /\ log' = [log EXCEPT ![d] = @ \cup {e}]
        /\ UNCHANGED <<up, made, published>>
    BY <1>5 DEF StoreTaken
  <2>2. {e} \in SUBSET Decision /\ {e} \subseteq published
    BY <1>1, <1>3
  <2> QED BY <1>1, <1>2, <1>3, <2>1, <2>2, AdvanceMap
<1>6. ASSUME StoreLastTaken(d, s) PROVE Log!Advance(d)
  <2>1. /\ disk' = [disk EXCEPT ![d] = @ \cup absorb[d][s].storing]
        /\ UNCHANGED <<up, made, published, log>>
    BY <1>6 DEF StoreLastTaken
  <2>2. log' = [log EXCEPT ![d] = @ \cup {}]
    BY <2>1 DEF TypeOK
  <2>3. {} \in SUBSET Decision /\ {} \subseteq published
    OBVIOUS
  <2> QED BY <1>1, <1>2, <1>3, <2>1, <2>2, <2>3, AdvanceMap
<1> QED BY <1>4, <1>5, <1>6

\* A write of an own decision that completes keeps what is shown.
LEMMA StoreOwnMap ==
  ASSUME TypeOK, InMemory, Away,
         NEW d \in Device, NEW e \in writing[d], StoreOwn(d, e)
  PROVE  Log!Advance(d)
<1>1. up[d] /\ e \in log[d] /\ e \in Decision
  BY DEF Away, InMemory, TypeOK
<1>2. /\ disk' = [disk EXCEPT ![d] = @ \cup {e}]
      /\ UNCHANGED <<up, made, published, log>>
  BY DEF StoreOwn
<1>3. log' = [log EXCEPT ![d] = @ \cup {}]
  BY <1>2 DEF TypeOK
<1>4. {} \in SUBSET Decision /\ {} \subseteq published
  OBVIOUS
<1>5. {e} \in SUBSET Decision /\ {e} \subseteq log[d]
  BY <1>1
<1> QED BY <1>1, <1>2, <1>3, <1>4, <1>5, AdvanceMap

\* Everything else is bookkeeping: the abstract log stutters.
LEMMA QuietMap ==
  ASSUME NEW d \in Device,
         \/ FirePush(d)
         \/ \E e \in writing[d] : FailOwn(d, e)
         \/ \E w \in pushes[d] : RecordPush(d, w) \/ FailPush(d, w)
         \/ \E p \in Device : WatchRound(d, p) \/ PullFile(d, p)
         \/ \E s \in Slot : \/ NothingNew(d, s) \/ CountTaken(d, s)
                            \/ MarkTaken(d, s) \/ FailAbsorb(d, s)
  PROVE  UNCHANGED <<Decided, published, Held, disk>>
<1>1. UNCHANGED <<up, made, log, disk, published>>
  BY DEF FirePush, FailOwn, RecordPush, FailPush, WatchRound, PullFile,
    NothingNew, CountTaken, MarkTaken, FailAbsorb
<1> QED BY <1>1 DEF Decided, Held

\* DeviceSync keeps the promise of DecisionLog: with every failure, overlap and
\* restart, a device shows decisions as they were made, others' only once they
\* are published, and after a restart what its database kept.
THEOREM Implements == Spec => ImplementsDecisionLog
<1>1. ASSUME IInv, [Next]_vars PROVE [Log!Next]_(Log!vars)
  <2>1. TypeOK /\ InMemory /\ Away /\ ReadIsPublished
    BY <1>1 DEF IInv
  <2>2. CASE UNCHANGED vars
    BY <2>2 DEF vars, Log!vars
  <2>3. ASSUME NEW d \in Device, DeviceStep(d)
        PROVE  \/ Log!Decide(d) \/ Log!Publish(d) \/ Log!Advance(d) \/ Log!Restart(d)
               \/ UNCHANGED <<Decided, published, Held, disk>>
    BY <2>1, <2>3, TrackMap, PublishMap, CrashMap, OpenMap, TakingMap, StoreOwnMap,
       QuietMap
    DEF DeviceStep, PushStep, AbsorbStep
  <2>4. UNCHANGED <<Decided, published, Held, disk>> => UNCHANGED Log!vars
    BY DEF Log!vars, Decided, Held
  <2> QED BY <1>1, <2>2, <2>3, <2>4 DEF Next, Log!Next
<1> QED BY <1>1, LogInit, Inductive, PTL DEF Spec, ImplementsDecisionLog, Log!Spec
-------------------------------------------------------------------------------
(* The footer's count.                                                       *)
(*                                                                           *)
(* What the mark may count is what the device holds and either took from     *)
(* another device or has in its own file, less what an absorb that has not   *)
(* settled its mark yet is taking in.  Every step but the writing of a mark  *)
(* leaves that set as large as it was, and the two that write a mark write   *)
(* no more than its size.                                                    *)

Settled(d) == {e \in Held[d] : /\ e[1] # d \/ e \in file[d]
                               /\ \A s \in Slot : e \notin absorb[d][s].taken}

\* Only an absorb that applies has taken anything in, and what it took in and
\* has no longer before it is in memory.
TakenHeldAt(d, s) ==
  /\ absorb[d][s].stage \in {"idle", "read"} => absorb[d][s].taken = {}
  /\ absorb[d][s].stage \in {"count", "mark"} => absorb[d][s].events = {}
  /\ absorb[d][s].taken \ absorb[d][s].events \subseteq log[d]

TakenHeld == \A d \in Device : \A s \in Slot : TakenHeldAt(d, s)

\* A device that lost nothing holds all it decided ...
OwnKept ==
  \A d \in Device : ~lossy[d] =>
    \A e \in Decision : e[1] = d /\ e[2] <= made[d] => e \in Held[d]

\* ... so what it takes in is another's.
TakenForeign ==
  \A d \in Device : ~lossy[d] =>
    \A s \in Slot : \A e \in absorb[d][s].taken : e[1] # d

\* Without an overlap no decision is taken in, and so counted, twice,
TakenOnce ==
  \A d \in Device : ~overlapped[d] =>
    \A s, t \in Slot : s # t => absorb[d][s].taken \cap absorb[d][t].taken = {}

\* and a push counts nothing that an absorb will count.
PushedApart ==
  \A d \in Device : ~overlapped[d] /\ ~lossy[d] =>
    \A w \in pushes[d] :
      /\ w.landed => file[d] = w.body
      /\ \A s \in Slot : w.body \cap absorb[d][s].taken = {}

Marked ==
  \A d \in Device : ~overlapped[d] /\ ~lossy[d] =>
    /\ mark[d] <= Cardinality(Settled(d))
    /\ \A s \in Slot : absorb[d][s].stage = "mark" =>
         absorb[d][s].known <= Cardinality(Settled(d))

MarkInv ==
  IInv /\ TakenHeld /\ OwnKept /\ TakenForeign /\ TakenOnce /\ PushedApart /\ Marked

\* What a step does to an absorb: nothing, an end, or a stage of its own.
LEMMA AbsorbParts ==
  ASSUME TypeOK, NEW d \in Device, DeviceStep(d)
  PROVE  \/ UNCHANGED absorb
         \/ /\ \A c \in Device \ {d} : absorb'[c] = absorb[c]
            /\ \A s \in Slot : absorb'[d][s] = absorb[d][s] \/ absorb'[d][s] = Idle
         \/ \E s \in Slot :
              /\ \A c \in Device \ {d} : absorb'[c] = absorb[c]
              /\ \A t \in Slot \ {s} : absorb'[d][t] = absorb[d][t]
              /\ \/ /\ absorb[d][s].stage = "idle"
                    /\ \E p \in Device : absorb'[d][s] = Reading(file[p])
                 \/ \E e \in absorb[d][s].events :
                      TakeIn(d, s, e) \/ StoreTaken(d, s, e)
                 \/ StoreLastTaken(d, s) \/ CountTaken(d, s)
<1>1. ASSUME NEW x \in Slot, NEW a, absorb' = [absorb EXCEPT ![d][x] = a]
      PROVE  /\ absorb'[d][x] = a
             /\ \A c \in Device \ {d} : absorb'[c] = absorb[c]
             /\ \A t \in Slot \ {x} : absorb'[d][t] = absorb[d][t]
  BY <1>1 DEF TypeOK
<1>2. CASE Track(d) \/ Open(d) \/ FirePush(d)
  BY <1>2 DEF Track, Open, FirePush
<1>3. CASE Crash(d)
  BY <1>3 DEF Crash, TypeOK
<1>4. ASSUME NEW e \in writing[d], StoreOwn(d, e) \/ FailOwn(d, e)
      PROVE  UNCHANGED absorb
  BY <1>4 DEF StoreOwn, FailOwn
<1>5. ASSUME NEW w \in pushes[d],
             LandPush(d, w) \/ RecordPush(d, w) \/ FailPush(d, w)
      PROVE  UNCHANGED absorb
  BY <1>5 DEF LandPush, RecordPush, FailPush
<1>6. ASSUME NEW p \in Device, NEW s \in Slot, absorb[d][s].stage = "idle",
             absorb' = [absorb EXCEPT ![d][s] = Reading(file[p])]
      PROVE  /\ \A c \in Device \ {d} : absorb'[c] = absorb[c]
             /\ \A t \in Slot \ {s} : absorb'[d][t] = absorb[d][t]
             /\ absorb[d][s].stage = "idle"
             /\ \E q \in Device : absorb'[d][s] = Reading(file[q])
  <2> DEFINE a == Reading(file[p])
  <2>1. absorb' = [absorb EXCEPT ![d][s] = a]
    BY <1>6
  <2> HIDE DEF a
  <2>2. absorb'[d][s] = a
    BY <2>1, <1>1
  <2>3. /\ \A c \in Device \ {d} : absorb'[c] = absorb[c]
        /\ \A t \in Slot \ {s} : absorb'[d][t] = absorb[d][t]
    BY <2>1, <1>1
  <2> QED BY <1>6, <2>2, <2>3 DEF a
<1>7. ASSUME NEW p \in Device, WatchRound(d, p) \/ PullFile(d, p), absorb' # absorb
      PROVE  \E s \in Slot : /\ absorb[d][s].stage = "idle"
                             /\ absorb' = [absorb EXCEPT ![d][s] = Reading(file[p])]
  <2>1. <<"watch", p>> \in Slot /\ <<"pull", p>> \in Slot
    BY DEF Slot
  <2>2. CASE WatchRound(d, p)
    <3>1. /\ absorb[d][<<"watch", p>>].stage = "idle"
          /\ absorb' = [absorb EXCEPT ![d][<<"watch", p>>] = Reading(file[p])]
      BY <1>7, <2>2 DEF WatchRound
    <3> QED BY <2>1, <3>1, Zenon
  <2>3. CASE PullFile(d, p)
    <3>1. /\ absorb[d][<<"pull", p>>].stage = "idle"
          /\ absorb' = [absorb EXCEPT ![d][<<"pull", p>>] = Reading(file[p])]
      BY <1>7, <2>3 DEF PullFile
    <3> QED BY <2>1, <3>1, Zenon
  <2> QED BY <1>7, <2>2, <2>3
<1>8. ASSUME NEW s \in Slot,
             \/ StoreLastTaken(d, s) \/ CountTaken(d, s)
             \/ \E e \in absorb[d][s].events : TakeIn(d, s, e) \/ StoreTaken(d, s, e)
      PROVE  /\ \A c \in Device \ {d} : absorb'[c] = absorb[c]
             /\ \A t \in Slot \ {s} : absorb'[d][t] = absorb[d][t]
  <2>1. CASE StoreLastTaken(d, s) \/ CountTaken(d, s)
    BY <1>1, <2>1 DEF StoreLastTaken, CountTaken
  <2>2. ASSUME NEW e \in absorb[d][s].events, TakeIn(d, s, e)
        PROVE  \E a : absorb' = [absorb EXCEPT ![d][s] = a]
    BY <2>2 DEF TakeIn
  <2>3. ASSUME NEW e \in absorb[d][s].events, StoreTaken(d, s, e)
        PROVE  \E a : absorb' = [absorb EXCEPT ![d][s] = a]
    <3> DEFINE a == [absorb[d][s] EXCEPT !.events = @ \ {e}, !.storing = {e}]
    <3>1. absorb' = [absorb EXCEPT ![d][s] = a]
      BY <2>3 DEF StoreTaken
    <3> HIDE DEF a
    <3> QED BY <3>1
  <2> QED BY <1>1, <1>8, <2>1, <2>2, <2>3
<1>9. ASSUME NEW s \in Slot, NothingNew(d, s) \/ MarkTaken(d, s) \/ FailAbsorb(d, s)
      PROVE  /\ \A c \in Device \ {d} : absorb'[c] = absorb[c]
             /\ \A t \in Slot : absorb'[d][t] = absorb[d][t] \/ absorb'[d][t] = Idle
  <2>1. absorb' = [absorb EXCEPT ![d][s] = Idle]
    BY <1>9 DEF NothingNew, MarkTaken, FailAbsorb
  <2> QED BY <1>1, <2>1
<1>10. ASSUME NEW p \in Device, WatchRound(d, p) \/ PullFile(d, p), absorb' # absorb
       PROVE  \E s \in Slot :
                /\ \A c \in Device \ {d} : absorb'[c] = absorb[c]
                /\ \A t \in Slot \ {s} : absorb'[d][t] = absorb[d][t]
                /\ absorb[d][s].stage = "idle"
                /\ \E q \in Device : absorb'[d][s] = Reading(file[q])
  <2>1. PICK s \in Slot : /\ absorb[d][s].stage = "idle"
                          /\ absorb' = [absorb EXCEPT ![d][s] = Reading(file[p])]
    BY <1>7, <1>10
  <2> QED BY <1>6, <2>1
<1> QED
  BY <1>2, <1>3, <1>4, <1>5, <1>8, <1>9, <1>10, Zenon
  DEF DeviceStep, PushStep, AbsorbStep

\* The same, in what each of them does to the absorb.
LEMMA AbsorbFields ==
  ASSUME TypeOK, NEW d \in Device, NEW s \in Slot
  PROVE  /\ Idle.stage = "idle" /\ Idle.taken = {} /\ Idle.events = {}
         /\ \A p \in Device : /\ Reading(file[p]).stage = "read"
                               /\ Reading(file[p]).taken = {}
         /\ \A e \in absorb[d][s].events :
              /\ TakeIn(d, s, e) =>
                   /\ absorb'[d][s].stage = "store"
                   /\ absorb'[d][s].events = Fresh(d, s) \ {e}
                   /\ absorb'[d][s].taken = Fresh(d, s)
              /\ StoreTaken(d, s, e) =>
                   /\ absorb'[d][s].stage = "store"
                   /\ absorb'[d][s].events = absorb[d][s].events \ {e}
                   /\ absorb'[d][s].taken = absorb[d][s].taken
         /\ StoreLastTaken(d, s) =>
              /\ absorb[d][s].events = {}
              /\ absorb'[d][s].stage = "count"
              /\ absorb'[d][s].events = {}
              /\ absorb'[d][s].taken = absorb[d][s].taken
         /\ CountTaken(d, s) =>
              /\ absorb[d][s].stage = "count"
              /\ absorb'[d][s].stage = "mark"
              /\ absorb'[d][s].events = absorb[d][s].events
              /\ absorb'[d][s].taken = absorb[d][s].taken
              /\ absorb'[d][s].known = mark[d]
<1>1. absorb[d][s] \in Absorb
  BY DEF TypeOK
<1>2. ASSUME NEW a, absorb' = [absorb EXCEPT ![d][s] = a] PROVE absorb'[d][s] = a
  BY <1>2 DEF TypeOK
<1>3. /\ Idle.stage = "idle" /\ Idle.taken = {} /\ Idle.events = {}
      /\ \A p \in Device : /\ Reading(file[p]).stage = "read"
                            /\ Reading(file[p]).taken = {}
  BY DEF Idle, Reading
<1>4. ASSUME NEW e \in absorb[d][s].events, TakeIn(d, s, e)
      PROVE  /\ absorb'[d][s].stage = "store"
             /\ absorb'[d][s].events = Fresh(d, s) \ {e}
             /\ absorb'[d][s].taken = Fresh(d, s)
  <2> DEFINE a == [stage |-> "store", events |-> Fresh(d, s) \ {e},
                   storing |-> {e}, taken |-> Fresh(d, s), known |-> 0]
  <2>1. absorb'[d][s] = a
    BY <1>2, <1>4 DEF TakeIn
  <2> QED BY <2>1
<1>5. ASSUME NEW e \in absorb[d][s].events, StoreTaken(d, s, e)
      PROVE  /\ absorb'[d][s].stage = "store"
             /\ absorb'[d][s].events = absorb[d][s].events \ {e}
             /\ absorb'[d][s].taken = absorb[d][s].taken
  <2> DEFINE a == [absorb[d][s] EXCEPT !.events = @ \ {e}, !.storing = {e}]
  <2>1. /\ a.stage = "store" /\ a.events = absorb[d][s].events \ {e}
        /\ a.taken = absorb[d][s].taken
    BY <1>1, <1>5 DEF Absorb, StoreTaken
  <2>2. absorb' = [absorb EXCEPT ![d][s] = a]
    BY <1>5 DEF StoreTaken
  <2> HIDE DEF a
  <2> QED BY <1>2, <2>1, <2>2
<1>6. ASSUME StoreLastTaken(d, s)
      PROVE  /\ absorb[d][s].events = {}
             /\ absorb'[d][s].stage = "count"
             /\ absorb'[d][s].events = {}
             /\ absorb'[d][s].taken = absorb[d][s].taken
  <2> DEFINE a == [absorb[d][s] EXCEPT !.stage = "count", !.storing = {}]
  <2>1. a.stage = "count" /\ a.events = absorb[d][s].events /\ a.taken = absorb[d][s].taken
    BY <1>1 DEF Absorb
  <2>2. absorb' = [absorb EXCEPT ![d][s] = a] /\ absorb[d][s].events = {}
    BY <1>6 DEF StoreLastTaken
  <2> HIDE DEF a
  <2> QED BY <1>2, <2>1, <2>2
<1>7. ASSUME CountTaken(d, s)
      PROVE  /\ absorb[d][s].stage = "count"
             /\ absorb'[d][s].stage = "mark"
             /\ absorb'[d][s].events = absorb[d][s].events
             /\ absorb'[d][s].taken = absorb[d][s].taken
             /\ absorb'[d][s].known = mark[d]
  <2> DEFINE a == [absorb[d][s] EXCEPT !.stage = "mark", !.known = mark[d]]
  <2>1. /\ a.stage = "mark" /\ a.events = absorb[d][s].events
        /\ a.taken = absorb[d][s].taken /\ a.known = mark[d]
    BY <1>1 DEF Absorb
  <2>2. absorb' = [absorb EXCEPT ![d][s] = a] /\ absorb[d][s].stage = "count"
    BY <1>7 DEF CountTaken
  <2> HIDE DEF a
  <2> QED BY <1>2, <2>1, <2>2
<1> QED BY <1>3, <1>4, <1>5, <1>6, <1>7

\* What a step does to memory: it grows, by what was decided or taken in, or
\* the device goes away or comes back.
LEMMA LogParts ==
  ASSUME TypeOK, NEW d \in Device, DeviceStep(d)
  PROVE  /\ \A c \in Device \ {d} : log'[c] = log[c] /\ Held'[c] = Held[c]
         /\ \/ log[d] \subseteq log'[d] /\ up'[d] = up[d] /\ disk[d] \subseteq disk'[d]
            \/ Crash(d) \/ Open(d)
<1>1. CASE Track(d)
  BY <1>1 DEF Track, TypeOK, Held
<1>2. CASE Crash(d) \/ Open(d)
  BY <1>2 DEF Crash, Open, TypeOK, Held
<1>3. ASSUME NEW e \in writing[d], StoreOwn(d, e) \/ FailOwn(d, e)
      PROVE  /\ UNCHANGED <<log, up>> /\ \A c \in Device \ {d} : disk'[c] = disk[c]
             /\ disk[d] \subseteq disk'[d]
  BY <1>3 DEF StoreOwn, FailOwn, TypeOK
<1>4. CASE PushStep(d) \/ \E w \in pushes[d] : FailPush(d, w)
  BY <1>4 DEF PushStep, FirePush, LandPush, RecordPush, FailPush, TypeOK, Held
<1>5. CASE \E p \in Device : WatchRound(d, p) \/ PullFile(d, p)
  BY <1>5 DEF WatchRound, PullFile, TypeOK, Held
<1>6. ASSUME NEW s \in Slot, NEW e \in absorb[d][s].events,
             TakeIn(d, s, e) \/ StoreTaken(d, s, e)
      PROVE  /\ log' = [log EXCEPT ![d] = @ \cup {e}]
             /\ up' = up /\ \A c \in Device \ {d} : disk'[c] = disk[c]
             /\ disk[d] \subseteq disk'[d]
  BY <1>6 DEF TakeIn, StoreTaken, TypeOK
<1>7. ASSUME NEW s \in Slot,
             \/ NothingNew(d, s) \/ StoreLastTaken(d, s) \/ CountTaken(d, s)
             \/ MarkTaken(d, s) \/ FailAbsorb(d, s)
      PROVE  /\ UNCHANGED <<log, up>> /\ \A c \in Device \ {d} : disk'[c] = disk[c]
             /\ disk[d] \subseteq disk'[d]
  BY <1>7 DEF NothingNew, StoreLastTaken, CountTaken, MarkTaken, FailAbsorb, TypeOK
<1>8. ASSUME UNCHANGED up,
             \/ UNCHANGED log
             \/ \E e : log' = [log EXCEPT ![d] = @ \cup {e}],
             \A c \in Device \ {d} : disk'[c] = disk[c], disk[d] \subseteq disk'[d]
      PROVE  /\ \A c \in Device \ {d} : log'[c] = log[c] /\ Held'[c] = Held[c]
             /\ log[d] \subseteq log'[d] /\ up'[d] = up[d] /\ disk[d] \subseteq disk'[d]
  BY <1>8 DEF TypeOK, Held
<1> QED
  BY <1>1, <1>2, <1>3, <1>4, <1>5, <1>6, <1>7, <1>8
  DEF DeviceStep, AbsorbStep, PushStep, FirePush, LandPush, RecordPush, FailPush, WatchRound, PullFile

\* What an absorb takes in is settled when it begins, and each is in memory
\* when it is no longer before it.
LEMMA TakenHeldStep ==
  ASSUME TypeOK, Away, TakenHeld, NEW d \in Device, DeviceStep(d)
  PROVE  TakenHeld'
<1>1. ASSUME NEW c \in Device \ {d}, NEW s \in Slot, absorb'[c] = absorb[c]
      PROVE  TakenHeldAt(c, s)'
  BY <1>1, LogParts DEF TakenHeld, TakenHeldAt
<1>2. Idle.stage = "idle" /\ Idle.taken = {} /\ Idle.events = {}
  BY DEF Idle
<1>3. ASSUME NEW s \in Slot, absorb'[d][s] = Idle
      PROVE  TakenHeldAt(d, s)'
  BY <1>2, <1>3 DEF TakenHeldAt
<1>4. CASE Crash(d) \/ Open(d)
  <2>1. \A s \in Slot : absorb'[d][s] = Idle
    BY <1>4 DEF Crash, Open, Away, TypeOK
  <2>2. \A c \in Device \ {d} : absorb'[c] = absorb[c]
    BY <1>4 DEF Crash, Open, TypeOK
  <2> QED BY <1>1, <1>3, <2>1, <2>2 DEF TakenHeld
<1>5. ASSUME ~Crash(d), ~Open(d), NEW s \in Slot, absorb'[d][s] = absorb[d][s]
      PROVE  TakenHeldAt(d, s)'
  <2>1. log[d] \subseteq log'[d]
    BY <1>5, LogParts
  <2> QED BY <1>5, <2>1 DEF TakenHeld, TakenHeldAt
<1>6. ASSUME ~Crash(d), ~Open(d), NEW s \in Slot,
             \/ \E p \in Device : absorb'[d][s] = Reading(file[p])
             \/ \E e \in absorb[d][s].events : TakeIn(d, s, e) \/ StoreTaken(d, s, e)
             \/ StoreLastTaken(d, s) \/ CountTaken(d, s)
      PROVE  TakenHeldAt(d, s)'
  <2>1. log[d] \subseteq log'[d] /\ TakenHeldAt(d, s)
    BY <1>6, LogParts DEF TakenHeld
  <2>2. ASSUME NEW p \in Device, absorb'[d][s] = Reading(file[p])
        PROVE  TakenHeldAt(d, s)'
    BY <2>2, AbsorbFields DEF TakenHeldAt
  <2>3. ASSUME NEW e \in absorb[d][s].events, TakeIn(d, s, e)
        PROVE  TakenHeldAt(d, s)'
    <3>1. e \in log'[d]
      BY <2>3 DEF TakeIn, TypeOK
    <3> QED BY <2>3, <3>1, AbsorbFields DEF TakenHeldAt
  <2>4. ASSUME NEW e \in absorb[d][s].events, StoreTaken(d, s, e)
        PROVE  TakenHeldAt(d, s)'
    <3>1. e \in log'[d]
      BY <2>4 DEF StoreTaken, TypeOK
    <3> QED BY <2>1, <2>4, <3>1, AbsorbFields DEF TakenHeldAt
  <2>5. CASE StoreLastTaken(d, s) \/ CountTaken(d, s)
    BY <2>1, <2>5, AbsorbFields DEF TakenHeldAt
  <2> QED BY <1>6, <2>2, <2>3, <2>4, <2>5
<1>7. CASE ~Crash(d) /\ ~Open(d)
  BY <1>1, <1>3, <1>5, <1>6, <1>7, AbsorbParts DEF TakenHeld
<1> QED BY <1>4, <1>7

\* What the excuses are about does not come back, and a step of one device
\* leaves the files of the others alone.
LEMMA ExcuseStays ==
  ASSUME TypeOK, NEW d \in Device, DeviceStep(d)
  PROVE  /\ \A c \in Device : lossy[c] => lossy'[c]
         /\ \A c \in Device : overlapped[c] => overlapped'[c]
         /\ \A c \in Device \ {d} : /\ lossy'[c] = lossy[c]
                                    /\ overlapped'[c] = overlapped[c]
                                    /\ file'[c] = file[c]
                                    /\ pushes'[c] = pushes[c]
                                    /\ mark'[c] = mark[c]
                                    /\ made'[c] = made[c]
         /\ Track(d) \/ UNCHANGED made
<1>1. CASE Track(d) \/ Open(d)
  BY <1>1 DEF Track, Open, TypeOK
<1>2. CASE Crash(d)
  BY <1>2 DEF Crash, TypeOK
<1>3. ASSUME NEW e \in writing[d], StoreOwn(d, e) \/ FailOwn(d, e)
      PROVE  UNCHANGED <<lossy, overlapped, file, pushes, mark, made>>
  BY <1>3 DEF StoreOwn, FailOwn
<1>4. CASE FirePush(d)
  BY <1>4 DEF FirePush, TypeOK
<1>10. ASSUME NEW w \in pushes[d],
              LandPush(d, w) \/ RecordPush(d, w) \/ FailPush(d, w)
       PROVE  /\ UNCHANGED <<lossy, overlapped, made>>
              /\ \A c \in Device \ {d} : /\ file'[c] = file[c]
                                         /\ pushes'[c] = pushes[c]
                                         /\ mark'[c] = mark[c]
  BY <1>10 DEF LandPush, RecordPush, FailPush, TypeOK
<1>5. ASSUME NEW p \in Device, WatchRound(d, p) \/ PullFile(d, p)
      PROVE  UNCHANGED <<lossy, overlapped, file, pushes, mark, made>>
  BY <1>5 DEF WatchRound, PullFile
<1>6. ASSUME NEW s \in Slot, NEW e \in absorb[d][s].events, StoreTaken(d, s, e)
      PROVE  UNCHANGED <<lossy, overlapped, file, pushes, mark, made>>
  BY <1>6 DEF StoreTaken
<1>7. ASSUME NEW s \in Slot, NEW e \in absorb[d][s].events, TakeIn(d, s, e)
      PROVE  /\ UNCHANGED <<lossy, file, pushes, mark, made>>
             /\ \A c \in Device : overlapped[c] => overlapped'[c]
             /\ \A c \in Device \ {d} : overlapped'[c] = overlapped[c]
  BY <1>7 DEF TakeIn, TypeOK
<1>8. ASSUME NEW s \in Slot,
             \/ NothingNew(d, s) \/ StoreLastTaken(d, s) \/ CountTaken(d, s)
             \/ FailAbsorb(d, s)
      PROVE  UNCHANGED <<lossy, overlapped, file, pushes, mark, made>>
  BY <1>8 DEF NothingNew, StoreLastTaken, CountTaken, FailAbsorb
<1>9. ASSUME NEW s \in Slot, MarkTaken(d, s)
      PROVE  /\ UNCHANGED <<lossy, overlapped, file, pushes, made>>
             /\ \A c \in Device \ {d} : mark'[c] = mark[c]
  BY <1>9 DEF MarkTaken, TypeOK
<1> QED
  BY <1>1, <1>2, <1>3, <1>4, <1>5, <1>6, <1>7, <1>8, <1>9, <1>10
  DEF DeviceStep, AbsorbStep, PushStep

\* A device that loses nothing at this step forgets nothing at it.
LEMMA HeldGrows ==
  ASSUME TypeOK, NEW d \in Device, DeviceStep(d), ~lossy'[d]
  PROVE  Held[d] \subseteq Held'[d]
<1>1. CASE Crash(d)
  <2>1. log[d] = disk[d] /\ Held'[d] = disk[d] /\ Held[d] = log[d]
    BY <1>1 DEF Crash, Held, TypeOK
  <2> QED BY <2>1
<1>2. CASE Open(d)
  BY <1>2 DEF Open, Held, TypeOK, Restored
<1>3. CASE log[d] \subseteq log'[d] /\ up'[d] = up[d] /\ disk[d] \subseteq disk'[d]
  BY <1>3 DEF Held, TypeOK
<1> QED BY <1>1, <1>2, <1>3, LogParts

\* The next decision is in memory at once, and a crash that loses it is told.
LEMMA OwnKeptStep ==
  ASSUME TypeOK, OwnKept, NEW d \in Device, DeviceStep(d)
  PROVE  OwnKept'
<1>1. ASSUME NEW c \in Device \ {d}, ~lossy'[c], NEW e \in Decision,
             e[1] = c, e[2] <= made'[c]
      PROVE  e \in Held'[c]
  BY <1>1, ExcuseStays, LogParts DEF OwnKept
<1>2. ASSUME ~lossy'[d], made'[d] = made[d], NEW e \in Decision,
             e[1] = d, e[2] <= made'[d]
      PROVE  e \in Held'[d]
  BY <1>2, ExcuseStays, HeldGrows DEF OwnKept
<1>3. ASSUME Track(d), ~lossy'[d], NEW e \in Decision, e[1] = d, e[2] <= made'[d]
      PROVE  e \in Held'[d]
  <2>1. PICK c \in Device : e \in {c} \X (1 .. MaxDecisions[c])
    BY DEF Decision
  <2>2. e = <<d, e[2]>> /\ e[2] \in Nat
    BY <1>3, <2>1, DecisionParts
  <2>3. made[d] \in Nat /\ made'[d] = made[d] + 1
    BY <1>3 DEF Track, TypeOK
  <2>4. CASE e[2] <= made[d]
    BY <1>3, <2>4, ExcuseStays, HeldGrows DEF OwnKept
  <2>5. CASE e[2] = made[d] + 1
    BY <1>3, <2>2, <2>5 DEF Track, Held, TypeOK
  <2> QED BY <1>3, <2>2, <2>3, <2>4, <2>5
<1>4. Track(d) \/ made'[d] = made[d]
  BY ExcuseStays
<1> QED BY <1>1, <1>2, <1>3, <1>4 DEF OwnKept

\* What is fresh to a device that lost nothing is not its own.
LEMMA FreshIsForeign ==
  ASSUME IInv, OwnKept, NEW d \in Device, NEW s \in Slot, ~lossy[d],
         absorb[d][s].stage # "idle"
  PROVE  \A e \in Fresh(d, s) : e[1] # d
<1> SUFFICES ASSUME NEW e \in Fresh(d, s), e[1] = d PROVE FALSE
  OBVIOUS
<1>1. TypeOK /\ Away /\ ReadIsPublished /\ PublishedIsMade
  BY DEF IInv
<1>2. e \in absorb[d][s].events /\ e \notin log[d]
  BY DEF Fresh
<1>3. e \in published /\ e \in Decision
  BY <1>1, <1>2 DEF ReadIsPublished, TypeOK
<1>4. e[2] <= made[d]
  BY <1>1, <1>3 DEF PublishedIsMade
<1>5. up[d]
  BY <1>1 DEF Away, Idle
<1>6. e \in log[d]
  BY <1>3, <1>4, <1>5 DEF OwnKept, Held
<1> QED BY <1>2, <1>6

\* What begins to be taken in is fresh, and so another's.
LEMMA TakenForeignStep ==
  ASSUME IInv, OwnKept, TakenForeign, NEW d \in Device, DeviceStep(d)
  PROVE  TakenForeign'
<1>1. TypeOK
  BY DEF IInv
<1>2. ASSUME NEW c \in Device \ {d}, ~lossy'[c], absorb'[c] = absorb[c]
      PROVE  \A s \in Slot : \A e \in absorb'[c][s].taken : e[1] # c
  BY <1>1, <1>2, ExcuseStays DEF TakenForeign
<1>3. ASSUME ~lossy'[d], NEW s \in Slot, absorb'[d][s] = absorb[d][s] \/ absorb'[d][s] = Idle
      PROVE  \A e \in absorb'[d][s].taken : e[1] # d
  BY <1>1, <1>3, ExcuseStays, AbsorbFields DEF TakenForeign
<1>4. ASSUME ~lossy'[d], NEW s \in Slot,
             \/ \E p \in Device : absorb'[d][s] = Reading(file[p])
             \/ \E e \in absorb[d][s].events : TakeIn(d, s, e) \/ StoreTaken(d, s, e)
             \/ StoreLastTaken(d, s) \/ CountTaken(d, s)
      PROVE  \A e \in absorb'[d][s].taken : e[1] # d
  <2>1. ~lossy[d]
    BY <1>1, <1>4, ExcuseStays
  <2>2. CASE absorb'[d][s].taken = {}
    BY <2>2
  <2>3. CASE absorb'[d][s].taken = absorb[d][s].taken
    BY <2>1, <2>3 DEF TakenForeign
  <2>4. ASSUME NEW e \in absorb[d][s].events, TakeIn(d, s, e)
        PROVE  \A f \in absorb'[d][s].taken : f[1] # d
    <3>1. absorb'[d][s].taken = Fresh(d, s) /\ absorb[d][s].stage # "idle"
      BY <1>1, <2>4, AbsorbFields DEF TakeIn
    <3> QED BY <2>1, <3>1, FreshIsForeign
  <2> QED BY <1>1, <1>4, <2>2, <2>3, <2>4, AbsorbFields
<1> QED BY <1>1, <1>2, <1>3, <1>4, AbsorbParts DEF TakenForeign

\* What was taken in changes when an absorb begins to apply, and is gone when
\* it ends.
LEMMA TakenParts ==
  ASSUME TypeOK, TakenHeld, NEW d \in Device, DeviceStep(d)
  PROVE  /\ \A c \in Device \ {d} : absorb'[c] = absorb[c]
         /\ \/ \A s \in Slot : absorb'[d][s].taken \subseteq absorb[d][s].taken
            \/ \E s \in Slot :
                 /\ \E e \in absorb[d][s].events : TakeIn(d, s, e)
                 /\ absorb'[d][s].taken = Fresh(d, s)
                 /\ \A t \in Slot \ {s} : absorb'[d][t].taken = absorb[d][t].taken
         /\ \A s \in Slot : absorb'[d][s].stage = "mark" =>
              absorb'[d][s] = absorb[d][s] \/ absorb'[d][s].known = mark[d]
<1>1. CASE UNCHANGED absorb
  BY <1>1
<1>2. CASE /\ \A c \in Device \ {d} : absorb'[c] = absorb[c]
           /\ \A s \in Slot : absorb'[d][s] = absorb[d][s] \/ absorb'[d][s] = Idle
  BY <1>2, AbsorbFields
<1>3. ASSUME NEW s \in Slot,
             \A c \in Device \ {d} : absorb'[c] = absorb[c],
             \A t \in Slot \ {s} : absorb'[d][t] = absorb[d][t],
             \/ /\ absorb[d][s].stage = "idle"
                /\ \E p \in Device : absorb'[d][s] = Reading(file[p])
             \/ \E e \in absorb[d][s].events :
                  TakeIn(d, s, e) \/ StoreTaken(d, s, e)
             \/ StoreLastTaken(d, s) \/ CountTaken(d, s)
      PROVE  /\ \/ \A t \in Slot : absorb'[d][t].taken \subseteq absorb[d][t].taken
                \/ \E r \in Slot :
                     /\ \E e \in absorb[d][r].events : TakeIn(d, r, e)
                     /\ absorb'[d][r].taken = Fresh(d, r)
                     /\ \A t \in Slot \ {r} : absorb'[d][t].taken = absorb[d][t].taken
             /\ \A t \in Slot : absorb'[d][t].stage = "mark" =>
                  absorb'[d][t] = absorb[d][t] \/ absorb'[d][t].known = mark[d]
  <2>1. CASE \E p \in Device : absorb'[d][s] = Reading(file[p])
    BY <1>3, <2>1, AbsorbFields
  <2>2. ASSUME NEW e \in absorb[d][s].events, TakeIn(d, s, e)
        PROVE  /\ absorb'[d][s].taken = Fresh(d, s)
               /\ absorb'[d][s].stage # "mark"
    BY <2>2, AbsorbFields
  <2>3. ASSUME NEW e \in absorb[d][s].events, StoreTaken(d, s, e)
        PROVE  /\ absorb'[d][s].taken \subseteq absorb[d][s].taken
               /\ absorb'[d][s].stage # "mark"
    BY <2>3, AbsorbFields
  <2>4. ASSUME StoreLastTaken(d, s) \/ CountTaken(d, s)
        PROVE  /\ absorb'[d][s].taken \subseteq absorb[d][s].taken
               /\ absorb'[d][s].stage = "mark" => absorb'[d][s].known = mark[d]
    BY <2>4, AbsorbFields
  <2> QED BY <1>3, <2>1, <2>2, <2>3, <2>4
<1> QED BY <1>1, <1>2, <1>3, AbsorbParts

\* What an absorb is about to take in beside another that has taken in the
\* same is an overlap.
LEMMA TakenOnceStep ==
  ASSUME TypeOK, TakenHeld, TakenOnce, NEW d \in Device, DeviceStep(d)
  PROVE  TakenOnce'
<1>1. ASSUME NEW c \in Device \ {d}, ~overlapped'[c], NEW s \in Slot, NEW t \in Slot, s # t
      PROVE  absorb'[c][s].taken \cap absorb'[c][t].taken = {}
  BY <1>1, TakenParts, ExcuseStays DEF TakenOnce
<1>2. ASSUME ~overlapped'[d], \A s \in Slot : absorb'[d][s].taken \subseteq absorb[d][s].taken,
             NEW s \in Slot, NEW t \in Slot, s # t
      PROVE  absorb'[d][s].taken \cap absorb'[d][t].taken = {}
  <2>1. absorb[d][s].taken \cap absorb[d][t].taken = {}
    BY <1>2, ExcuseStays DEF TakenOnce
  <2> QED BY <1>2, <2>1
<1>3. ASSUME ~overlapped'[d], NEW s \in Slot, NEW e \in absorb[d][s].events, TakeIn(d, s, e),
             absorb'[d][s].taken = Fresh(d, s),
             \A t \in Slot \ {s} : absorb'[d][t].taken = absorb[d][t].taken
      PROVE  \A r, t \in Slot : r # t => absorb'[d][r].taken \cap absorb'[d][t].taken = {}
  <2>1. ASSUME NEW t \in Slot \ {s} PROVE Fresh(d, s) \cap absorb[d][t].taken = {}
    <3>1. ~(absorb[d][t].stage = "store" /\ absorb[d][t].events \cap Fresh(d, s) # {})
      BY <1>3 DEF TakeIn, TypeOK
    <3>2. absorb[d][t].stage \in Stage
      BY DEF TypeOK, Absorb
    <3>3. TakenHeldAt(d, t)
      BY DEF TakenHeld
    <3> QED BY <3>1, <3>2, <3>3 DEF TakenHeldAt, Fresh, Stage
  <2>2. ~overlapped[d]
    BY <1>3, ExcuseStays
  <2> SUFFICES ASSUME NEW r \in Slot, NEW t \in Slot, r # t
               PROVE  absorb'[d][r].taken \cap absorb'[d][t].taken = {}
    OBVIOUS
  <2>3. CASE r = s
    BY <1>3, <2>1, <2>3
  <2>4. CASE t = s
    BY <1>3, <2>1, <2>4
  <2>5. CASE r # s /\ t # s
    BY <1>3, <2>2, <2>5 DEF TakenOnce
  <2> QED BY <2>3, <2>4, <2>5
<1>4. ASSUME ~overlapped'[d]
      PROVE  \A s, t \in Slot : s # t => absorb'[d][s].taken \cap absorb'[d][t].taken = {}
  BY <1>2, <1>3, <1>4, TakenParts
<1> QED BY <1>1, <1>4 DEF TakenOnce

\* A push that is fired beside an absorb that applies is an overlap, and what an
\* absorb takes in is not in memory, where a push's bytes come from.
LEMMA PushedApartStep ==
  ASSUME IInv, TakenHeld, PushedApart, NEW d \in Device, DeviceStep(d)
  PROVE  PushedApart'
<1>1. TypeOK /\ InMemory /\ OnePush
  BY DEF IInv
<1>2. ASSUME NEW c \in Device \ {d}, ~overlapped'[c], ~lossy'[c], NEW w \in pushes'[c]
      PROVE  /\ w.landed => file'[c] = w.body
             /\ \A s \in Slot : w.body \cap absorb'[c][s].taken = {}
  BY <1>1, <1>2, TakenParts, ExcuseStays DEF PushedApart
<1> DEFINE Mine == \A w \in pushes'[d] :
                     /\ w.landed => file'[d] = w.body
                     /\ \A s \in Slot : w.body \cap absorb'[d][s].taken = {}
<1> SUFFICES ASSUME ~overlapped'[d], ~lossy'[d] PROVE Mine
  BY <1>2 DEF PushedApart
<1>3. ~overlapped[d] /\ ~lossy[d]
  BY <1>1, ExcuseStays
<1>4. \A w \in pushes[d] : /\ w.landed => file[d] = w.body
                           /\ \A s \in Slot : w.body \cap absorb[d][s].taken = {}
                           /\ pushes[d] = {w}
                           /\ w.body \subseteq log[d]
  BY <1>1, <1>3 DEF PushedApart, OnePush, InMemory
<1>5. CASE FirePush(d)
  <2>1. \A s \in Slot : ~Counting(d, s)
    BY <1>1, <1>5 DEF FirePush, TypeOK
  <2>2. ASSUME NEW s \in Slot PROVE absorb[d][s].taken = {}
    <3>1. absorb[d][s].stage \in Stage
      BY <1>1 DEF TypeOK, Absorb
    <3> QED BY <2>1, <3>1 DEF Counting, Stage, TakenHeld, TakenHeldAt
  <2>3. \A w \in pushes'[d] : w \in pushes[d] \/ ~w.landed
    BY <1>1, <1>5 DEF FirePush, TypeOK
  <2>4. UNCHANGED <<absorb, file>>
    BY <1>5 DEF FirePush
  <2> QED BY <1>4, <2>2, <2>3, <2>4
<1>6. ASSUME NEW w \in pushes[d], LandPush(d, w) PROVE Mine
  <2>1. [w EXCEPT !.landed = TRUE].body = w.body
    BY <1>1 DEF TypeOK, Push
  <2>2. \A v \in pushes'[d] : v = [w EXCEPT !.landed = TRUE]
    BY <1>1, <1>4, <1>6 DEF LandPush, TypeOK
  <2>3. file'[d] = w.body /\ UNCHANGED absorb
    BY <1>1, <1>6 DEF LandPush, TypeOK
  <2> QED BY <1>4, <2>1, <2>2, <2>3
<1>7. CASE Crash(d)
  BY <1>1, <1>7 DEF Crash, TypeOK
<1>8. ASSUME NEW s \in Slot, NEW e \in absorb[d][s].events, TakeIn(d, s, e),
             absorb'[d][s].taken = Fresh(d, s),
             \A t \in Slot \ {s} : absorb'[d][t].taken = absorb[d][t].taken
      PROVE  Mine
  <2>1. UNCHANGED <<pushes, file>>
    BY <1>8 DEF TakeIn
  <2>2. \A w \in pushes[d] : w.body \cap Fresh(d, s) = {}
    BY <1>4 DEF Fresh
  <2> QED BY <1>4, <1>8, <2>1, <2>2
<1>9. ASSUME \A s \in Slot : absorb'[d][s].taken \subseteq absorb[d][s].taken,
             pushes'[d] \subseteq pushes[d], file'[d] = file[d]
      PROVE  Mine
  BY <1>4, <1>9
<1>10. \/ FirePush(d) \/ (\E w \in pushes[d] : LandPush(d, w)) \/ Crash(d)
       \/ pushes'[d] \subseteq pushes[d] /\ file'[d] = file[d]
  <2>1. ASSUME Track(d) \/ Open(d) \/ \E e \in writing[d] : StoreOwn(d, e) \/ FailOwn(d, e)
        PROVE  UNCHANGED <<pushes, file>>
    BY <2>1 DEF Track, Open, StoreOwn, FailOwn
  <2>2. ASSUME NEW w \in pushes[d], RecordPush(d, w) \/ FailPush(d, w)
        PROVE  pushes'[d] \subseteq pushes[d] /\ file'[d] = file[d]
    BY <1>1, <2>2 DEF RecordPush, FailPush, TypeOK
  <2>3. ASSUME NEW p \in Device, WatchRound(d, p) \/ PullFile(d, p)
        PROVE  UNCHANGED <<pushes, file>>
    BY <2>3 DEF WatchRound, PullFile
  <2>4. ASSUME NEW s \in Slot,
               \/ NothingNew(d, s) \/ StoreLastTaken(d, s) \/ CountTaken(d, s)
               \/ MarkTaken(d, s) \/ FailAbsorb(d, s)
        PROVE  UNCHANGED <<pushes, file>>
    BY <2>4 DEF NothingNew, StoreLastTaken, CountTaken, MarkTaken, FailAbsorb
  <2>5. ASSUME NEW s \in Slot, NEW e \in absorb[d][s].events,
               TakeIn(d, s, e) \/ StoreTaken(d, s, e)
        PROVE  UNCHANGED <<pushes, file>>
    BY <2>5 DEF TakeIn, StoreTaken
  <2> QED BY <2>1, <2>2, <2>3, <2>4, <2>5 DEF DeviceStep, PushStep, AbsorbStep
<1> HIDE DEF Mine
<1> QED BY <1>1, <1>5, <1>6, <1>7, <1>8, <1>9, <1>10, TakenParts

\* Of two sets of decisions, the larger counts no less.
LEMMA CountGrows ==
  ASSUME NEW T \in SUBSET Decision, NEW S \in SUBSET T
  PROVE  /\ Cardinality(S) \in Nat /\ Cardinality(T) \in Nat
         /\ Cardinality(S) <= Cardinality(T)
<1>1. IsFiniteSet(T) /\ IsFiniteSet(S)
  BY DecisionFinite, FS_Subset
<1> QED BY <1>1, FS_Subset, FS_CardinalityType

\* Of two that share nothing, the counts add up.
LEMMA CountsAdd ==
  ASSUME NEW S \in SUBSET Decision, NEW T \in SUBSET Decision, S \cap T = {}
  PROVE  Cardinality(S \cup T) = Cardinality(S) + Cardinality(T)
<1>1. IsFiniteSet(S) /\ IsFiniteSet(T)
  BY DecisionFinite, FS_Subset
<1>2. Cardinality(S \cup T) = Cardinality(S) + Cardinality(T) - Cardinality(S \cap T)
  BY <1>1, FS_Union, Zenon
<1>3. Cardinality(S \cap T) = 0
  BY FS_EmptySet
<1>4. Cardinality(S) \in Nat /\ Cardinality(T) \in Nat
  BY <1>1, FS_CardinalityType
<1> QED BY <1>2, <1>3, <1>4

\* No step takes anything away from what the mark may count.
LEMMA SettledGrows ==
  ASSUME IInv, TakenHeld, NEW d \in Device, DeviceStep(d), NEW c \in Device,
         ~overlapped'[c], ~lossy'[c]
  PROVE  Settled(c) \subseteq Settled(c)'
<1>1. TypeOK /\ Away /\ OnePush
  BY DEF IInv
<1>2. ~overlapped[c] /\ ~lossy[c]
  BY <1>1, ExcuseStays
<1>3. Held[c] \subseteq Held'[c]
  BY <1>1, HeldGrows, LogParts
<1>4. file[c] \subseteq file'[c]
  <2>1. ASSUME NEW w \in pushes[d], LandPush(d, w), c = d
        PROVE  file[c] \subseteq file'[c]
    BY <1>1, <1>2, <2>1 DEF LandPush, OnePush, TypeOK
  <2> QED BY <1>1, <2>1, ExcuseStays, OnlyLandPushWrites
<1>5. ASSUME NEW e \in Settled(c), NEW s \in Slot PROVE e \notin absorb'[c][s].taken
  <2>1. CASE absorb'[c][s].taken \subseteq absorb[c][s].taken
    BY <1>5, <2>1 DEF Settled
  <2>2. ASSUME NEW f \in absorb[c][s].events, TakeIn(c, s, f),
               absorb'[c][s].taken = Fresh(c, s)
        PROVE  e \notin absorb'[c][s].taken
    <3>1. absorb[c][s].stage # "idle"
      BY <2>2 DEF TakeIn
    <3>2. up[c]
      BY <1>1, <3>1 DEF Away, Idle
    <3> QED BY <1>5, <2>2, <3>2 DEF Settled, Held, Fresh
  <2> QED BY <1>1, <2>1, <2>2, TakenParts
<1> QED BY <1>3, <1>4, <1>5 DEF Settled

\* What a device holds is decisions.
LEMMA SettledType ==
  ASSUME TypeOK, NEW d \in Device
  PROVE  Settled(d) \in SUBSET Decision
BY DEF TypeOK, Settled, Held

\* A push that landed counts the file's decisions, every one of them settled.
LEMMA RecordCounts ==
  ASSUME IInv, PushedApart, NEW d \in Device, ~overlapped[d], ~lossy[d],
         NEW w \in pushes[d], RecordPush(d, w)
  PROVE  mark'[d] <= Cardinality(Settled(d)')
<1>1. TypeOK /\ Away /\ InMemory
  BY DEF IInv
<1>2. up[d] /\ w.body \subseteq log[d]
  BY <1>1 DEF Away, InMemory
<1>3. w.landed /\ UNCHANGED <<up, log, disk, file, absorb>>
  BY DEF RecordPush
<1>4. w.body \subseteq Settled(d)
  BY <1>2, <1>3 DEF PushedApart, Settled, Held
<1>5. Settled(d)' = Settled(d)
  BY <1>3 DEF Settled, Held
<1>6. mark'[d] = Cardinality(w.body)
  BY <1>1 DEF RecordPush, PushedCount, TypeOK
<1> QED BY <1>1, <1>4, <1>5, <1>6, SettledType, CountGrows

\* An absorb that settles its mark adds what it took in to what was settled
\* when it read the mark, and that was something else.
LEMMA MarkCounts ==
  ASSUME IInv, TakenHeld, TakenForeign, TakenOnce, Marked,
         NEW d \in Device, ~overlapped[d], ~lossy[d],
         NEW s \in Slot, MarkTaken(d, s)
  PROVE  mark'[d] <= Cardinality(Settled(d)')
<1> DEFINE T == absorb[d][s].taken
           S == Settled(d)
           S1 == Settled(d)'
           k == absorb[d][s].known
<1>1. TypeOK /\ TypeOK' /\ Away
  BY TypeNext DEF IInv, Next, DeviceStep, AbsorbStep
<1>2. absorb[d][s].stage = "mark" /\ UNCHANGED <<up, log, disk, file>>
  BY DEF MarkTaken
<1>3. up[d]
  BY <1>1, <1>2 DEF Away, Idle
<1>4. T \subseteq log[d] /\ T \in SUBSET Decision /\ k \in Nat
  <2>1. TakenHeldAt(d, s) /\ absorb[d][s] \in Absorb
    BY <1>1 DEF TakenHeld, TypeOK
  <2> QED BY <1>2, <2>1 DEF TakenHeldAt, Absorb
<1>5. \A t \in Slot : absorb'[d][t].taken = IF t = s THEN {} ELSE absorb[d][t].taken
  BY <1>1 DEF MarkTaken, TypeOK, Idle
<1>6. T \subseteq S1
  BY <1>2, <1>3, <1>4, <1>5 DEF Settled, Held, TakenForeign, TakenOnce
<1>7. S \subseteq S1
  BY <1>2, <1>5 DEF Settled, Held
<1>8. S \cap T = {}
  BY DEF Settled
<1>9. mark'[d] = k + Cardinality(T)
  BY <1>1 DEF MarkTaken, TypeOK
<1>10. k <= Cardinality(S)
  BY <1>2 DEF Marked
<1>11. S \in SUBSET Decision /\ S1 \in SUBSET Decision
  BY <1>1 DEF TypeOK, Settled, Held
<1> HIDE DEF T, S, S1, k
<1>13. Cardinality(S \cup T) = Cardinality(S) + Cardinality(T)
  BY <1>4, <1>8, <1>11, CountsAdd
<1>14. Cardinality(S \cup T) <= Cardinality(S1)
  BY <1>6, <1>7, <1>11, CountGrows
<1>15. Cardinality(S) \in Nat /\ Cardinality(T) \in Nat /\ Cardinality(S1) \in Nat
  BY <1>4, <1>11, CountsAreNat
<1> QED BY <1>4, <1>9, <1>10, <1>13, <1>14, <1>15 DEF S1

\* A mark is written by a push that landed or an absorb that settles, and what
\* an absorb read of it stays good.
LEMMA MarkedStep ==
  ASSUME MarkInv, NEW d \in Device, DeviceStep(d)
  PROVE  Marked'
<1>1. IInv /\ TypeOK /\ TypeOK'
  BY TypeNext DEF MarkInv, IInv, Next
<1> SUFFICES ASSUME NEW c \in Device, ~overlapped'[c], ~lossy'[c]
             PROVE  /\ mark'[c] <= Cardinality(Settled(c)')
                    /\ \A s \in Slot : absorb'[c][s].stage = "mark" =>
                         absorb'[c][s].known <= Cardinality(Settled(c)')
  BY DEF Marked
<1> DEFINE n == Cardinality(Settled(c))
           n1 == Cardinality(Settled(c)')
<1>2. ~overlapped[c] /\ ~lossy[c]
  BY <1>1, ExcuseStays
<1>3. n \in Nat /\ n1 \in Nat /\ n <= n1
  <2>1. Settled(c) \in SUBSET Decision /\ Settled(c)' \in SUBSET Decision
    BY <1>1 DEF TypeOK, Settled, Held
  <2>2. Settled(c) \subseteq Settled(c)'
    BY <1>1, SettledGrows DEF MarkInv
  <2> QED BY <2>1, <2>2, CountGrows
<1>4. mark[c] <= n /\ \A s \in Slot : absorb[c][s].stage = "mark" => absorb[c][s].known <= n
  BY <1>2 DEF MarkInv, Marked
<1>5. mark[c] \in Nat /\ \A s \in Slot : absorb[c][s].known \in Nat
  BY <1>1 DEF TypeOK, Absorb
<1>6. ASSUME NEW s \in Slot, absorb'[c][s].stage = "mark"
      PROVE  absorb'[c][s] = absorb[c][s] \/ absorb'[c][s].known = mark[c]
  BY <1>1, <1>6, TakenParts DEF MarkInv
<1>7. \A s \in Slot : absorb'[c][s].stage = "mark" => absorb'[c][s].known <= n1
  <2> HIDE DEF n, n1
  <2> QED BY <1>3, <1>4, <1>5, <1>6
<1>8. \/ mark'[c] = mark[c]
      \/ \E w \in pushes[c] : RecordPush(c, w)
      \/ \E s \in Slot : MarkTaken(c, s)
  <2>1. ASSUME \/ Track(d) \/ Open(d) \/ Crash(d) \/ FirePush(d)
               \/ \E e \in writing[d] : StoreOwn(d, e) \/ FailOwn(d, e)
        PROVE  UNCHANGED mark
    BY <2>1 DEF Track, Open, Crash, FirePush, StoreOwn, FailOwn
  <2>2. ASSUME NEW w \in pushes[d], LandPush(d, w) \/ FailPush(d, w)
        PROVE  UNCHANGED mark
    BY <2>2 DEF LandPush, FailPush
  <2>3. ASSUME NEW p \in Device, WatchRound(d, p) \/ PullFile(d, p)
        PROVE  UNCHANGED mark
    BY <2>3 DEF WatchRound, PullFile
  <2>4. ASSUME NEW s \in Slot,
               \/ NothingNew(d, s) \/ StoreLastTaken(d, s) \/ CountTaken(d, s)
               \/ FailAbsorb(d, s)
        PROVE  UNCHANGED mark
    BY <2>4 DEF NothingNew, StoreLastTaken, CountTaken, FailAbsorb
  <2>5. ASSUME NEW s \in Slot, NEW e \in absorb[d][s].events,
               TakeIn(d, s, e) \/ StoreTaken(d, s, e)
        PROVE  UNCHANGED mark
    BY <2>5 DEF TakeIn, StoreTaken
  <2>6. c # d => mark'[c] = mark[c]
    BY <1>1, ExcuseStays
  <2> QED BY <2>1, <2>2, <2>3, <2>4, <2>5, <2>6 DEF DeviceStep, PushStep, AbsorbStep
<1>9. mark'[c] <= n1
  <2>1. CASE mark'[c] = mark[c]
    <3> HIDE DEF n, n1
    <3> QED BY <1>3, <1>4, <1>5, <2>1
  <2>2. CASE \E w \in pushes[c] : RecordPush(c, w)
    BY <1>1, <1>2, <2>2, RecordCounts DEF MarkInv
  <2>3. CASE \E s \in Slot : MarkTaken(c, s)
    BY <1>1, <1>2, <2>3, MarkCounts DEF MarkInv
  <2> QED BY <1>8, <2>1, <2>2, <2>3
<1> QED BY <1>7, <1>9

\* Nothing was decided, taken in or counted yet.
LEMMA MarkInvInit == Init => MarkInv
<1> SUFFICES ASSUME Init PROVE MarkInv
  OBVIOUS
<1>1. IInv
  BY InvInit
<1>2. \A d \in Device : \A s \in Slot :
        /\ absorb[d][s].stage = "idle" /\ absorb[d][s].events = {}
        /\ absorb[d][s].taken = {}
  BY DEF Init, Idle
<1>3. TakenHeld /\ TakenForeign /\ TakenOnce
  BY <1>2 DEF TakenHeld, TakenHeldAt, TakenForeign, TakenOnce
<1>4. OwnKept
  <2>1. ASSUME NEW d \in Device, NEW e \in Decision, e[1] = d, e[2] <= made[d]
        PROVE  FALSE
    <3>1. PICK c \in Device : e \in {c} \X (1 .. MaxDecisions[c])
      BY DEF Decision
    <3>2. e[2] \in 1 .. MaxDecisions[c] /\ MaxDecisions[c] \in Nat /\ made[d] = 0
      BY <3>1, BoundAssumption DEF Init
    <3> QED BY <2>1, <3>2
  <2> QED BY <2>1 DEF OwnKept
<1>5. PushedApart
  BY DEF Init, PushedApart
<1>6. Marked
  <2>1. ASSUME NEW d \in Device PROVE mark[d] <= Cardinality(Settled(d))
    <3>1. Cardinality(Settled(d)) \in Nat /\ mark[d] = 0
      BY <1>1, SettledType, CountsAreNat DEF IInv, Init
    <3> QED BY <3>1
  <2> QED BY <1>2, <2>1 DEF Marked
<1> QED BY <1>1, <1>3, <1>4, <1>5, <1>6 DEF MarkInv

\* The parts of the invariant, put together.
LEMMA MarkInvNext == MarkInv /\ [Next]_vars => MarkInv'
<1> SUFFICES ASSUME MarkInv, [Next]_vars PROVE MarkInv'
  OBVIOUS
<1>1. IInv' /\ IInv /\ TypeOK /\ Away
  BY InvNext DEF MarkInv, IInv
<1>2. CASE UNCHANGED vars
  <2>1. UNCHANGED <<up, made, log, disk, pushes, mark, file, absorb, overlapped, lossy>>
    BY <1>2 DEF vars
  <2>2. TakenHeld' /\ TakenForeign' /\ TakenOnce' /\ PushedApart'
    BY <2>1 DEF MarkInv, TakenHeld, TakenHeldAt, TakenForeign, TakenOnce, PushedApart
  <2>3. Held' = Held
    BY <2>1 DEF Held
  <2>4. OwnKept'
    BY <2>1, <2>3 DEF MarkInv, OwnKept
  <2>5. \A d \in Device : Settled(d)' = Settled(d)
    BY <2>1, <2>3 DEF Settled
  <2>6. Marked'
    BY <2>1, <2>5 DEF MarkInv, Marked
  <2> QED BY <1>1, <2>2, <2>4, <2>6 DEF MarkInv
<1>3. ASSUME NEW d \in Device, DeviceStep(d) PROVE MarkInv'
  BY <1>1, <1>3, TakenHeldStep, OwnKeptStep, TakenForeignStep, TakenOnceStep,
     PushedApartStep, MarkedStep
  DEF MarkInv
<1> QED BY <1>2, <1>3 DEF Next

\* What waits and what is settled are apart in the log, so their counts add up
\* to no more than the log's.
LEMMA MarkedMeans == MarkInv => WaitingNeverUnderstated
<1> SUFFICES ASSUME MarkInv, NEW d \in Device, up[d], ~overlapped[d], ~lossy[d]
             PROVE  Unsynced(d) >= Cardinality(OwnWaiting(d))
  BY DEF WaitingNeverUnderstated
<1> DEFINE S == Settled(d)
           W == OwnWaiting(d)
           L == log[d]
<1>1. TypeOK
  BY DEF MarkInv, IInv
<1>2. S \subseteq L /\ W \subseteq L /\ S \cap W = {} /\ L \in SUBSET Decision
  BY <1>1 DEF Settled, OwnWaiting, Held, TypeOK
<1>3. mark[d] <= Cardinality(S) /\ mark[d] \in Nat
  BY <1>1 DEF MarkInv, Marked, TypeOK
<1>4. Unsynced(d) = Cardinality(L) - mark[d]
  BY DEF Unsynced
<1> HIDE DEF S, W, L
<1>6. Cardinality(S \cup W) = Cardinality(S) + Cardinality(W)
  BY <1>2, CountsAdd
<1>7. Cardinality(S \cup W) <= Cardinality(L) /\ Cardinality(L) \in Nat
  BY <1>2, CountGrows
<1>8. Cardinality(S) \in Nat /\ Cardinality(W) \in Nat
  BY <1>2, CountsAreNat
<1> QED BY <1>3, <1>4, <1>6, <1>7, <1>8 DEF W

\* The footer's count never says fewer decisions wait than really are absent
\* from the device's file, while pushes and absorbs do not overlap and nothing
\* was lost at a restart.
THEOREM WaitingNeverUnderstatedAlways == Spec => []WaitingNeverUnderstated
<1> QED BY MarkInvInit, MarkInvNext, MarkedMeans, PTL DEF Spec
===============================================================================
