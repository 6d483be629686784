----------------------------- MODULE SweepProofs -----------------------------
(* What the sweep guarantees for any agents, clock and number of faults, what *)
(* a clone answers for, for any calls, commits and number of faults, and what *)
(* the other storages answer for, for any paths, calls and number of faults,  *)
(* and what a review carries, for any findings, drafts and decisions.         *)
EXTENDS Sweep, FiniteSetTheorems, WellFoundedInduction, TLAPS

CONSTANTS Task, MaxCommits, MaxFalters
VARIABLES browser, remote, head, origin, index, work, torn, task, commits, falters, ended, beaten, crossed, cut
G == INSTANCE GitClone WITH MaxFaults <- MaxFalters, faults <- falters

CONSTANTS Path, Seeded, Large, PageSize, TreeLimit, MaxWrites, MaxRemovals, MaxCalls
VARIABLES kind, store, call, told, writes, removals, calls, losses
B == INSTANCE Backends WITH MaxFaults <- MaxFalters, faults <- losses

CONSTANTS Pulled, Issue, Mine, Finding, Remark, Label, MaxDrafts, MaxSteps, MaxWords
VARIABLES queue, draft, pulls, findings, own, reading, request, steps, writings, agreed, chosen, reverted
R == INSTANCE Review WITH Pull <- Pulled, Own <- Remark, sent <- request, written <- writings

-----------------------------------------------------------------------------
(* The sweep (Sweep).                                                         *)

\* A draft's folder, and what an agent is doing.
Folder == [by : Agent \cup {"none"}, done : BOOLEAN, head : Nat, at : 0..MaxStamps, age : 0..Stale]
Step == {"idle", "selected", "writing", "drafted", "asking", "posting", "posted", "pruning"}
Doing == [pc : Step, head : Nat, read : Folder]

SweepTypes ==
  /\ rules \in Files
  /\ github \in [open : BOOLEAN, head : Nat, hot : BOOLEAN, moved : 0..MaxStamps]
  /\ posted \in Nat /\ folder \in Folder
  /\ log \in SUBSET Decision /\ device \in SUBSET Decision
  /\ agent \in [Agent -> Doing]
  /\ stamp \in 0..MaxStamps /\ faults \in 0..MaxFaults /\ repeats \in Nat

\* The agents between their check and the post, and those that have posted.
Between == {a \in Agent : agent[a].pc = "posting"}
Done == {a \in Agent : agent[a].pc = "posted"}

\* What is posted or about to be has a reason of its own, but for one, which an
\* agent that is at it, the log or the reader's device answers for.
Answered == Between \cup Done # {} \/ AlreadyPosted(Known)
Budget ==
  /\ IsFiniteSet(Between)
  /\ posted + Cardinality(Between) <= repeats + (IF Answered THEN 1 ELSE 0)

\* What is about to be pruned was answered, while the pull request is open.
Looked == \A a \in Agent :
  agent[a].pc = "pruning" /\ github.open =>
    \E e \in log : e.act \in {"post", "dismiss"} /\ agent[a].read.at <= e.time

SweepInv == SweepTypes /\ Budget /\ Looked

\* The kinds of the fields an agent's step changes.
LEMMA SweepKinds ==
  ASSUME Bounds
  PROVE  /\ Stale \in Nat \ {0} /\ MaxStamps \in Nat /\ MaxFaults \in Nat
         /\ NoFolder \in Folder /\ Idle \in Doing
         /\ Idle.pc = "idle" /\ Idle.head = 0 /\ Idle.read = NoFolder
<1>1. Stale \in Nat \ {0} /\ MaxStamps \in Nat /\ MaxFaults \in Nat
  BY DEF Bounds
<1>2. NoFolder \in Folder
  BY <1>1 DEF NoFolder, Folder
<1>3. Idle \in Doing
  BY <1>2 DEF Idle, Doing, Step
<1>4. Idle.pc = "idle" /\ Idle.head = 0 /\ Idle.read = NoFolder
  BY DEF Idle
<1> QED BY <1>1, <1>2, <1>3, <1>4

\* An agent's record, one field at a time.
LEMMA DoingFields ==
  ASSUME NEW d \in Doing
  PROVE  /\ \A pc \in Step : /\ [d EXCEPT !.pc = pc] \in Doing /\ [d EXCEPT !.pc = pc].pc = pc
                             /\ [d EXCEPT !.pc = pc].head = d.head /\ [d EXCEPT !.pc = pc].read = d.read
         /\ \A h \in Nat : /\ [d EXCEPT !.head = h] \in Doing /\ [d EXCEPT !.head = h].pc = d.pc
                           /\ [d EXCEPT !.head = h].head = h /\ [d EXCEPT !.head = h].read = d.read
         /\ \A f \in Folder : /\ [d EXCEPT !.read = f] \in Doing /\ [d EXCEPT !.read = f].pc = d.pc
                              /\ [d EXCEPT !.read = f].head = d.head /\ [d EXCEPT !.read = f].read = f
BY DEF Doing

\* An agent that becomes something else leaves the others as they are.
LEMMA BecomesOne ==
  ASSUME agent \in [Agent -> Doing], NEW a \in Agent, NEW to \in Doing, Become(a, to)
  PROVE  /\ agent' \in [Agent -> Doing] /\ agent'[a] = to
         /\ \A b \in Agent \ {a} : agent'[b] = agent[b]
BY DEF Become

\* Of a set of moments one is the latest.
LEMMA HasLatest ==
  ASSUME NEW n \in Nat, NEW S \in SUBSET (0..n), S # {}
  PROVE  \E m \in S : \A k \in S : k <= m
<1>1. IsWellFoundedOn(OpToRel(<, Nat), Nat)
  BY NatLessThanWellFounded
<1>2. {n - k : k \in S} \in SUBSET Nat /\ {n - k : k \in S} # {}
  <2>1. \A k \in S : n - k \in Nat
    OBVIOUS
  <2> QED BY <2>1
<1>3. PICK j \in {n - k : k \in S} : \A i \in {n - k : k \in S} : <<i, j>> \notin OpToRel(<, Nat)
  BY <1>1, <1>2, WFMin
<1>4. PICK m \in S : j = n - m
  BY <1>3
<1>5. \A k \in S : n - k \in Nat /\ ~(n - k < j)
  BY <1>2, <1>3 DEF OpToRel
<1> QED BY <1>4, <1>5

\* The newest decision is one of them, and none is later.
LEMMA NewestIs ==
  ASSUME MaxStamps \in Nat, NEW events \in SUBSET Decision, events # {}
  PROVE  Newest(events) \in events /\ \A d \in events : d.time <= Newest(events).time
<1>1. {e.time : e \in events} \in SUBSET (0..MaxStamps) /\ {e.time : e \in events} # {}
  BY DEF Decision
<1>2. PICK t \in {e.time : e \in events} : \A k \in {e.time : e \in events} : k <= t
  BY <1>1, HasLatest
<1>3. \E e \in events : \A d \in events : d.time <= e.time
  BY <1>2
<1> QED BY <1>3 DEF Newest

\* How many are between their check and the post, after one of them moves.
LEMMA BetweenMoves ==
  ASSUME agent \in [Agent -> Doing], NEW a \in Agent, NEW to \in Doing, Become(a, to),
         IsFiniteSet(Between)
  PROVE  /\ IsFiniteSet(Between') /\ Cardinality(Between) \in Nat
         /\ to.pc = "posting" /\ agent[a].pc # "posting" => Cardinality(Between') = Cardinality(Between) + 1
         /\ to.pc # "posting" /\ agent[a].pc = "posting" => Cardinality(Between') = Cardinality(Between) - 1
         /\ to.pc # "posting" /\ agent[a].pc # "posting" => Cardinality(Between') = Cardinality(Between)
         /\ \A b \in Agent \ {a} : b \in (Between \cup Done)' <=> b \in Between \cup Done
         /\ a \in (Between \cup Done)' <=> to.pc \in {"posting", "posted"}
<1>1. /\ agent' \in [Agent -> Doing] /\ agent'[a] = to
      /\ \A b \in Agent \ {a} : agent'[b] = agent[b]
  BY BecomesOne
<1>2. Between' = IF to.pc = "posting" THEN Between \cup {a} ELSE Between \ {a}
  BY <1>1 DEF Between
<1>3. a \in Between <=> agent[a].pc = "posting"
  BY DEF Between
<1>4. Cardinality(Between) \in Nat
  BY FS_CardinalityType
<1>5. /\ IsFiniteSet(Between \cup {a}) /\ IsFiniteSet(Between \ {a})
      /\ Cardinality(Between \cup {a}) = IF a \in Between THEN Cardinality(Between) ELSE Cardinality(Between) + 1
      /\ Cardinality(Between \ {a}) = IF a \in Between THEN Cardinality(Between) - 1 ELSE Cardinality(Between)
  BY FS_AddElement, FS_RemoveElement
<1>6. /\ to.pc = "posting" /\ agent[a].pc # "posting" => Cardinality(Between') = Cardinality(Between) + 1
      /\ to.pc # "posting" /\ agent[a].pc = "posting" => Cardinality(Between') = Cardinality(Between) - 1
      /\ to.pc # "posting" /\ agent[a].pc # "posting" => Cardinality(Between') = Cardinality(Between)
  BY <1>2, <1>3, <1>5, Zenon
<1>7. IsFiniteSet(Between')
  BY <1>2, <1>5, Zenon
<1>8. /\ \A b \in Agent \ {a} : b \in (Between \cup Done)' <=> b \in Between \cup Done
      /\ a \in (Between \cup Done)' <=> to.pc \in {"posting", "posted"}
  BY <1>1 DEF Between, Done
<1> QED BY <1>4, <1>6, <1>7, <1>8, Zenon

HasPost == AlreadyPosted(Known)

\* What an agent's step gives back when it goes on without posting.
Leaves(from, to) ==
  \/ to \notin {"posting", "posted"} /\ from \notin {"posting", "posted"}
  \/ to \notin {"posting", "posted"} /\ from = "posting"
  \/ to \notin {"posting", "posted"} /\ from = "posted" /\ (repeats' = repeats + 1 \/ HasPost')
  \/ to = "posting" /\ from = "asking" /\ (repeats' = repeats + 1 \/ ~Answered)

\* An agent that goes from one step to another without posting anything keeps
\* the budget, as long as it gives back what it leaves.
LEMMA BudgetMoves ==
  ASSUME SweepTypes, Budget, NEW a \in Agent, NEW to \in Doing, Become(a, to),
         UNCHANGED posted, repeats' \in Nat, repeats' >= repeats, HasPost => HasPost', Leaves(agent[a].pc, to.pc)
  PROVE  Budget'
<1> DEFINE p == posted
<1>0. /\ agent \in [Agent -> Doing] /\ repeats \in Nat /\ p \in Nat /\ posted' = p
      /\ IsFiniteSet(Between)
  BY DEF SweepTypes, Budget
<1> DEFINE n == Cardinality(Between)
           m == Cardinality(Between')
<1>1. /\ IsFiniteSet(Between') /\ n \in Nat
      /\ to.pc = "posting" /\ agent[a].pc # "posting" => m = n + 1
      /\ to.pc # "posting" /\ agent[a].pc = "posting" => m = n - 1
      /\ to.pc # "posting" /\ agent[a].pc # "posting" => m = n
      /\ \A b \in Agent \ {a} : b \in (Between \cup Done)' <=> b \in Between \cup Done
      /\ a \in (Between \cup Done)' <=> to.pc \in {"posting", "posted"}
  BY <1>0, BetweenMoves
<1>2. p + n <= repeats + (IF Answered THEN 1 ELSE 0)
  BY DEF Budget
<1>3. a \in Between \cup Done <=> agent[a].pc \in {"posting", "posted"}
  BY DEF Between, Done
<1>4. /\ to.pc \in {"posting", "posted"} => Answered'
      /\ HasPost' => Answered'
      /\ agent[a].pc \notin {"posting", "posted"} /\ Answered => Answered'
  <2>1. Between \cup Done \subseteq Agent
    BY DEF Between, Done
  <2> QED BY <1>1, <1>3, <2>1 DEF Answered, HasPost
<1> DEFINE x == IF Answered THEN 1 ELSE 0
           y == IF Answered' THEN 1 ELSE 0
           r == repeats
           q == repeats'
<1>k. p \in Nat /\ n \in Nat /\ r \in Nat /\ q \in Nat /\ x \in {0, 1} /\ y \in {0, 1} /\ r <= q /\ p + n <= r + x
  BY <1>0, <1>1, <1>2
<1>y. /\ Answered' => y = 1
      /\ ~Answered => x = 0
      /\ (Answered => Answered') => x <= y
  OBVIOUS
<1> HIDE DEF n, m, x, y, r, q
<1>j. \/ m = n /\ x <= y
      \/ m = n - 1
      \/ m = n /\ (q = r + 1 \/ y = 1)
      \/ m = n + 1 /\ y = 1 /\ (q = r + 1 \/ x = 0)
  <2>1. CASE to.pc \notin {"posting", "posted"} /\ agent[a].pc \notin {"posting", "posted"}
    BY <1>1, <1>4, <1>y, <2>1
  <2>2. CASE to.pc \notin {"posting", "posted"} /\ agent[a].pc = "posting"
    BY <1>1, <2>2
  <2>3. CASE to.pc \notin {"posting", "posted"} /\ agent[a].pc = "posted" /\ (repeats' = repeats + 1 \/ HasPost')
    BY <1>1, <1>4, <1>y, <2>3 DEF q, r
  <2>4. CASE to.pc = "posting" /\ agent[a].pc = "asking" /\ (repeats' = repeats + 1 \/ ~Answered)
    BY <1>1, <1>4, <1>y, <2>4 DEF q, r
  <2> QED BY <2>1, <2>2, <2>3, <2>4 DEF Leaves
<1> HIDE DEF p
<1>l. p + m <= q + y
  BY <1>k, <1>j
<1>5. p + m <= repeats' + (IF Answered' THEN 1 ELSE 0)
  BY <1>l DEF q, y
<1>6. posted' + Cardinality(Between') <= repeats' + (IF Answered' THEN 1 ELSE 0)
  BY <1>0, <1>5 DEF m
<1> QED BY <1>1, <1>6 DEF Budget

\* A step of one agent that posts nothing keeps what it must.
LEMMA AgentKeeps ==
  ASSUME SweepInv, NEW a \in Agent, NEW to \in Doing, Become(a, to),
         UNCHANGED <<rules, github, posted, device>>,
         folder' \in Folder, log' \in SUBSET Decision, log \subseteq log',
         stamp' \in 0..MaxStamps, faults' \in 0..MaxFaults, repeats' \in Nat, repeats' >= repeats,
         \/ to.pc \notin {"posting", "posted"} /\ agent[a].pc \notin {"posting", "posted"}
         \/ to.pc \notin {"posting", "posted"} /\ agent[a].pc = "posting"
         \/ to.pc \notin {"posting", "posted"} /\ agent[a].pc = "posted"
              /\ (repeats' = repeats + 1 \/ AlreadyPosted(Known)')
         \/ to.pc = "posting" /\ agent[a].pc = "asking"
              /\ (repeats' = repeats + 1 \/ ~Answered),
         to.pc = "pruning" /\ github.open =>
           \E e \in log : e.act \in {"post", "dismiss"} /\ to.read.at <= e.time
  PROVE  SweepInv'
<1>0. SweepTypes /\ Budget /\ Looked /\ agent \in [Agent -> Doing]
  BY DEF SweepInv, SweepTypes
<1>1. /\ agent' \in [Agent -> Doing] /\ agent'[a] = to
      /\ \A b \in Agent \ {a} : agent'[b] = agent[b]
  BY <1>0, BecomesOne
<1>2. SweepTypes'
  BY <1>0, <1>1 DEF SweepTypes, Folder, Doing
<1>3. AlreadyPosted(Known) => AlreadyPosted(Known)'
  BY DEF AlreadyPosted, Known
<1>4. Budget'
  BY <1>0, <1>3, BudgetMoves DEF HasPost, Leaves
<1>5. Looked'
  <2> SUFFICES ASSUME NEW b \in Agent, agent'[b].pc = "pruning", github.open
               PROVE  \E e \in log' : e.act \in {"post", "dismiss"} /\ agent'[b].read.at <= e.time
    BY DEF Looked
  <2>1. CASE b = a
    <3>1. PICK e \in log : e.act \in {"post", "dismiss"} /\ to.read.at <= e.time
      BY <1>1, <2>1
    <3> QED BY <1>1, <2>1, <3>1
  <2>2. CASE b # a
    <3>1. agent'[b] = agent[b]
      BY <1>1, <2>2
    <3>2. PICK e \in log : e.act \in {"post", "dismiss"} /\ agent[b].read.at <= e.time
      BY <1>0, <3>1 DEF Looked
    <3> QED BY <3>1, <3>2
  <2> QED BY <2>1, <2>2
<1> QED BY <1>2, <1>4, <1>5 DEF SweepInv

\* So does one in which no agent moves.
LEMMA OthersKeep ==
  ASSUME SweepInv, UNCHANGED <<rules, posted, agent, faults, repeats>>,
         github' \in [open : BOOLEAN, head : Nat, hot : BOOLEAN, moved : 0..MaxStamps],
         github'.open => github.open,
         folder' \in Folder, log' \in SUBSET Decision, log \subseteq log', device' \in SUBSET Decision,
         Known \subseteq Known', stamp' \in 0..MaxStamps
  PROVE  SweepInv'
<1>0. SweepTypes /\ Budget /\ Looked
  BY DEF SweepInv
<1>1. SweepTypes'
  BY <1>0 DEF SweepTypes, Folder, Doing
<1>2. Between' = Between /\ Done' = Done
  BY DEF Between, Done
<1>3. Answered => Answered'
  BY <1>2 DEF Answered, AlreadyPosted
<1>4. Budget'
  <2> DEFINE n == Cardinality(Between)
  <2>1. n \in Nat /\ Cardinality(Between') = n /\ posted \in Nat /\ repeats \in Nat
    BY <1>0, <1>2, FS_CardinalityType DEF Budget, SweepTypes
  <2>2. posted + n <= repeats + (IF Answered THEN 1 ELSE 0)
    BY <1>0 DEF Budget
  <2> HIDE DEF n
  <2>3. posted + n <= repeats + (IF Answered' THEN 1 ELSE 0)
    BY <1>3, <2>1, <2>2
  <2> QED BY <1>0, <1>2, <2>1, <2>3 DEF Budget
<1>5. Looked'
  BY <1>0 DEF Looked
<1> QED BY <1>1, <1>4, <1>5 DEF SweepInv

\* The post itself: one more review, and one fewer about to be posted.
LEMMA PostKeeps ==
  ASSUME Bounds, SweepInv, NEW a \in Agent, Post(a)
  PROVE  SweepInv'
<1>0. SweepTypes /\ Budget /\ Looked /\ agent \in [Agent -> Doing] /\ IsFiniteSet(Between)
  BY DEF SweepInv, SweepTypes, Budget
<1> DEFINE to == [Idle EXCEPT !.pc = "posted"]
           n == Cardinality(Between)
           m == Cardinality(Between')
<1>1. /\ agent[a].pc = "posting" /\ posted' = posted + 1 /\ Become(a, to)
      /\ UNCHANGED <<rules, github, folder, log, device, stamp, faults, repeats>>
  BY DEF Post
<1>2. to \in Doing /\ to.pc = "posted"
  BY SweepKinds, DoingFields DEF Step
<1> HIDE DEF to
<1>3. /\ agent' \in [Agent -> Doing] /\ agent'[a] = to
      /\ \A b \in Agent \ {a} : agent'[b] = agent[b]
  BY <1>0, <1>1, <1>2, BecomesOne
<1>5. posted' = posted + 1 /\ posted \in Nat
  BY <1>0, <1>1 DEF SweepTypes
<1>6. SweepTypes'
  BY <1>0, <1>1, <1>3, <1>5 DEF SweepTypes, Folder
<1>7. IsFiniteSet(Between') /\ n \in Nat /\ m = n - 1
  BY <1>0, <1>1, <1>2, BetweenMoves
<1>8. Answered'
  <2>1. a \in Done'
    BY <1>2, <1>3 DEF Done
  <2> QED BY <2>1 DEF Answered
<1>9. posted + n <= repeats + 1 /\ repeats \in Nat
  BY <1>0, <1>5, <1>7 DEF Budget, SweepTypes
<1> HIDE DEF n, m
<1>10. posted' + m <= repeats' + 1
  BY <1>1, <1>5, <1>7, <1>9
<1>11. Budget'
  BY <1>7, <1>8, <1>10 DEF Budget, m
<1>12. Looked'
  BY <1>0, <1>1, <1>2, <1>3 DEF Looked
<1> QED BY <1>6, <1>11, <1>12 DEF SweepInv

\* The reader's own post, which the device answers for.
LEMMA ReaderKeeps ==
  ASSUME Bounds, SweepInv, ReaderPosts
  PROVE  SweepInv'
<1>0. SweepTypes /\ Budget /\ Looked /\ IsFiniteSet(Between) /\ MaxStamps \in Nat
  BY SweepKinds DEF SweepInv, Budget
<1> DEFINE n == Cardinality(Between)
<1>1. /\ UNCHANGED <<rules, github, folder, log, agent, faults>>
      /\ stamp + 1 < MaxStamps /\ stamp' = stamp + 2 /\ device' = device \cup PostLines /\ posted' = posted + 1
      /\ repeats' = repeats + (IF AfterCheck # {} \/ AlreadyPosted(Known) THEN 1 ELSE 0)
  BY DEF ReaderPosts
<1>2. stamp \in 0..MaxStamps /\ posted \in Nat /\ repeats \in Nat /\ log \in SUBSET Decision /\ device \in SUBSET Decision
  BY <1>0 DEF SweepTypes
<1>3. stamp' \in 0..MaxStamps /\ stamp + 1 \in 0..MaxStamps /\ stamp + 2 \in 0..MaxStamps
  BY <1>0, <1>1, <1>2
<1>4. device' \in SUBSET Decision
  BY <1>1, <1>2, <1>3 DEF PostLines, Decision
<1>5. posted' \in Nat /\ repeats' \in Nat
  BY <1>1, <1>2
<1>6. SweepTypes'
  BY <1>0, <1>1, <1>3, <1>4, <1>5 DEF SweepTypes, Folder, Doing
<1>7. Between' = Between /\ Done' = Done
  BY <1>1 DEF Between, Done
<1>8. Answered'
  <2>1. [act |-> "post", time |-> stamp + 1] \in Known'
    BY <1>1 DEF PostLines, Known
  <2> QED BY <2>1 DEF Answered, AlreadyPosted
<1>9. Answered => AfterCheck # {} \/ AlreadyPosted(Known)
  BY DEF Answered, Between, Done, AfterCheck
<1>10. n \in Nat /\ posted + n <= repeats + (IF Answered THEN 1 ELSE 0)
  BY <1>0, FS_CardinalityType DEF Budget
<1> HIDE DEF n
<1>11. Answered => repeats' = repeats + 1
  BY <1>1, <1>9
<1>12. repeats' >= repeats
  BY <1>1, <1>2
<1>13. posted' + n <= repeats' + 1
  BY <1>1, <1>2, <1>5, <1>10, <1>11, <1>12
<1>14. Budget'
  BY <1>0, <1>7, <1>8, <1>13 DEF Budget, n
<1>15. Looked'
  BY <1>0, <1>1 DEF Looked
<1> QED BY <1>6, <1>14, <1>15 DEF SweepInv

\* Whatever an agent, the reader or GitHub does.
LEMMA SweepInvStep ==
  ASSUME Bounds, SweepInv, Next
  PROVE  SweepInv'
<1>0. /\ SweepTypes /\ agent \in [Agent -> Doing] /\ folder \in Folder
      /\ github \in [open : BOOLEAN, head : Nat, hot : BOOLEAN, moved : 0..MaxStamps]
      /\ log \in SUBSET Decision /\ device \in SUBSET Decision
      /\ stamp \in 0..MaxStamps /\ faults \in 0..MaxFaults /\ repeats \in Nat
      /\ Stale \in Nat \ {0} /\ MaxStamps \in Nat /\ MaxFaults \in Nat
      /\ github.head \in Nat
  BY SweepKinds DEF SweepInv, SweepTypes
<1>i. Idle \in Doing /\ Idle.pc = "idle" /\ NoFolder \in Folder
  BY SweepKinds
<1>1. ASSUME NEW a \in Agent, Select(a) PROVE SweepInv'
  <2> DEFINE to == [agent[a] EXCEPT !.pc = "selected"]
  <2>1. to \in Doing /\ to.pc = "selected" /\ agent[a].pc = "idle" /\ Become(a, to)
    BY <1>0, <1>1, DoingFields DEF Select, Go, Step
  <2> HIDE DEF to
  <2>2. UNCHANGED <<rules, github, posted, folder, log, device, stamp, faults, repeats>>
    BY <1>1 DEF Select
  <2> QED BY <1>0, <2>1, <2>2, AgentKeeps
<1>2. ASSUME NEW a \in Agent, Claim(a) PROVE SweepInv'
  <2>1. /\ UNCHANGED <<rules, github, posted, log, device, faults, repeats>>
        /\ agent[a].pc = "selected"
    BY <1>2 DEF Claim
  <2>2. CASE /\ stamp < MaxStamps /\ stamp' = stamp + 1
             /\ folder' = [by |-> a, done |-> FALSE, head |-> github.head, at |-> stamp + 1, age |-> 0]
             /\ Become(a, [Idle EXCEPT !.pc = "writing", !.head = github.head])
    <3> DEFINE one == [Idle EXCEPT !.pc = "writing"]
               to == [one EXCEPT !.head = github.head]
    <3>1. one \in Doing /\ one.pc = "writing"
      BY <1>i, DoingFields DEF Step
    <3> HIDE DEF one
    <3>2. to \in Doing /\ to.pc = "writing"
      BY <1>0, <3>1, DoingFields
    <3>3. Become(a, to)
      BY <2>2 DEF one
    <3> HIDE DEF to
    <3>4. folder' \in Folder /\ stamp' \in 0..MaxStamps
      BY <1>0, <2>2 DEF Folder
    <3>5. repeats' >= repeats /\ log \subseteq log' /\ log' \in SUBSET Decision
      BY <1>0, <2>1
    <3> QED BY <1>0, <2>1, <3>2, <3>3, <3>4, <3>5, AgentKeeps
  <2>3. CASE Become(a, Idle) /\ UNCHANGED <<stamp, folder>>
    BY <1>0, <1>i, <2>1, <2>3, AgentKeeps
  <2> QED BY <1>2, <2>2, <2>3 DEF Claim
<1>3. ASSUME NEW a \in Agent, Finish(a) PROVE SweepInv'
  <2> DEFINE to == [Idle EXCEPT !.pc = "drafted"]
  <2>1. to \in Doing /\ to.pc = "drafted"
    BY <1>i, DoingFields DEF Step
  <2>2. /\ Become(a, to) /\ UNCHANGED <<rules, github, posted, log, device, faults, repeats>>
        /\ agent[a].pc = "writing" /\ stamp < MaxStamps /\ stamp' = stamp + 1
        /\ folder' = [by |-> a, done |-> TRUE, head |-> agent[a].head, at |-> stamp + 1, age |-> 0]
    BY <1>3 DEF Finish
  <2> HIDE DEF to
  <2>3. agent[a].head \in Nat
    BY <1>0 DEF Doing
  <2>4. folder' \in Folder /\ stamp' \in 0..MaxStamps
    BY <1>0, <2>2, <2>3 DEF Folder
  <2>5. repeats' >= repeats /\ repeats' \in Nat /\ log \subseteq log' /\ log' \in SUBSET Decision
        /\ faults' \in 0..MaxFaults
    BY <1>0, <2>2
  <2>6. to.pc \notin {"posting", "posted", "pruning"} /\ agent[a].pc \notin {"posting", "posted"}
    BY <2>1, <2>2
  <2> QED BY <2>1, <2>2, <2>4, <2>5, <2>6, AgentKeeps
<1>4. ASSUME NEW a \in Agent, ReadDraft(a) PROVE SweepInv'
  <2>1. /\ UNCHANGED <<rules, github, posted, folder, log, device, stamp, faults, repeats>>
        /\ agent[a].pc = "drafted"
    BY <1>4 DEF ReadDraft
  <2>2. CASE Become(a, [Idle EXCEPT !.pc = "asking", !.read = folder])
    <3> DEFINE one == [Idle EXCEPT !.pc = "asking"]
               to == [one EXCEPT !.read = folder]
    <3>1. one \in Doing /\ one.pc = "asking"
      BY <1>i, DoingFields DEF Step
    <3> HIDE DEF one
    <3>2. to \in Doing /\ to.pc = "asking"
      BY <1>0, <3>1, DoingFields
    <3>3. Become(a, to)
      BY <2>2 DEF one
    <3> HIDE DEF to
    <3> QED BY <1>0, <2>1, <3>2, <3>3, AgentKeeps
  <2>3. CASE Become(a, Idle)
    BY <1>0, <1>i, <2>1, <2>3, AgentKeeps
  <2> QED BY <1>4, <2>2, <2>3 DEF ReadDraft
<1>5. ASSUME NEW a \in Agent, Check(a) PROVE SweepInv'
  <2>1. /\ UNCHANGED <<rules, github, posted, folder, log, device, stamp, faults>>
        /\ agent[a].pc = "asking"
    BY <1>5 DEF Check
  <2>2. CASE MayPost(agent[a].read)
    <3> DEFINE one == [agent[a] EXCEPT !.pc = "posting"]
               to == [one EXCEPT !.head = github.head]
               others == AfterCheck # {} \/ AlreadyPosted(device)
    <3>1. one \in Doing /\ one.pc = "posting"
      BY <1>0, DoingFields DEF Step
    <3>2. Become(a, to) /\ repeats' = repeats + (IF others THEN 1 ELSE 0)
      BY <1>5, <2>2 DEF Check
    <3> HIDE DEF one
    <3>3. to \in Doing /\ to.pc = "posting"
      BY <1>0, <3>1, DoingFields
    <3> HIDE DEF to
    <3>4. ~others => ~Answered
      <4>1. ~AlreadyPosted(log)
        BY <2>2 DEF MayPost
      <4>2. AlreadyPosted(Known) => AlreadyPosted(log) \/ AlreadyPosted(device)
        BY DEF AlreadyPosted, Known
      <4>3. Between \cup Done # {} => AfterCheck # {}
        BY DEF Between, Done, AfterCheck
      <4> QED BY <4>1, <4>2, <4>3 DEF Answered
    <3> HIDE DEF others
    <3>5. repeats' \in Nat /\ repeats' >= repeats /\ (repeats' = repeats + 1 \/ ~Answered)
      BY <1>0, <3>2, <3>4
    <3> QED BY <1>0, <2>1, <3>2, <3>3, <3>5, AgentKeeps
  <2>3. CASE ~MayPost(agent[a].read)
    <3>1. Become(a, Idle) /\ repeats' = repeats
      BY <1>0, <1>5, <2>3 DEF Check
    <3> QED BY <1>0, <1>i, <2>1, <3>1, AgentKeeps
  <2> QED BY <2>2, <2>3
<1>6. ASSUME NEW a \in Agent, Post(a) PROVE SweepInv'
  BY <1>6, PostKeeps
<1>7. ASSUME NEW a \in Agent, Record(a) PROVE SweepInv'
  <2>1. /\ UNCHANGED <<rules, github, posted, folder, device, faults, repeats>>
        /\ agent[a].pc = "posted" /\ Become(a, Idle)
        /\ stamp + 1 < MaxStamps /\ stamp' = stamp + 2
        /\ log' = log \cup {[act |-> "post", time |-> stamp + 1], [act |-> "dismiss", time |-> stamp + 2]}
    BY <1>7 DEF Record, PostLines
  <2>2. stamp' \in 0..MaxStamps /\ stamp + 1 \in 0..MaxStamps /\ stamp + 2 \in 0..MaxStamps
    BY <1>0, <2>1
  <2>3. log' \in SUBSET Decision /\ log \subseteq log'
    BY <1>0, <2>1, <2>2 DEF Decision
  <2>4. AlreadyPosted(Known)'
    <3>1. [act |-> "post", time |-> stamp + 1] \in log'
      BY <2>1
    <3> QED BY <3>1 DEF AlreadyPosted, Known
  <2>5. repeats' >= repeats /\ repeats' \in Nat /\ folder' \in Folder /\ faults' \in 0..MaxFaults
    BY <1>0, <2>1
  <2>6. Idle.pc \notin {"posting", "posted", "pruning"}
    BY <1>i
  <2> HIDE DEF Idle
  <2> QED BY <1>0, <1>i, <2>1, <2>2, <2>3, <2>4, <2>5, <2>6, AgentKeeps
<1>8. ASSUME NEW a \in Agent, RecordFails(a) PROVE SweepInv'
  <2>1. /\ UNCHANGED <<rules, github, posted, folder, log, device, stamp>>
        /\ agent[a].pc = "posted" /\ Become(a, Idle)
        /\ faults < MaxFaults /\ faults' = faults + 1 /\ repeats' = repeats + 1
    BY <1>8 DEF RecordFails
  <2>2. faults' \in 0..MaxFaults /\ repeats' \in Nat /\ repeats' >= repeats
    BY <1>0, <2>1
  <2> QED BY <1>0, <1>i, <2>1, <2>2, AgentKeeps
<1>9. ASSUME NEW a \in Agent, LookToPrune(a) \/ LookSettled(a) PROVE SweepInv'
  <2> DEFINE one == [Idle EXCEPT !.pc = "pruning"]
             to == [one EXCEPT !.read = folder]
  <2>1. one \in Doing /\ one.pc = "pruning"
    BY <1>i, DoingFields DEF Step
  <2>2. /\ UNCHANGED <<rules, github, posted, folder, log, device, stamp, faults, repeats>>
        /\ agent[a].pc = "idle" /\ Become(a, to)
    BY <1>9 DEF LookToPrune, LookSettled
  <2> HIDE DEF one
  <2>3. to \in Doing /\ to.pc = "pruning" /\ to.read = folder
    BY <1>0, <2>1, DoingFields
  <2> HIDE DEF to
  <2>4. ASSUME github.open PROVE \E e \in log : e.act \in {"post", "dismiss"} /\ folder.at <= e.time
    <3>1. log # {} /\ Newest(log).act \in {"post", "dismiss"} /\ ~(folder.at > Newest(log).time)
      BY <1>9, <2>4 DEF LookToPrune, LookSettled, Prunable, Resolved, DraftedAfter
    <3>2. Newest(log) \in log
      BY <1>0, <3>1, NewestIs
    <3>3. folder.at \in Nat /\ Newest(log).time \in Nat
      BY <1>0, <3>2 DEF Folder, Decision
    <3> QED BY <3>1, <3>2, <3>3
  <2> QED BY <1>0, <2>2, <2>3, <2>4, AgentKeeps
<1>10. ASSUME NEW a \in Agent, Remove(a) PROVE SweepInv'
  <2>1. /\ UNCHANGED <<rules, github, posted, log, device, stamp, faults, repeats>>
        /\ agent[a].pc = "pruning" /\ Become(a, Idle) /\ folder' = NoFolder
    BY <1>10 DEF Remove
  <2> QED BY <1>0, <1>i, <2>1, AgentKeeps
<1>11. ASSUME NEW a \in Agent, Die(a) PROVE SweepInv'
  <2>1. /\ UNCHANGED <<rules, github, posted, folder, log, device, stamp>>
        /\ Become(a, Idle) /\ faults < MaxFaults /\ faults' = faults + 1
        /\ repeats' = repeats + (IF agent[a].pc = "posted" THEN 1 ELSE 0)
    BY <1>11 DEF Die
  <2>2. /\ faults' \in 0..MaxFaults /\ repeats' \in Nat /\ repeats' >= repeats
        /\ agent[a].pc = "posted" => repeats' = repeats + 1
    BY <1>0, <2>1
  <2> QED BY <1>0, <1>i, <2>1, <2>2, AgentKeeps
<1>12. ASSUME NEW acts \in SUBSET {"dismiss", "restore"}, Decide(acts) PROVE SweepInv'
  <2>1. /\ UNCHANGED <<rules, github, posted, folder, log, agent, faults, repeats>>
        /\ stamp < MaxStamps /\ stamp' = stamp + 1
        /\ device' = device \cup {[act |-> act, time |-> stamp + 1] : act \in acts}
    BY <1>12 DEF Decide
  <2>2. stamp' \in 0..MaxStamps /\ stamp + 1 \in 0..MaxStamps
    BY <1>0, <2>1
  <2>3. device' \in SUBSET Decision
    BY <1>0, <2>1, <2>2 DEF Decision
  <2>4. Known \subseteq Known'
    BY <2>1 DEF Known
  <2> QED BY <1>0, <2>1, <2>2, <2>3, <2>4, OthersKeep
<1>13. CASE Dismiss \/ Restore
  <2>1. Decide({"dismiss"}) \/ Decide({"restore"})
    BY <1>13 DEF Dismiss, Restore
  <2> QED BY <1>12, <2>1
<1>14. CASE Push
  <2>1. /\ UNCHANGED <<rules, github, posted, folder, agent, stamp, faults, repeats>>
        /\ log' = log \cup device /\ device' = {}
    BY <1>14 DEF Push
  <2>2. Known \subseteq Known'
    BY <2>1 DEF Known
  <2> QED BY <1>0, <2>1, <2>2, OthersKeep
<1>15. CASE Moves
  <2>1. /\ UNCHANGED <<rules, posted, folder, log, device, agent, faults, repeats>>
        /\ github.open /\ stamp < MaxStamps /\ stamp' = stamp + 1
    BY <1>15 DEF Moves
  <2>2. stamp' \in 0..MaxStamps /\ stamp + 1 \in 0..MaxStamps /\ github.head + 1 \in Nat
    BY <1>0, <2>1
  <2>3. github' \in [open : BOOLEAN, head : Nat, hot : BOOLEAN, moved : 0..MaxStamps]
    <3> DEFINE Pull == [open : BOOLEAN, head : Nat, hot : BOOLEAN, moved : 0..MaxStamps]
    <3>1. /\ \A h \in Nat : [github EXCEPT !.head = h] \in Pull
          /\ \A h \in BOOLEAN : [github EXCEPT !.hot = h] \in Pull
          /\ \A h \in BOOLEAN : [github EXCEPT !.open = h] \in Pull
      BY <1>0
    <3>2. \A g \in Pull : [g EXCEPT !.moved = stamp + 1] \in Pull
      BY <2>2
    <3>3. (~github.hot) \in BOOLEAN
      BY Zenon
    <3>4. CASE github' = [github EXCEPT !.head = @ + 1, !.moved = stamp + 1]
      <4> DEFINE g == [github EXCEPT !.head = github.head + 1]
      <4>1. g \in Pull
        BY <2>2, <3>1
      <4>2. github' = [g EXCEPT !.moved = stamp + 1]
        BY <3>4
      <4> HIDE DEF g
      <4> QED BY <3>2, <4>1, <4>2
    <3>5. CASE github' = [github EXCEPT !.hot = ~@, !.moved = stamp + 1]
      <4> DEFINE g == [github EXCEPT !.hot = ~github.hot]
      <4>1. g \in Pull
        BY <3>1, <3>3
      <4>2. github' = [g EXCEPT !.moved = stamp + 1]
        BY <3>5
      <4> HIDE DEF g
      <4> QED BY <3>2, <4>1, <4>2
    <3>6. CASE github' = [github EXCEPT !.open = FALSE, !.moved = stamp + 1]
      <4> DEFINE g == [github EXCEPT !.open = FALSE]
      <4>1. g \in Pull
        BY <3>1
      <4>2. github' = [g EXCEPT !.moved = stamp + 1]
        BY <3>6
      <4> HIDE DEF g
      <4> QED BY <3>2, <4>1, <4>2
    <3> QED BY <1>15, <3>4, <3>5, <3>6 DEF Moves
  <2>4. Known \subseteq Known'
    BY <2>1 DEF Known
  <2> QED BY <1>0, <2>1, <2>2, <2>3, <2>4, OthersKeep
<1>16. CASE Age
  <2>1. /\ UNCHANGED <<rules, github, posted, log, device, agent, stamp, faults, repeats>>
        /\ folder' = [folder EXCEPT !.age = @ + 1] /\ State(folder) = "live"
    BY <1>16 DEF Age
  <2>2. folder.age < Stale
    BY <2>1 DEF State
  <2>3. folder' \in Folder
    BY <1>0, <2>1, <2>2 DEF Folder
  <2>4. Known \subseteq Known'
    BY <2>1 DEF Known
  <2> QED BY <1>0, <2>1, <2>3, <2>4, OthersKeep
<1>17. CASE ReaderPosts
  BY <1>17, ReaderKeeps
<1> QED BY <1>1, <1>2, <1>3, <1>4, <1>5, <1>6, <1>7, <1>8, <1>9, <1>10, <1>11, <1>13, <1>14, <1>15, <1>16, <1>17
        DEF Next, Work

\* Nothing was claimed, posted or decided.
LEMMA SweepInvInit ==
  ASSUME Bounds, Init
  PROVE  SweepInv
<1>0. Stale \in Nat \ {0} /\ MaxStamps \in Nat /\ MaxFaults \in Nat /\ NoFolder \in Folder /\ Idle \in Doing /\ Idle.pc = "idle"
  BY SweepKinds
<1>1. agent \in [Agent -> Doing] /\ \A a \in Agent : agent[a].pc = "idle"
  BY <1>0 DEF Init
<1>2. github \in [open : BOOLEAN, head : Nat, hot : BOOLEAN, moved : 0..MaxStamps]
  BY <1>0 DEF Init
<1>3. posted = 0
  BY DEF Init
<1>4. stamp \in 0..MaxStamps /\ faults \in 0..MaxFaults /\ repeats \in Nat /\ repeats = 0
  BY <1>0 DEF Init
<1>5. SweepTypes
  BY <1>0, <1>1, <1>2, <1>3, <1>4 DEF SweepTypes, Init
<1>6. Between = {} /\ IsFiniteSet(Between) /\ Cardinality(Between) = 0
  BY <1>1, FS_EmptySet DEF Between
<1>7. Budget
  BY <1>3, <1>4, <1>6 DEF Budget
<1>8. Looked
  BY <1>1 DEF Looked
<1> QED BY <1>5, <1>7, <1>8 DEF SweepInv

\* Nothing moves.
LEMMA SweepInvStutter ==
  ASSUME SweepInv, UNCHANGED vars PROVE SweepInv'
<1>1. /\ UNCHANGED <<rules, posted, agent, faults, repeats>> /\ UNCHANGED <<github, folder, log, device, stamp>>
  BY DEF vars
<1>2. Known \subseteq Known'
  BY <1>1 DEF Known
<1> QED BY <1>1, <1>2, OthersKeep DEF SweepInv, SweepTypes

\* At most one review without a reason of its own.
LEMMA SweepInvMeans ==
  ASSUME SweepInv
  PROVE  TypeOK /\ PostsOnce
<1>1. TypeOK
  BY DEF SweepInv, SweepTypes, TypeOK, Folder
<1>2. PostsOnce
  <2> DEFINE n == Cardinality(Between)
  <2>1. n \in Nat /\ posted \in Nat /\ repeats \in Nat
    BY FS_CardinalityType DEF SweepInv, Budget, SweepTypes
  <2>2. posted + n <= repeats + (IF Answered THEN 1 ELSE 0)
    BY DEF SweepInv, Budget
  <2> HIDE DEF n
  <2> QED BY <2>1, <2>2 DEF PostsOnce
<1> QED BY <1>1, <1>2

\* What is removed for a decision is what the decision was about.
LEMMA PruningLooked ==
  ASSUME SweepInv
  PROVE  PrunesAnswered
BY DEF SweepInv, Looked, PrunesAnswered

\* One review is posted, but for what an agent between its check and its record, a
\* reader's post that has not reached the log, a lost record or a restore excuse,
\* and nothing is pruned that a reader has not answered, for any number of agents,
\* any clock and any number of faults (post.js alreadyPosted, prune-drafts.js
\* draftedAfter).
THEOREM SweepPostsOnce ==
  ASSUME Bounds
  PROVE  Spec => []PostsOnce /\ PruneSparesUnanswered
<1>1. Init => SweepInv
  BY SweepInvInit
<1>2. SweepInv /\ [Next]_vars => SweepInv'
  BY SweepInvStep, SweepInvStutter
<1>3. SweepInv => PostsOnce
  BY SweepInvMeans
<1>4. SweepInv => PrunesAnswered
  BY PruningLooked
<1> QED BY <1>1, <1>2, <1>3, <1>4, PTL DEF Spec, PruneSparesUnanswered
-----------------------------------------------------------------------------
(* A clone and its host (GitClone): what is where.                           *)

Branches == {remote, head, origin}
Of(p) == {remote.tree[p], head.tree[p], origin.tree[p], index[p], work[p]}
Drafts == Of("draft")
Logs == Of("log")

Asks(t, op) == task[t].op = op
Placed(t) == task[t].op \in {"write", "remove"} /\ task[t].pc # "place"
Offers(t) == Placed(t) /\ task[t].pc \notin {"add", "commit"}

\* What this device wrote, and what it removed.
Removing == {task[t].file : t \in {u \in Task : Placed(u) /\ Asks(u, "remove")}}
Removals == {f \in Drafts \cup ended : ~f.there} \cup Removing
Ids(op) == {task[t].id : t \in {u \in Task : Asks(u, op)}}
Wrote == {f.by : f \in Logs} \cup Ids("write")
Removed == {f.by : f \in Removals} \cup Ids("remove")
Own == Wrote \cup Removed

\* The agent's version the draft of the clone stands for, or had removed.
Base == IF head.tree["draft"].there THEN head.tree["draft"].by ELSE head.tree["draft"].over

TreeIs == [G!Path -> G!File]
TypesInv ==
  /\ browser \in BOOLEAN /\ {remote, head, origin} \subseteq G!Branch
  /\ index \in TreeIs /\ work \in TreeIs /\ torn \in BOOLEAN /\ crossed \in BOOLEAN
  /\ task \in [Task -> G!Call] /\ commits \in G!Id
  /\ ended \subseteq G!File

\* Calls.
CallIs(c) ==
  /\ c.pc \in {"add", "commit", "merge", "checkout"} => browser
  /\ c.op = "none" => c.pc = "idle"
  /\ c.op = "poll" => c.pc \in {"fetch", "merge", "checkout"}
  /\ c.op \in {"write", "remove"} => c.pc # "idle"
  /\ c.pc \in {"place", "add", "commit"} => ~c.again
  /\ c.op \in {"write", "remove"} /\ c.pc # "place" => c.file.by = c.id /\ (c.file.there <=> c.op = "write")

TasksInv ==
  /\ \A t, u \in Task : task[t].op = task[u].op /\ task[t].op \notin {"none", "poll"} => t = u
  /\ \A t \in Task : CallIs(task[t])
  /\ torn => browser

\* What a refused offer takes of the host stays taken until someone else commits.
TakenBy(c) ==
  ~c.moved =>
    /\ c.pc = "merge" => remote.has \subseteq head.has \cup origin.has
    /\ c.pc = "checkout" \/ (c.pc = "push" /\ c.again) => G!Ahead(head, remote)

TakenInv == ~beaten /\ \A t \in Task : TakenBy(task[t])

\* Branches hold what they were made from, numbers are never used twice, and what
\* this device made others have from it.
HasInv ==
  /\ \A b \in Branches :
       /\ b.has \subseteq 0..commits
       /\ \A p \in G!Path : b.tree[p].by \in b.has
  /\ origin.has \subseteq remote.has
  /\ Own \subseteq 0..commits
  /\ Wrote \cap Removed = {}
  /\ Own \cap (origin.has \cup remote.has) \subseteq head.has
  /\ \A t \in Task : task[t].pc \in {"place", "add"} =>
       task[t].id \notin head.has /\ \A p \in G!Path : index[p].by # task[t].id

\* The log is this device's: the clone's is the last.
LogInv ==
  /\ \A b \in {remote, origin} :
       /\ b.tree["log"].by <= head.tree["log"].by
       /\ b.tree["log"].by \in head.has
       /\ head.tree["log"].by \in b.has => b.tree["log"].by = head.tree["log"].by
  /\ \A t \in Task : Asks(t, "write") =>
       /\ {head.tree["log"].by, index["log"].by, work["log"].by} \subseteq 0..task[t].id
       /\ task[t].pc = "add" => work["log"] = task[t].file
       /\ task[t].pc = "commit" => index["log"] = task[t].file
       /\ Offers(t) => task[t].file.by <= head.tree["log"].by
  /\ \A f \in ended : f.there => f.by <= remote.tree["log"].by

\* A version of the draft is removed once it was seen, and does not come back.
VersionsInv ==
  /\ \A x, y \in Drafts : x.there /\ y.there /\ x.by = y.by => x = y
  /\ \A x \in Drafts : x.there => x.by \notin Own
  /\ index["draft"].there => index["draft"].by \in head.has
  /\ work["draft"].there => work["draft"].by \in head.has /\ index["draft"].there
  /\ \A t \in Task : Asks(t, "remove") /\ task[t].pc = "add" => ~work["draft"].there

RemovedInv ==
  /\ \A f \in Removals : f.over \in head.has /\ f.over \notin Own
  /\ \A f \in Removals : \A b \in Branches : f.by \in b.has => b.tree["draft"].by # f.over
  /\ \A t \in Task : Offers(t) => task[t].file.by \in head.has
  /\ \A f \in ended : ~f.there => f.by \in remote.has

\* What the clone has of the agent's draft came by what was fetched.
SeenInv ==
  /\ \A b \in {remote, origin} :
       b.tree["draft"].there /\ b.tree["draft"].by \in head.has => Base = b.tree["draft"].by
  /\ remote.tree["draft"].there /\ remote.tree["draft"].by \in head.has => remote.tree["draft"].by \in origin.has
  /\ head.tree["draft"].there => head.tree["draft"].by \in origin.has
  /\ remote.tree["draft"].there /\ remote.tree["draft"].by \in origin.has =>
       origin.tree["draft"] = remote.tree["draft"]
  /\ ~remote.tree["draft"].there =>
       /\ ~head.tree["draft"].there
       /\ origin.tree["draft"].there => origin.tree["draft"].by \in head.has

\* Unless the branch moved under them, index and working copy follow it but for
\* what is about to be committed.
CopiesInv ==
  ~torn =>
    /\ \/ index["draft"] = head.tree["draft"]
       \/ ~index["draft"].there /\ index["draft"].over = Base
    /\ work["draft"].there => work["draft"] = head.tree["draft"]
    /\ \/ index["log"] = head.tree["log"]
       \/ index["log"].by > head.tree["log"].by /\ index["log"].by \notin head.has
    /\ \A t \in Task : Asks(t, "remove") =>
         /\ task[t].pc = "add" => task[t].file.over = Base
         /\ task[t].pc = "commit" => ~index["draft"].there

FilesInv == HasInv /\ LogInv /\ VersionsInv /\ RemovedInv /\ SeenInv /\ CopiesInv
CloneInv == TypesInv /\ TasksInv /\ TakenInv /\ (~crossed => FilesInv)

-----------------------------------------------------------------------------
(* Branches and calls.                                                       *)

\* A commit adds itself, and what its tree holds, to what its branch has.
LEMMA CommittedIs ==
  ASSUME G!Bounds, NEW b \in G!Branch, NEW tree \in TreeIs, NEW id \in G!Id
  PROVE  /\ G!Committed(b, tree, id) \in G!Branch /\ G!Committed(b, tree, id).tree = tree
         /\ G!Committed(b, tree, id).has = b.has \cup {id, tree["log"].by, tree["draft"].by}
<1> DEFINE has == b.has \cup {id} \cup {tree[p].by : p \in G!Path}
<1>1. has = b.has \cup {id, tree["log"].by, tree["draft"].by}
  BY DEF G!Path
<1>2. has \in SUBSET G!Id
  BY DEF G!Branch, TreeIs, G!File, G!Path
<1>3. G!Committed(b, tree, id) = [tree |-> tree, has |-> has]
  BY DEF G!Committed
<1> HIDE DEF has
<1> QED BY <1>1, <1>2, <1>3 DEF G!Branch, TreeIs

\* What a merge gives: the clone's branch, the host's, or both of them.
LEMMA MergedIs ==
  ASSUME G!Bounds, commits \in G!Id, NEW mine \in G!Branch, NEW theirs \in G!Branch,
         G!Parted(mine, theirs) => commits < MaxCommits
  PROVE  /\ G!Merged(mine, theirs) \in G!Branch
         /\ \/ theirs.has \subseteq mine.has /\ G!Merged(mine, theirs) = mine
            \/ mine.has \subseteq theirs.has /\ G!Merged(mine, theirs) = theirs
            \/ /\ G!Merged(mine, theirs).has = mine.has \cup theirs.has \cup {commits + 1}
               /\ G!Parted(mine, theirs)
               /\ \A p \in G!Path :
                    \/ theirs.tree[p].by \in mine.has /\ G!Merged(mine, theirs).tree[p] = mine.tree[p]
                    \/ theirs.tree[p].by \notin mine.has /\ G!Merged(mine, theirs).tree[p] = theirs.tree[p]
<1> DEFINE tree == [p \in G!Path |-> IF theirs.tree[p].by \in mine.has THEN mine.tree[p] ELSE theirs.tree[p]]
           has == mine.has \cup theirs.has \cup {commits + 1}
<1>1. CASE G!Ahead(mine, theirs)
  BY <1>1 DEF G!Ahead, G!Merged
<1>2. CASE ~G!Ahead(mine, theirs) /\ G!Ahead(theirs, mine)
  BY <1>2 DEF G!Ahead, G!Merged
<1>3. CASE G!Parted(mine, theirs)
  <2>1. G!Merged(mine, theirs) = [tree |-> tree, has |-> has]
    BY <1>3 DEF G!Merged, G!Parted
  <2>2. tree \in [G!Path -> G!File]
    BY DEF G!Branch
  <2>3. has \in SUBSET G!Id
    BY <1>3 DEF G!Branch, G!Bounds, G!Id
  <2>4. \A p \in G!Path : tree[p] = IF theirs.tree[p].by \in mine.has THEN mine.tree[p] ELSE theirs.tree[p]
    OBVIOUS
  <2>5. has = mine.has \cup theirs.has \cup {commits + 1}
    OBVIOUS
  <2> HIDE DEF tree, has
  <2> QED BY <1>3, <2>1, <2>2, <2>3, <2>4, <2>5 DEF G!Branch
<1> QED BY <1>1, <1>2, <1>3 DEF G!Parted

\* Setting where one call is leaves the others where they are.
LEMMA Became ==
  ASSUME TypesInv, NEW t \in Task, NEW c \in G!Call, G!Become(t, c)
  PROVE  /\ task' \in [Task -> G!Call] /\ task'[t] = c
         /\ \A u \in Task : u # t => task'[u] = task[u]
BY DEF G!Become, TypesInv

\* A call that is over.
LEMMA IdleIs == G!Bounds => G!Idle \in G!Call /\ G!Idle.op = "none" /\ G!Idle.pc = "idle" /\ ~G!Idle.again /\ ~G!Idle.moved
<1>1. ASSUME G!Bounds PROVE G!Nothing \in G!File
  BY <1>1 DEF G!Nothing, G!File, G!Id, G!Bounds
<1>2. ASSUME G!Bounds PROVE 0 \in G!Id
  BY <1>2 DEF G!Id, G!Bounds
<1>3. G!Idle.op = "none" /\ G!Idle.pc = "idle" /\ G!Idle.again = FALSE /\ G!Idle.moved = FALSE
  BY DEF G!Idle
<1>4. "none" \in G!Op /\ "idle" \in G!Step /\ FALSE \in BOOLEAN
  BY DEF G!Op, G!Step
<1>5. ASSUME G!Bounds PROVE G!Idle \in G!Call
  BY <1>1, <1>2, <1>4, <1>5 DEF G!Idle, G!Call
<1> QED BY <1>3, <1>5

\* A call that is past its commit stays so, or ends, and others are as they were.
Late(pc) == pc \in {"push", "fetch", "merge", "checkout"}
QuietOf(u) ==
  \/ task'[u].op = "none" /\ task'[u].pc = "idle"
  \/ /\ task'[u].op = task[u].op /\ task'[u].id = task[u].id /\ task'[u].file = task[u].file
     /\ task'[u].pc = task[u].pc \/ (Late(task[u].pc) /\ Late(task'[u].pc))
Quiet == \A u \in Task : QuietOf(u)

\* What such a step can only take away from.
LEMMA QuietIs ==
  ASSUME Quiet, TasksInv
  PROVE  /\ Removing' \subseteq Removing
         /\ Ids("write")' \subseteq Ids("write") /\ Ids("remove")' \subseteq Ids("remove")
         /\ \A u \in Task :
              /\ task'[u].pc \in {"place", "add", "commit"} =>
                   task'[u].pc = task[u].pc /\ task'[u].op = task[u].op /\ task'[u].id = task[u].id
              /\ task'[u].op # "none" => task'[u].op = task[u].op /\ task'[u].id = task[u].id /\ task'[u].file = task[u].file
              /\ Placed(u)' => Placed(u) /\ task'[u].file = task[u].file
              /\ Offers(u)' => Offers(u) /\ task'[u].file = task[u].file
<1>1. ASSUME NEW u \in Task
      PROVE  /\ task'[u].pc \in {"place", "add", "commit"} =>
                   task'[u].pc = task[u].pc /\ task'[u].op = task[u].op /\ task'[u].id = task[u].id
             /\ task'[u].op # "none" => task'[u].op = task[u].op /\ task'[u].id = task[u].id /\ task'[u].file = task[u].file
             /\ Placed(u)' => Placed(u) /\ task'[u].file = task[u].file
             /\ Offers(u)' => Offers(u) /\ task'[u].file = task[u].file
  BY DEF Quiet, QuietOf, Placed, Offers, Late
<1> QED BY <1>1 DEF Removing, Ids, Asks

\* As long as branches and copies stay as they are, calls that go on past their
\* commit, or end, change nothing.
LEMMA Steady ==
  ASSUME TypesInv, TasksInv, FilesInv, Quiet, ended' = ended, commits' = commits,
         UNCHANGED <<remote, head, origin, index, work, torn>>
  PROVE  FilesInv'
<1>1. /\ Of("draft")' = Of("draft") /\ Of("log")' = Of("log") /\ Branches' = Branches /\ Base' = Base
  BY DEF Of, Branches, Base
<1>2. /\ Removals' \subseteq Removals /\ Wrote' \subseteq Wrote /\ Removed' \subseteq Removed /\ Own' \subseteq Own
  BY <1>1, QuietIs DEF Removals, Wrote, Removed, Own, Drafts, Logs
<1>3. HasInv'
  BY <1>1, <1>2, QuietIs DEF FilesInv, HasInv
<1>4. LogInv'
  BY <1>1, <1>2, QuietIs DEF FilesInv, LogInv, Asks
<1>0. VersionsInv'
  BY <1>1, <1>2, QuietIs DEF FilesInv, VersionsInv, Drafts, Asks
<1>5. RemovedInv'
  BY <1>1, <1>2, QuietIs DEF FilesInv, RemovedInv, Drafts
<1>6. SeenInv'
  BY <1>1 DEF FilesInv, SeenInv
<1>7. CopiesInv'
  BY <1>1, QuietIs DEF FilesInv, CopiesInv, Asks
<1> QED BY <1>0, <1>3, <1>4, <1>5, <1>6, <1>7 DEF FilesInv

\* The host takes the clone's branch, which has all of its own.
LEMMA Landed ==
  ASSUME TypesInv, TasksInv, FilesInv, Quiet, G!Ahead(head, remote), remote' = head, commits' = commits,
         UNCHANGED <<head, origin, index, work, torn>>,
         \/ ended' = ended
         \/ \E t \in Task : Offers(t) /\ ended' = ended \cup {task[t].file}
  PROVE  FilesInv'
<1>1. /\ Drafts' \subseteq Drafts /\ Logs' \subseteq Logs /\ Branches' \subseteq Branches /\ Base' = Base
  BY DEF Of, Branches, Base, Drafts, Logs
<1>2. \A f \in ended' : f \in ended \/ \E t \in Task : Offers(t) /\ f = task[t].file
  OBVIOUS
<1>3. Removals' \subseteq Removals
  <2>1. \A f \in ended' : ~f.there => f \in ended \/ f \in Removing
    BY <1>2 DEF Removing, Offers, Placed, Asks, TasksInv, CallIs
  <2> QED BY <1>1, <2>1, QuietIs DEF Removals
<1>4. /\ Wrote' \subseteq Wrote /\ Removed' \subseteq Removed /\ Own' \subseteq Own
  BY <1>1, <1>3, QuietIs DEF Wrote, Removed, Own
<1>5. remote.has \subseteq head.has
  BY DEF G!Ahead
<1>6. HasInv'
  BY <1>1, <1>4, <1>5, QuietIs DEF FilesInv, HasInv, Branches
<1>7. LogInv'
  <2>1. \A f \in ended' : f.there => f.by <= head.tree["log"].by
    <3>1. \A f \in ended : f.there => f.by <= head.tree["log"].by
      BY DEF FilesInv, LogInv, TypesInv, G!Branch, G!File, G!Path, G!Id
    <3>2. \A t \in Task : Offers(t) /\ task[t].file.there => task[t].file.by <= head.tree["log"].by
      BY DEF FilesInv, LogInv, Offers, Placed, Asks, TasksInv, CallIs
    <3> QED BY <1>2, <3>1, <3>2
  <2>2. head.tree["log"].by \in head.has /\ head.tree["log"].by <= head.tree["log"].by
    BY DEF FilesInv, HasInv, Branches, G!Path, TypesInv, G!Branch, G!File, G!Id
  <2> QED BY <1>1, <2>1, <2>2, QuietIs DEF FilesInv, LogInv, Asks
<1>0. VersionsInv'
  BY <1>1, <1>4, QuietIs DEF FilesInv, VersionsInv, Asks
<1>8. RemovedInv'
  <2>1. \A f \in ended' : ~f.there => f.by \in head.has
    BY <1>2, <1>5 DEF FilesInv, RemovedInv
  <2> QED BY <1>1, <1>3, <1>4, <2>1, QuietIs DEF FilesInv, RemovedInv, Branches
<1>9. SeenInv'
  <2>1. head.tree["draft"] \in Drafts /\ remote.tree["draft"] \in Drafts
    BY DEF Drafts, Of
  <2>2. remote.tree["draft"].by \in head.has
    BY <1>5 DEF FilesInv, HasInv, Branches, G!Path
  <2>3. head.tree["draft"].there => remote.tree["draft"] = head.tree["draft"]
    BY <2>1, <2>2 DEF FilesInv, SeenInv, VersionsInv, Base
  <2>4. origin.tree["draft"].there => origin.tree["draft"].by \in head.has
    BY <1>5 DEF FilesInv, HasInv, Branches, G!Path
  <2> QED BY <1>1, <2>3, <2>4 DEF FilesInv, SeenInv, Base
<1>10. CopiesInv'
  BY <1>1, QuietIs DEF FilesInv, CopiesInv, Asks
<1> QED BY <1>0, <1>6, <1>7, <1>8, <1>9, <1>10 DEF FilesInv

\* What is fetched is what the host has.
LEMMA FetchedIn ==
  ASSUME TypesInv, TasksInv, FilesInv, Quiet, origin' = remote, ended' = ended, commits' = commits,
         UNCHANGED <<remote, head, index, work, torn>>
  PROVE  FilesInv'
<1>1. /\ Drafts' \subseteq Drafts /\ Logs' \subseteq Logs /\ Branches' \subseteq Branches /\ Base' = Base
  BY DEF Of, Branches, Base, Drafts, Logs
<1>2. /\ Removals' \subseteq Removals
  BY <1>1, QuietIs DEF Removals
<1>3. /\ Wrote' \subseteq Wrote /\ Removed' \subseteq Removed /\ Own' \subseteq Own
  BY <1>1, <1>2, QuietIs DEF Wrote, Removed, Own
<1>4. HasInv'
  BY <1>1, <1>3, QuietIs DEF FilesInv, HasInv, Branches
<1>5. LogInv'
  BY <1>1, QuietIs DEF FilesInv, LogInv, Asks
<1>0. VersionsInv'
  BY <1>1, <1>3, QuietIs DEF FilesInv, VersionsInv, Asks
<1>6. RemovedInv'
  BY <1>1, <1>2, <1>3, QuietIs DEF FilesInv, RemovedInv, Branches
<1>7. SeenInv'
  <2>1. remote.tree["draft"].by \in remote.has
    BY DEF FilesInv, HasInv, Branches, G!Path
  <2>2. head.tree["draft"].there => head.tree["draft"].by \in remote.has
    BY DEF FilesInv, SeenInv, HasInv
  <2> QED BY <1>1, <2>1, <2>2 DEF FilesInv, SeenInv
<1>8. CopiesInv'
  BY <1>1, QuietIs DEF FilesInv, CopiesInv, Asks
<1> QED BY <1>0, <1>4, <1>5, <1>6, <1>7, <1>8 DEF FilesInv

\* A merge takes the agent's newer draft and keeps what this device wrote.
LEMMA MergedIn ==
  ASSUME G!Bounds, TypesInv, TasksInv, FilesInv, Quiet, ended' = ended, remote' = remote,
         origin' \in {origin, remote}, head' = G!Merged(head, origin'),
         G!Parted(head, origin') => commits < MaxCommits,
         commits' = commits + (IF G!Parted(head, origin') THEN 1 ELSE 0),
         \/ index' = index /\ work' = work /\ (torn' \/ (head' = head /\ torn' = torn))
         \/ ~browser /\ index' = head'.tree /\ work' = head'.tree
  PROVE  FilesInv'
<1> DEFINE o == origin'
<1>0. /\ o \in Branches /\ o \in G!Branch /\ head \in G!Branch /\ commits \in Nat /\ commits \in G!Id
  BY DEF Branches, TypesInv, G!Bounds, G!Id
<1>1. /\ head' \in G!Branch
      /\ \/ o.has \subseteq head.has /\ head' = head
         \/ head.has \subseteq o.has /\ head' = o
         \/ /\ head'.has = head.has \cup o.has \cup {commits + 1} /\ commits' = commits + 1
            /\ \A p \in G!Path :
                 \/ o.tree[p].by \in head.has /\ head'.tree[p] = head.tree[p]
                 \/ o.tree[p].by \notin head.has /\ head'.tree[p] = o.tree[p]
  BY <1>0, MergedIs
<1>2. commits' \in {commits, commits + 1}
  BY <1>0
<1> HIDE DEF o
<1>3. /\ head.has \subseteq head'.has /\ o.has \subseteq head'.has
      /\ head'.has \subseteq head.has \cup o.has \cup {commits + 1}
      /\ commits + 1 \in head'.has => commits + 1 \in head.has \cup o.has \/ commits' = commits + 1
  BY <1>1
<1>4. \A p \in G!Path : head'.tree[p] \in {head.tree[p], o.tree[p]}
  BY <1>1
<1>5. \A p \in G!Path : o.tree[p].by \in o.has /\ head.tree[p].by \in head.has
  BY <1>0 DEF FilesInv, HasInv, Branches
<1>6. "log" \in G!Path /\ "draft" \in G!Path
  BY DEF G!Path
<1>7. head'.tree["log"].by = head.tree["log"].by
  BY <1>1, <1>5, <1>6 DEF FilesInv, LogInv, o
<1>8. index' \in {index, head'.tree} /\ work' \in {work, head'.tree}
  OBVIOUS
<1>9. /\ Drafts' \subseteq Drafts /\ Logs' \subseteq Logs
  BY <1>4, <1>6, <1>8 DEF Of, Drafts, Logs, o
<1>10. Removals' \subseteq Removals
  BY <1>9, QuietIs DEF Removals
<1>11. Wrote' \subseteq Wrote /\ Removed' \subseteq Removed /\ Own' \subseteq Own
  BY <1>9, <1>10, QuietIs DEF Wrote, Removed, Own
<1>12. /\ \A x \in Own : x \in 0..commits /\ (x \in o.has => x \in head.has)
       /\ \A x \in Own : x # commits + 1 /\ (x \in head'.has => x \in head.has)
  <2>1. \A x \in Own : x \in 0..commits /\ (x \in o.has => x \in head.has)
    BY DEF FilesInv, HasInv, o
  <2>2. commits + 1 \notin 0..commits
    BY <1>0
  <2> QED BY <1>3, <2>1, <2>2
<1>13. HasInv'
  <2>1. \A b \in Branches' : b = head' \/ b \in Branches
    BY DEF Branches
  <2>2. head'.has \subseteq 0..commits' /\ \A b \in Branches : b.has \subseteq 0..commits'
    <3>1. \A b \in Branches : b.has \subseteq 0..commits
      BY DEF FilesInv, HasInv
    <3>2. 0..commits \subseteq 0..commits'
      BY <1>0, <1>2
    <3>3. commits' = commits + 1 => commits + 1 \in 0..commits'
      BY <1>0
    <3>4. head \in Branches
      BY DEF Branches
    <3> QED BY <1>0, <1>1, <3>1, <3>2, <3>3, <3>4
  <2>3. \A p \in G!Path : head'.tree[p].by \in head'.has
    BY <1>3, <1>4, <1>5
  <2>4. o.has \subseteq remote.has
    BY DEF FilesInv, HasInv, o
  <2>5. Own' \subseteq 0..commits'
    BY <1>0, <1>2, <1>11, <1>12
  <2>6. \A u \in Task : task[u].pc \in {"place", "add"} => task[u].id \in Own
    BY DEF TasksInv, CallIs, Own, Wrote, Removed, Ids, Asks, TypesInv, G!Call, G!Op
  <2>7. \A u \in Task : task[u].pc \in {"place", "add"} =>
          task[u].id \notin head'.has /\ \A p \in G!Path : index'[p].by # task[u].id
    BY <1>8, <1>12, <2>3, <2>6 DEF FilesInv, HasInv
  <2>8. Own' \cap (origin'.has \cup remote'.has) \subseteq head'.has
    BY <1>3, <1>11 DEF FilesInv, HasInv, o
  <2>9. Wrote' \cap Removed' = {}
    BY <1>11 DEF FilesInv, HasInv
  <2>10. \A b \in Branches' : b.has \subseteq 0..commits' /\ \A p \in G!Path : b.tree[p].by \in b.has
    BY <2>1, <2>2, <2>3 DEF FilesInv, HasInv
  <2> QED BY <2>4, <2>5, <2>7, <2>8, <2>9, <2>10, QuietIs DEF HasInv, o
<1>14. LogInv'
  <2>1. \A b \in {remote', origin'} : b \in {remote, origin}
    OBVIOUS
  <2>2. \A b \in {remote', origin'} :
       /\ b.tree["log"].by <= head'.tree["log"].by
       /\ b.tree["log"].by \in head'.has
       /\ head'.tree["log"].by \in b.has => b.tree["log"].by = head'.tree["log"].by
    BY <1>3, <1>7, <2>1 DEF FilesInv, LogInv
  <2>3. index'["log"].by \in {index["log"].by, head.tree["log"].by} /\ work'["log"].by \in {work["log"].by, head.tree["log"].by}
    BY <1>7, <1>8
  <2>4. \A u \in Task : Asks(u, "write") =>
          {head'.tree["log"].by, index'["log"].by, work'["log"].by} \subseteq 0..task[u].id
    BY <1>7, <2>3 DEF FilesInv, LogInv
  <2>5. \A u \in Task : task[u].pc \in {"add", "commit"} => index' = index /\ work' = work
    BY DEF TasksInv, CallIs
  <2> QED BY <1>7, <2>2, <2>4, <2>5, QuietIs DEF FilesInv, LogInv, Asks
<1>15. VersionsInv'
  <2>1. head'.tree["draft"].by \in head'.has
    BY <1>3, <1>4, <1>5, <1>6
  <2>2. (index' = index /\ work' = work) \/ (~browser /\ index' = work')
    OBVIOUS
  <2> QED BY <1>3, <1>8, <1>9, <1>11, <2>1, <2>2, QuietIs DEF FilesInv, VersionsInv, Asks, TasksInv, CallIs
<1>16. RemovedInv'
  <2>1. ASSUME NEW f \in Removals, f.by \in head'.has PROVE head'.tree["draft"].by # f.over
    <3>1. f.by \in Own
      BY DEF Own, Removed
    <3>2. f.by \in head.has
      BY <1>12, <2>1, <3>1
    <3>3. f.over \in head.has
      BY DEF FilesInv, RemovedInv
    <3>4. head.tree["draft"].by # f.over
      BY <3>2 DEF FilesInv, RemovedInv, Branches
    <3>5. f.by \in o.has => o.tree["draft"].by # f.over
      BY <1>0 DEF FilesInv, RemovedInv
    <3> QED BY <1>1, <1>6, <3>2, <3>3, <3>4, <3>5
  <2>2. \A b \in Branches' : b = head' \/ b \in Branches
    BY DEF Branches
  <2> QED BY <1>3, <1>10, <1>11, <2>1, <2>2, QuietIs DEF FilesInv, RemovedInv
<1>17. SeenInv'
  <2> DEFINE hd == head.tree["draft"]
             rd == remote.tree["draft"]
             od == o.tree["draft"]
             nd == head'.tree["draft"]
  <2>1. /\ hd \in Drafts /\ rd \in Drafts /\ od \in Drafts
        /\ hd.by \in head.has /\ rd.by \in remote.has /\ od.by \in o.has /\ rd.by \in 0..commits
    BY <1>6 DEF Drafts, Of, FilesInv, HasInv, Branches, o
  <2>2. rd.by # commits + 1 /\ od.by # commits + 1
    BY <1>0, <2>1 DEF FilesInv, HasInv, Branches, o
  <2>3. rd.there /\ rd.by \in o.has => od = rd
    BY DEF FilesInv, SeenInv, o
  <2>4. rd.there /\ rd.by \in head.has => rd.by \in o.has /\ Base = rd.by
    BY <2>1 DEF FilesInv, SeenInv, o
  <2>5. od.there /\ od.by \in head.has => Base = od.by
    BY DEF FilesInv, SeenInv, o
  <2>6. Base' = IF nd.there THEN nd.by ELSE nd.over
    BY DEF Base
  <2>7. Base = IF hd.there THEN hd.by ELSE hd.over
    BY DEF Base
  <2>8. hd.there => hd.by \in o.has
    BY DEF FilesInv, SeenInv, HasInv, o
  <2>9. \/ o.has \subseteq head.has /\ nd = hd
        \/ head.has \subseteq o.has /\ nd = od
        \/ od.by \in head.has /\ nd = hd
        \/ od.by \notin head.has /\ nd = od
    BY <1>1, <1>6
  <2>10. \/ o.has \subseteq head.has /\ nd = hd
         \/ od.by \in head.has /\ nd = hd
         \/ head.has \subseteq o.has /\ nd = od
         \/ od.by \notin head.has /\ nd = od
    BY <2>9
  <2>11. nd.there => nd.by \in o.has
    BY <2>1, <2>8, <2>9
  <2>12. rd.there /\ rd.by \in head'.has => rd.by \in o.has
    BY <1>3, <2>2, <2>4
  <2>13. od.there => Base' = od.by
    BY <2>1, <2>5, <2>6, <2>7, <2>9
  <2>14. rd.there /\ rd.by \in head'.has => Base' = rd.by
    BY <2>3, <2>12, <2>13
  <2>15. ASSUME ~rd.there PROVE ~nd.there /\ (od.there => od.by \in head'.has)
    <3>1. ~hd.there /\ (od.there => od.by \in head.has)
      BY <2>15 DEF FilesInv, SeenInv, o
    <3>2. hd \in Removals
      BY <2>1, <3>1 DEF Removals
    <3>3. od.there => od.by = hd.over
      BY <2>5, <2>7, <3>1
    <3>4. od.there => hd.by \notin o.has
      BY <1>0, <3>2, <3>3 DEF FilesInv, RemovedInv
    <3>5. od.there => nd = hd
      BY <2>1, <2>9, <3>1, <3>4
    <3>6. nd \in {hd, od}
      BY <2>9
    <3> QED BY <1>3, <3>1, <3>5, <3>6
  <2> HIDE DEF hd, rd, od, nd
  <2>16. /\ \A b \in {remote', origin'} :
              b.tree["draft"].there /\ b.tree["draft"].by \in head'.has => Base' = b.tree["draft"].by
         /\ remote'.tree["draft"] = rd /\ origin'.tree["draft"] = od /\ head'.tree["draft"] = nd
         /\ origin'.has = o.has
    BY <2>13, <2>14 DEF rd, od, nd, o
  <2> QED BY <2>3, <2>11, <2>12, <2>15, <2>16 DEF SeenInv
<1>18. CopiesInv'
  <2>1. CASE index' = index /\ work' = work /\ (torn' \/ (head' = head /\ torn' = torn))
    <3>1. head' = head => Base' = Base
      BY DEF Base
    <3> QED BY <2>1, <3>1, QuietIs DEF FilesInv, CopiesInv, Asks
  <2>2. CASE ~browser /\ index' = head'.tree /\ work' = head'.tree
    <3>1. \A u \in Task : task'[u].pc \notin {"add", "commit"}
      BY <2>2, QuietIs DEF TasksInv, CallIs
    <3> QED BY <2>2, <3>1 DEF CopiesInv
  <2> QED BY <2>1, <2>2
<1> QED BY <1>13, <1>14, <1>15, <1>16, <1>17, <1>18 DEF FilesInv

\* A checkout gives the index and the working copy what the branch holds.
LEMMA CheckedOutIn ==
  ASSUME TypesInv, TasksInv, FilesInv, Quiet, ended' = ended, commits' = commits,
         UNCHANGED <<remote, head, origin>>, torn' = FALSE,
         index' = head.tree, work' = [p \in G!Path |-> G!CheckedOut(p)],
         \A u \in Task : task[u].pc \notin {"add", "commit"}
  PROVE  FilesInv'
<1>1. "log" \in G!Path /\ "draft" \in G!Path
  BY DEF G!Path
<1>2. /\ work'["log"] \in {work["log"], head.tree["log"]}
      /\ work'["draft"] \in {work["draft"], head.tree["draft"]}
      /\ \/ work'["draft"] = head.tree["draft"]
         \/ work'["draft"] = work["draft"] /\ ~index["draft"].there
  BY <1>1 DEF G!CheckedOut
<1>3. /\ Branches' = Branches /\ Base' = Base /\ Drafts' \subseteq Drafts /\ Logs' \subseteq Logs
  BY <1>2 DEF Of, Branches, Base, Drafts, Logs
<1>4. Removals' \subseteq Removals
  BY <1>3, QuietIs DEF Removals
<1>5. Wrote' \subseteq Wrote /\ Removed' \subseteq Removed /\ Own' \subseteq Own
  BY <1>3, <1>4, QuietIs DEF Wrote, Removed, Own
<1>6. \A p \in G!Path : head.tree[p].by \in head.has
  BY DEF FilesInv, HasInv, Branches
<1>7. HasInv'
  BY <1>3, <1>5, <1>6, QuietIs DEF FilesInv, HasInv
<1>8. LogInv'
  <2>1. index'["log"] = head.tree["log"] /\ head'.tree["log"] = head.tree["log"]
    OBVIOUS
  <2>2. \A u \in Task : Asks(u, "write") =>
          {head'.tree["log"].by, index'["log"].by, work'["log"].by} \subseteq 0..task[u].id
    BY <1>2, <2>1 DEF FilesInv, LogInv
  <2> QED BY <2>2, QuietIs DEF FilesInv, LogInv, Asks
<1>9. VersionsInv'
  BY <1>1, <1>2, <1>3, <1>5, <1>6, QuietIs DEF FilesInv, VersionsInv, Asks
<1>10. RemovedInv'
  BY <1>3, <1>4, <1>5, QuietIs DEF FilesInv, RemovedInv
<1>11. SeenInv'
  BY <1>3 DEF FilesInv, SeenInv
<1>12. CopiesInv'
  <2>1. work'["draft"].there => work'["draft"] = head.tree["draft"]
    BY <1>1 DEF G!CheckedOut, FilesInv, VersionsInv
  <2>2. \A u \in Task : task'[u].pc \notin {"add", "commit"}
    BY QuietIs
  <2> QED BY <2>1, <2>2 DEF CopiesInv
<1> QED BY <1>7, <1>8, <1>9, <1>10, <1>11, <1>12 DEF FilesInv

\* The agent writes its draft again.
LEMMA WrittenElsewhere ==
  ASSUME G!Bounds, TypesInv, TasksInv, FilesInv, Quiet, ended' = ended, commits < MaxCommits, commits' = commits + 1,
         UNCHANGED <<head, origin, index, work, torn>>,
         NEW file \in G!File, file.by = commits + 1, file.there,
         remote' = G!Committed(remote, [remote.tree EXCEPT !["draft"] = file], commits + 1)
  PROVE  FilesInv'
<1> DEFINE tree == [remote.tree EXCEPT !["draft"] = file]
<1>0. /\ commits \in Nat /\ commits + 1 \in G!Id /\ remote \in G!Branch
  BY DEF TypesInv, G!Bounds, G!Id
<1>1. /\ tree \in TreeIs /\ tree["draft"] = file /\ tree["log"] = remote.tree["log"]
      /\ remote' = G!Committed(remote, tree, commits + 1)
  BY <1>0 DEF G!Branch, TreeIs, G!Path
<1>2. /\ remote'.tree = tree /\ remote'.has = remote.has \cup {commits + 1, tree["log"].by, tree["draft"].by}
  <2>1. tree \in TreeIs /\ remote \in G!Branch /\ commits + 1 \in G!Id
    BY <1>0, <1>1
  <2>2. remote' = G!Committed(remote, tree, commits + 1)
    BY <1>1
  <2> HIDE DEF tree
  <2>3. \A b \in G!Branch, x \in TreeIs, id \in G!Id :
          G!Committed(b, x, id).tree = x /\ G!Committed(b, x, id).has = b.has \cup {id, x["log"].by, x["draft"].by}
    BY CommittedIs
  <2> QED BY <2>1, <2>2, <2>3
<1> HIDE DEF tree
<1>3. "log" \in G!Path /\ "draft" \in G!Path /\ \A p \in G!Path : p = "log" \/ p = "draft"
  BY DEF G!Path
<1>4. remote'.has = remote.has \cup {commits + 1}
  BY <1>1, <1>2, <1>3 DEF FilesInv, HasInv, Branches
<1>5. commits + 1 \notin 0..commits /\ 0..commits \subseteq 0..commits' /\ commits + 1 \in 0..commits'
  BY <1>0
<1>6. Drafts' \subseteq Drafts \cup {file} /\ Logs' \subseteq Logs
  BY <1>1, <1>2 DEF Drafts, Logs, Of
<1>7. Removals' \subseteq Removals
  BY <1>6, QuietIs DEF Removals
<1>8. Wrote' \subseteq Wrote /\ Removed' \subseteq Removed /\ Own' \subseteq Own
  BY <1>6, <1>7, QuietIs DEF Wrote, Removed, Own
<1>9. commits + 1 \notin Own /\ \A b \in Branches : commits + 1 \notin b.has
  BY <1>5 DEF FilesInv, HasInv
<1>10. \A b \in Branches' : b = remote' \/ b \in Branches
  BY DEF Branches
<1>11. Base' = Base
  BY DEF Base
<1>12. HasInv'
  <2>1. \A b \in Branches' : b.has \subseteq 0..commits'
    BY <1>4, <1>5, <1>10 DEF FilesInv, HasInv, Branches
  <2>2. \A b \in Branches' : \A p \in G!Path : b.tree[p].by \in b.has
    BY <1>1, <1>2, <1>3, <1>10 DEF FilesInv, HasInv, Branches
  <2>3. Own' \subseteq 0..commits' /\ Wrote' \cap Removed' = {}
    BY <1>5, <1>8 DEF FilesInv, HasInv
  <2>4. Own' \cap (origin'.has \cup remote'.has) \subseteq head'.has
    BY <1>4, <1>8, <1>9 DEF FilesInv, HasInv
  <2>5. origin'.has \subseteq remote'.has
    BY <1>4 DEF FilesInv, HasInv
  <2> QED BY <2>1, <2>2, <2>3, <2>4, <2>5, QuietIs DEF FilesInv, HasInv
<1>13. LogInv'
  <2>1. head.tree["log"].by # commits + 1
    BY <1>3, <1>9 DEF FilesInv, HasInv, Branches
  <2> QED BY <1>1, <1>2, <1>4, <2>1, QuietIs DEF FilesInv, LogInv, Asks
<1>14. VersionsInv'
  <2>1. \A x \in Drafts : x.there => x.by # commits + 1
    BY <1>3, <1>9 DEF Drafts, Of, FilesInv, HasInv, VersionsInv, Branches
  <2> QED BY <1>6, <1>8, <1>9, <2>1, QuietIs DEF FilesInv, VersionsInv, Asks
<1>15. RemovedInv'
  <2>1. \A f \in Removals : f.over # commits + 1 /\ f.by # commits + 1
    BY <1>9 DEF FilesInv, RemovedInv, Own, Removed, Branches
  <2> QED BY <1>1, <1>2, <1>4, <1>7, <1>8, <1>10, <2>1, QuietIs DEF FilesInv, RemovedInv, Branches
<1>16. SeenInv'
  BY <1>1, <1>2, <1>9, <1>11 DEF FilesInv, SeenInv, Branches
<1>17. CopiesInv'
  BY <1>11, QuietIs DEF FilesInv, CopiesInv, Asks
<1> QED BY <1>12, <1>13, <1>14, <1>15, <1>16, <1>17 DEF FilesInv

\* A number nobody has is given to a new write or removal.
LEMMA Begun ==
  ASSUME G!Bounds, TypesInv, TasksInv, FilesInv, NEW t \in Task, task[t].op = "none",
         task'[t].op \in {"write", "remove", "poll"},
         task'[t].pc = IF task'[t].op = "poll" THEN "fetch" ELSE "place", task'[t].id = commits',
         commits' = commits + (IF task'[t].op = "poll" THEN 0 ELSE 1),
         \A u \in Task : u # t => task'[u] = task[u],
         ended' = ended, UNCHANGED <<remote, head, origin, index, work, torn>>
  PROVE  FilesInv'
<1>0. /\ commits \in Nat /\ 0..commits \subseteq 0..commits' /\ commits + 1 \notin 0..commits
  BY DEF TypesInv, G!Bounds, G!Id
<1>1. /\ Drafts' = Drafts /\ Logs' = Logs /\ Branches' = Branches /\ Base' = Base
  BY DEF Of, Branches, Base, Drafts, Logs
<1>2. \A u \in Task : /\ Placed(u)' => Placed(u) /\ task'[u] = task[u]
                      /\ Offers(u)' => Offers(u) /\ task'[u] = task[u]
                      /\ task'[u].pc \in {"add", "commit"} => task'[u] = task[u]
  BY DEF Placed, Offers
<1>3. Removing' \subseteq Removing
  BY <1>2 DEF Removing, Asks
<1>4. /\ Ids("write")' \subseteq Ids("write") \cup {commits + 1} /\ Ids("remove")' \subseteq Ids("remove") \cup {commits + 1}
      /\ Ids("write")' \subseteq Ids("write") \/ Ids("remove")' \subseteq Ids("remove")
  BY DEF Ids, Asks
<1>5. /\ Removals' \subseteq Removals
      /\ Wrote' \subseteq Wrote \cup {commits + 1} /\ Removed' \subseteq Removed \cup {commits + 1}
      /\ Own' \subseteq Own \cup {commits + 1}
      /\ Wrote' \subseteq Wrote \/ Removed' \subseteq Removed
  BY <1>1, <1>3, <1>4 DEF Removals, Wrote, Removed, Own
<1>6. /\ commits + 1 \notin Own /\ \A b \in Branches : commits + 1 \notin b.has
      /\ commits + 1 \notin head.has
  BY <1>0 DEF FilesInv, HasInv, Branches
<1>7. \A x \in Drafts : x.by # commits + 1 /\ (x.there => x.by \notin Own')
  <2>1. \A x \in Drafts : x.by # commits + 1
    <3>1. \A x \in Drafts : ~x.there => x.by \in Own
      BY DEF Removals, Own, Removed
    <3>2. \A x \in Drafts : x.there => \E b \in Branches : x.by \in b.has
      BY DEF FilesInv, HasInv, VersionsInv, Drafts, Of, Branches, G!Path
    <3> QED BY <1>6, <3>1, <3>2
  <2> QED BY <1>5, <2>1 DEF FilesInv, VersionsInv
<1>8. HasInv'
  <2>1. \A b \in Branches : b.has \subseteq 0..commits'
    BY <1>0 DEF FilesInv, HasInv
  <2>2. Own' \subseteq 0..commits'
    <3>1. Own' # Own => commits + 1 \in 0..commits' \/ Own' \subseteq Own
      <4>1. task'[t].op = "poll" => Ids("write")' \subseteq Ids("write") /\ Ids("remove")' \subseteq Ids("remove")
        BY DEF Ids, Asks
      <4>2. task'[t].op = "poll" => Own' \subseteq Own
        BY <1>1, <1>3, <4>1 DEF Removals, Wrote, Removed, Own
      <4>3. task'[t].op # "poll" => commits + 1 \in 0..commits'
        BY <1>0
      <4> QED BY <4>2, <4>3
    <3> QED BY <1>0, <1>5, <3>1 DEF FilesInv, HasInv
  <2>3. Wrote' \cap Removed' = {}
    BY <1>5, <1>6 DEF FilesInv, HasInv, Own
  <2>4. Own' \cap (origin'.has \cup remote'.has) \subseteq head'.has
    BY <1>5, <1>6 DEF FilesInv, HasInv, Branches
  <2>5. \A p \in G!Path : index[p].by # commits + 1
    <3>1. index["log"].by \in Own
      BY DEF Own, Wrote, Logs, Of
    <3> QED BY <1>6, <1>7, <3>1 DEF G!Path, Drafts, Of
  <2>6. \A u \in Task : task'[u].pc \in {"place", "add"} =>
          task'[u].id \notin head'.has /\ \A p \in G!Path : index'[p].by # task'[u].id
    <3>1. task'[t].pc \in {"place", "add"} => task'[t].id = commits + 1
      OBVIOUS
    <3> QED BY <1>6, <2>5, <3>1 DEF FilesInv, HasInv
  <2> QED BY <1>1, <2>1, <2>2, <2>3, <2>4, <2>6 DEF FilesInv, HasInv
<1>9. LogInv'
  <2>1. Asks(t, "write")' => {head.tree["log"].by, index["log"].by, work["log"].by} \subseteq 0..task'[t].id
    <3>1. {head.tree["log"].by, index["log"].by, work["log"].by} \subseteq 0..commits
      BY DEF FilesInv, HasInv, Own, Wrote, Logs, Of
    <3> QED BY <1>0, <3>1
  <2> QED BY <1>2, <2>1 DEF FilesInv, LogInv, Asks
<1>10. VersionsInv'
  BY <1>1, <1>2, <1>7 DEF FilesInv, VersionsInv, Asks
<1>11. RemovedInv'
  <2>1. \A f \in Removals : f.over # commits + 1
    BY <1>6 DEF FilesInv, RemovedInv
  <2> QED BY <1>1, <1>2, <1>5, <2>1 DEF FilesInv, RemovedInv
<1>12. SeenInv'
  BY <1>1 DEF FilesInv, SeenInv
<1>13. CopiesInv'
  BY <1>1, <1>2 DEF FilesInv, CopiesInv, Asks
<1> QED BY <1>8, <1>9, <1>10, <1>11, <1>12, <1>13 DEF FilesInv

\* The version a removal replaces is one of the agent's that the clone has.
LEMMA SeenIs ==
  ASSUME FilesInv, NEW c, ~G!AlreadyGone(c), c.op = "remove"
  PROVE  /\ G!Seen("draft") \in head.has /\ G!Seen("draft") \notin Own
         /\ ~torn => G!Seen("draft") = Base /\ head.tree["draft"].there
<1>1. head.tree["draft"].there \/ work["draft"].there
  BY DEF G!AlreadyGone
<1>2. /\ head.tree["draft"] \in Drafts /\ work["draft"] \in Drafts /\ head.tree["draft"].by \in head.has
  BY DEF Drafts, Of, FilesInv, HasInv, Branches, G!Path
<1> QED BY <1>1, <1>2 DEF G!Seen, FilesInv, VersionsInv, CopiesInv, Base

\* A call writes or removes its file in the working copy.
LEMMA PlacedIn ==
  ASSUME G!Bounds, TypesInv, TasksInv, FilesInv, NEW t \in Task, task[t].pc = "place", task[t].op \in {"write", "remove"},
         ~G!AlreadyGone(task[t]),
         task'[t].op = task[t].op, task'[t].id = task[t].id, task'[t].file = G!New(task[t]),
         task'[t].pc = IF task[t].op = "remove" /\ ~head.tree[G!Where(task[t])].there THEN "commit" ELSE "add",
         \A u \in Task : u # t => task'[u] = task[u],
         work' = [work EXCEPT ![G!Where(task[t])] = G!New(task[t])],
         ended' = ended, commits' = commits, UNCHANGED <<remote, head, origin, index, torn>>
  PROVE  FilesInv'
<1> DEFINE new == G!New(task[t])
<1>1. new.by = task[t].id /\ (new.there <=> task[t].op = "write") /\ new.over = G!Seen(G!Where(task[t]))
  BY DEF G!New
<1>2. /\ task[t].op = "write" => work'["log"] = new /\ work'["draft"] = work["draft"]
      /\ task[t].op = "remove" => work'["draft"] = new /\ work'["log"] = work["log"]
  BY DEF TypesInv, TreeIs, G!Path, G!Where
<1> HIDE DEF new
<1>3. /\ Branches' = Branches /\ Base' = Base
  BY DEF Branches, Base
<1>4. /\ task[t].op = "write" => Drafts' \subseteq Drafts /\ Logs' \subseteq Logs \cup {new}
      /\ task[t].op = "remove" => Drafts' \subseteq Drafts \cup {new} /\ Logs' \subseteq Logs
  BY <1>2 DEF Drafts, Logs, Of
<1>5. \A u \in Task : u # t => Placed(u)' = Placed(u) /\ Offers(u)' = Offers(u)
  BY DEF Placed, Offers
<1>6. ~Offers(t)'
  BY DEF Offers
<1>7. /\ task[t].op = "write" => Removing' \subseteq Removing
      /\ task[t].op = "remove" => Removing' \subseteq Removing \cup {new}
      /\ Ids("write")' = Ids("write") /\ Ids("remove")' = Ids("remove")
  <2>1. \A u \in Task : task'[u].op = task[u].op /\ task'[u].id = task[u].id
    OBVIOUS
  <2>2. \A u \in Task : Placed(u)' => Placed(u) \/ u = t
    BY <1>5
  <2> QED BY <2>1, <2>2 DEF Removing, Ids, Asks, new
<1>8. /\ task[t].op = "write" => task[t].id \in Ids("write")
      /\ task[t].op = "remove" => task[t].id \in Ids("remove")
  BY DEF Ids, Asks
<1>9. /\ task[t].op = "write" => Removals' \subseteq Removals
      /\ task[t].op = "remove" => Removals' \subseteq Removals \cup {new}
  BY <1>1, <1>4, <1>7 DEF Removals
<1>10. /\ Wrote' \subseteq Wrote /\ Removed' \subseteq Removed /\ Own' \subseteq Own /\ task[t].id \in Own
  BY <1>1, <1>4, <1>7, <1>8, <1>9 DEF Wrote, Removed, Own
<1>11. \A b \in Branches : task[t].id \notin b.has
  BY <1>10 DEF FilesInv, HasInv, Branches
<1>12. task[t].op = "remove" =>
         /\ new.over \in head.has /\ new.over \notin Own
         /\ ~torn => new.over = Base /\ head.tree["draft"].there
  BY <1>1, SeenIs DEF G!Where
<1>13. HasInv'
  BY <1>3, <1>10 DEF FilesInv, HasInv
<1>14. LogInv'
  <2>1. \A u \in Task : Asks(u, "write") /\ u # t => task[t].op # "write"
    BY DEF TasksInv, Asks
  <2>2. task[t].id \in Nat
    BY DEF TypesInv, G!Call, G!Id
  <2>3. \A u \in Task : Asks(u, "write")' => Asks(u, "write")
    BY DEF Asks
  <2>4. \A u \in Task : Asks(u, "write") => work'["log"].by \in 0..task[u].id
    BY <1>1, <1>2, <2>1, <2>2 DEF FilesInv, LogInv, Asks
  <2>5. \A u \in Task : Asks(u, "write") /\ task'[u].pc = "add" => work'["log"] = task'[u].file
    BY <1>2, <2>1 DEF FilesInv, LogInv, Asks, new
  <2>6. \A u \in Task : Asks(u, "write") => (task'[u].pc = "commit" => index["log"] = task'[u].file)
    BY DEF FilesInv, LogInv, Asks
  <2>7. \A u \in Task : Offers(u)' => Offers(u) /\ task'[u] = task[u]
    BY <1>5, <1>6
  <2>8. \A u \in Task : Asks(u, "write") =>
          {head.tree["log"].by, index["log"].by} \subseteq 0..task[u].id /\ task'[u].id = task[u].id
    BY DEF FilesInv, LogInv
  <2> QED BY <2>3, <2>4, <2>5, <2>6, <2>7, <2>8 DEF FilesInv, LogInv
<1>15. VersionsInv'
  <2>1. \A x \in Drafts' : x.there => x \in Drafts
    BY <1>1, <1>4
  <2>2. \A u \in Task : Asks(u, "remove")' /\ task'[u].pc = "add" => ~work'["draft"].there
    BY <1>1, <1>2 DEF FilesInv, VersionsInv, Asks, TasksInv
  <2>3. work'["draft"].there => work'["draft"] = work["draft"]
    BY <1>1, <1>2
  <2> QED BY <1>10, <2>1, <2>2, <2>3 DEF FilesInv, VersionsInv
<1>16. RemovedInv'
  <2>1. \A f \in Removals' : f \in Removals \/ (f = new /\ task[t].op = "remove")
    BY <1>9
  <2>2. \A u \in Task : Offers(u)' => Offers(u) /\ task'[u] = task[u]
    BY <1>5, <1>6
  <2> QED BY <1>1, <1>3, <1>10, <1>11, <1>12, <2>1, <2>2 DEF FilesInv, RemovedInv
<1>17. SeenInv'
  BY <1>3 DEF FilesInv, SeenInv
<1>18. CopiesInv'
  <2>1. work'["draft"].there => work'["draft"] = work["draft"]
    BY <1>1, <1>2
  <2>2. \A u \in Task : Asks(u, "remove") /\ u # t => task[t].op # "remove"
    BY DEF TasksInv, Asks
  <2>3. ~torn => \A u \in Task : Asks(u, "remove")' =>
          /\ task'[u].pc = "add" => task'[u].file.over = Base
          /\ task'[u].pc = "commit" => ~index["draft"].there
    <3>1. ~torn /\ task[t].op = "remove" => task'[t].pc = "add" /\ task'[t].file.over = Base
      BY <1>12 DEF G!Where, new
    <3> QED BY <2>2, <3>1 DEF FilesInv, CopiesInv, Asks
  <2> QED BY <1>3, <2>1, <2>3 DEF FilesInv, CopiesInv
<1> QED BY <1>13, <1>14, <1>15, <1>16, <1>17, <1>18 DEF FilesInv

\* A call stages what it wrote, or that it removed.
LEMMA AddedIn ==
  ASSUME G!Bounds, TypesInv, TasksInv, FilesInv, NEW t \in Task, task[t].pc = "add", task[t].op \in {"write", "remove"},
         task'[t].op = task[t].op, task'[t].id = task[t].id, task'[t].file = task[t].file, task'[t].pc = "commit",
         \A u \in Task : u # t => task'[u] = task[u],
         index' = [index EXCEPT ![G!Where(task[t])] = IF task[t].op = "write" THEN work["log"] ELSE task[t].file],
         ended' = ended, commits' = commits, UNCHANGED <<remote, head, origin, work, torn>>
  PROVE  FilesInv'
<1> DEFINE file == task[t].file
<1>1. /\ file.by = task[t].id /\ (file.there <=> task[t].op = "write")
      /\ task[t].op = "write" => work["log"] = file
  BY DEF TasksInv, CallIs, FilesInv, LogInv, Asks
<1>2. /\ task[t].op = "write" => index'["log"] = file /\ index'["draft"] = index["draft"]
      /\ task[t].op = "remove" => index'["draft"] = file /\ index'["log"] = index["log"]
  BY <1>1 DEF TypesInv, TreeIs, G!Path, G!Where
<1>3. /\ Branches' = Branches /\ Base' = Base
  BY DEF Branches, Base
<1>4. \A u \in Task : /\ (Placed(u)' <=> Placed(u)) /\ (Offers(u)' <=> Offers(u))
                      /\ task'[u].op = task[u].op /\ task'[u].id = task[u].id /\ task'[u].file = task[u].file
  BY DEF Placed, Offers
<1>5. Removing' = Removing /\ Ids("write")' = Ids("write") /\ Ids("remove")' = Ids("remove")
  BY <1>4 DEF Removing, Ids, Asks
<1>6. /\ task[t].op = "write" => task[t].id \in Ids("write")
      /\ task[t].op = "remove" => task[t].id \in Ids("remove") /\ file \in Removing
  BY DEF Ids, Asks, Removing, Placed
<1> HIDE DEF file
<1>7. Drafts' \subseteq Drafts \cup Removing /\ Logs' \subseteq Logs
  BY <1>1, <1>2, <1>6 DEF Drafts, Logs, Of
<1>8. Removals' \subseteq Removals
  BY <1>5, <1>7 DEF Removals
<1>9. Wrote' \subseteq Wrote /\ Removed' \subseteq Removed /\ Own' \subseteq Own
  BY <1>5, <1>7, <1>8 DEF Wrote, Removed, Own
<1>10. task[t].id \notin head.has
  BY DEF FilesInv, HasInv
<1>11. \A u \in Task : u # t /\ task[u].pc \in {"place", "add"} => task[u].id # task[t].id
  <2>1. \A u \in Task : task[u].pc \in {"place", "add"} => task[u].op \in {"write", "remove"}
    BY DEF TasksInv, CallIs, TypesInv, G!Call, G!Op
  <2>2. \A u \in Task : u # t /\ task[u].pc \in {"place", "add"} => task[u].op # task[t].op
    BY <2>1 DEF TasksInv
  <2>3. \A u \in Task : /\ task[u].op = "write" => task[u].id \in Wrote
                        /\ task[u].op = "remove" => task[u].id \in Removed
    BY DEF Wrote, Removed, Ids, Asks
  <2> QED BY <2>1, <2>2, <2>3 DEF FilesInv, HasInv
<1>12. HasInv'
  <2>1. \A u \in Task : task'[u].pc \in {"place", "add"} =>
          task'[u].id \notin head.has /\ \A p \in G!Path : index'[p].by # task'[u].id
    BY <1>1, <1>2, <1>11 DEF FilesInv, HasInv, G!Path
  <2> QED BY <1>3, <1>9, <2>1 DEF FilesInv, HasInv
<1>13. LogInv'
  <2>1. \A u \in Task : Asks(u, "write") => task[t].op = "remove" \/ u = t
    BY DEF TasksInv, Asks
  <2>2. \A u \in Task : Asks(u, "write") => index'["log"].by \in 0..task[u].id
    BY <1>1, <1>2, <2>1 DEF FilesInv, LogInv
  <2>3. \A u \in Task : Asks(u, "write") /\ task'[u].pc = "commit" => index'["log"] = task'[u].file
    BY <1>1, <1>2, <2>1 DEF FilesInv, LogInv, Asks, file
  <2>4. \A u \in Task : (Asks(u, "write")' <=> Asks(u, "write")) /\ (task'[u].pc = "add" => task[u].pc = "add")
    BY DEF Asks
  <2>5. \A u \in Task : Asks(u, "write") =>
          /\ {head.tree["log"].by, work["log"].by} \subseteq 0..task[u].id
          /\ task[u].pc = "add" => work["log"] = task[u].file
          /\ Offers(u) => task[u].file.by <= head.tree["log"].by
    BY DEF FilesInv, LogInv
  <2> QED BY <1>4, <2>2, <2>3, <2>4, <2>5 DEF FilesInv, LogInv
<1>14. VersionsInv'
  <2>1. \A x \in Drafts' : x.there => x \in Drafts
    BY <1>1, <1>2, <1>7 DEF Drafts, Of
  <2>2. index'["draft"].there => index'["draft"] = index["draft"]
    BY <1>1, <1>2
  <2>3. work["draft"].there => index'["draft"].there
    BY <1>2 DEF FilesInv, VersionsInv, Asks
  <2>4. \A u \in Task : Asks(u, "remove")' /\ task'[u].pc = "add" => Asks(u, "remove") /\ task[u].pc = "add"
    BY DEF Asks
  <2> QED BY <1>9, <2>1, <2>2, <2>3, <2>4 DEF FilesInv, VersionsInv
<1>15. RemovedInv'
  BY <1>3, <1>4, <1>8, <1>9 DEF FilesInv, RemovedInv
<1>16. SeenInv'
  BY <1>3 DEF FilesInv, SeenInv
<1>17. CopiesInv'
  <2>1. SUFFICES ASSUME ~torn PROVE CopiesInv'
    BY DEF CopiesInv
  <2>2. \/ index'["draft"] = head.tree["draft"]
        \/ ~index'["draft"].there /\ index'["draft"].over = Base
    BY <1>1, <1>2, <2>1 DEF FilesInv, CopiesInv, Asks, file
  <2>3. \/ index'["log"] = head.tree["log"]
        \/ index'["log"].by > head.tree["log"].by /\ index'["log"].by \notin head.has
    <3>1. task[t].op = "write" => head.tree["log"].by \in 0..task[t].id /\ head.tree["log"].by # task[t].id
      BY <1>10 DEF FilesInv, LogInv, HasInv, Branches, G!Path, Asks
    <3>2. task[t].op = "write" => task[t].id > head.tree["log"].by
      BY <3>1 DEF TypesInv, G!Call, G!Id
    <3> QED BY <1>1, <1>2, <1>10, <2>1, <3>2 DEF FilesInv, CopiesInv
  <2>4. \A u \in Task : Asks(u, "remove")' =>
          /\ task'[u].pc = "add" => task'[u].file.over = Base
          /\ task'[u].pc = "commit" => ~index'["draft"].there
    <3>1. \A u \in Task : Asks(u, "remove") => task[t].op = "write" \/ u = t
      BY DEF TasksInv, Asks
    <3> QED BY <1>1, <1>2, <2>1, <3>1 DEF FilesInv, CopiesInv, Asks
  <2>5. work["draft"].there => work["draft"] = head.tree["draft"]
    BY <2>1 DEF FilesInv, CopiesInv
  <2> QED BY <1>3, <2>2, <2>3, <2>4, <2>5 DEF CopiesInv
<1> QED BY <1>12, <1>13, <1>14, <1>15, <1>16, <1>17 DEF FilesInv

\* A commit of the index: whatever it holds beside the call's own file is
\* a version the branch had, or one of this device's that nobody has.
LEMMA CommittedIn ==
  ASSUME G!Bounds, TypesInv, TasksInv, FilesInv, NEW t \in Task, task[t].pc = "commit", task[t].op \in {"write", "remove"},
         task'[t].op = task[t].op, task'[t].id = task[t].id, task'[t].file = task[t].file, task'[t].pc = "push",
         \A u \in Task : u # t => task'[u] = task[u], ~torn,
         head' = G!Committed(head, index, task[t].id),
         ended' = ended, commits' = commits, UNCHANGED <<remote, origin, index, work, torn>>
  PROVE  FilesInv'
<1> DEFINE id == task[t].id
           il == index["log"]
           ix == index["draft"]
<1>0. /\ head \in G!Branch /\ index \in TreeIs /\ id \in G!Id
  BY DEF TypesInv, G!Call
<1>1. head'.tree = index /\ head'.has = head.has \cup {id, il.by, ix.by}
  <2>1. \A b \in G!Branch, x \in TreeIs, n \in G!Id :
          G!Committed(b, x, n).tree = x /\ G!Committed(b, x, n).has = b.has \cup {n, x["log"].by, x["draft"].by}
    BY CommittedIs
  <2> QED BY <1>0, <2>1
<1>2. /\ ix \in Drafts /\ il \in Logs /\ head.tree["draft"] \in Drafts
      /\ head.tree["log"].by \in head.has /\ head.tree["draft"].by \in head.has
      /\ head \in Branches
  BY DEF Drafts, Logs, Of, FilesInv, HasInv, Branches, G!Path
<1>3. /\ task[t].op = "write" => id \in Wrote
      /\ task[t].op = "remove" => id \in Removed
      /\ il.by \in Wrote
  BY <1>2 DEF Wrote, Removed, Ids, Asks
<1>4. /\ task[t].op = "write" => il = task[t].file /\ il.by = id
      /\ task[t].op = "remove" => ~ix.there
      /\ task[t].file.by = id
  BY DEF FilesInv, LogInv, CopiesInv, Asks, TasksInv, CallIs
<1>5. /\ ix = head.tree["draft"] \/ (~ix.there /\ ix.over = Base)
      /\ il = head.tree["log"] \/ (il.by > head.tree["log"].by /\ il.by \notin head.has)
  BY DEF FilesInv, CopiesInv
<1>6. ~ix.there => ix.by \in Removed
  BY <1>2 DEF Removed, Removals
<1> HIDE DEF id, il, ix
<1>7. \A x \in head'.has : x \in head.has \/ x \in Own
  BY <1>1, <1>2, <1>3, <1>5, <1>6 DEF Own
<1>8. /\ Drafts' \subseteq Drafts /\ Logs' \subseteq Logs
  BY <1>1, <1>2 DEF Drafts, Logs, Of
<1>9. \A u \in Task : /\ (Placed(u)' <=> Placed(u)) /\ (Offers(u)' => Offers(u) \/ u = t)
                      /\ task'[u].op = task[u].op /\ task'[u].id = task[u].id /\ task'[u].file = task[u].file
  BY DEF Placed, Offers
<1>10. Removing' = Removing /\ Ids("write")' = Ids("write") /\ Ids("remove")' = Ids("remove")
  BY <1>9 DEF Removing, Ids, Asks
<1>11. Removals' \subseteq Removals
  BY <1>8, <1>10 DEF Removals
<1>12. Wrote' \subseteq Wrote /\ Removed' \subseteq Removed /\ Own' \subseteq Own
  BY <1>8, <1>10, <1>11 DEF Wrote, Removed, Own
<1>13. Base' = Base
  BY <1>1, <1>5 DEF Base, ix
<1>14. \A b \in Branches' : b = head' \/ b \in Branches
  BY DEF Branches
<1>15. head.has \subseteq head'.has /\ id \in head'.has
  BY <1>1
<1>16. HasInv'
  <2>1. \A u \in Task : task[u].pc \in {"place", "add"} => task[u].id # id /\ task[u].id \notin head.has
    <3>1. \A u \in Task : task[u].pc \in {"place", "add"} => task[u].op \in {"write", "remove"}
      BY DEF TasksInv, CallIs, TypesInv, G!Call, G!Op
    <3>2. \A u \in Task : task[u].pc \in {"place", "add"} => task[u].op # task[t].op
      BY <3>1 DEF TasksInv
    <3>3. \A u \in Task : /\ task[u].op = "write" => task[u].id \in Wrote
                          /\ task[u].op = "remove" => task[u].id \in Removed
      BY DEF Wrote, Removed, Ids, Asks
    <3> QED BY <1>3, <3>1, <3>2, <3>3 DEF FilesInv, HasInv
  <2>2. \A u \in Task : task'[u].pc \in {"place", "add"} =>
          task'[u].id \notin head'.has /\ \A p \in G!Path : index'[p].by # task'[u].id
    BY <1>1, <2>1 DEF FilesInv, HasInv, G!Path, il, ix
  <2>3. head'.has \subseteq 0..commits
    BY <1>2, <1>7 DEF FilesInv, HasInv
  <2>4. \A p \in G!Path : head'.tree[p].by \in head'.has
    BY <1>1 DEF G!Path, il, ix
  <2>5. Own' \cap (origin'.has \cup remote'.has) \subseteq head'.has
    BY <1>12, <1>15 DEF FilesInv, HasInv
  <2> QED BY <1>12, <1>14, <2>2, <2>3, <2>4, <2>5 DEF FilesInv, HasInv
<1>17. LogInv'
  <2>1. head'.tree["log"] = il
    BY <1>1 DEF il
  <2>2. {head.tree["log"].by, il.by} \subseteq Nat /\ il.by >= head.tree["log"].by
    BY <1>0, <1>5 DEF G!Branch, TreeIs, G!File, G!Path, G!Id, il
  <2>3. \A b \in {remote, origin} :
          /\ b.tree["log"].by <= il.by
          /\ b.tree["log"].by \in head'.has
          /\ il.by \in b.has => b.tree["log"].by = il.by
    <3>1. ASSUME NEW b \in {remote, origin}, il.by \in b.has PROVE il.by \in head.has
      BY <1>3, <3>1 DEF FilesInv, HasInv, Own
    <3>2. \A b \in {remote, origin} : b.tree["log"].by <= il.by
      BY <2>2 DEF FilesInv, LogInv, TypesInv, G!Branch, G!File, G!Path, G!Id
    <3> QED BY <1>5, <1>15, <3>1, <3>2 DEF FilesInv, LogInv
  <2>4. ASSUME NEW u \in Task, Asks(u, "write")
        PROVE  /\ {il.by, work["log"].by} \subseteq 0..task[u].id
               /\ Offers(u)' => task[u].file.by <= il.by
    <3>1. Offers(u) => task[u].file.by <= il.by
      BY <2>2, <2>4 DEF FilesInv, LogInv, TypesInv, G!Call, G!File, G!Id
    <3>2. u = t => task[u].file.by <= il.by
      BY <1>4, <2>2, <2>4 DEF Asks
    <3> QED BY <1>9, <2>4, <3>1, <3>2 DEF FilesInv, LogInv, il
  <2>5. ASSUME NEW u \in Task, Asks(u, "write")
        PROVE  /\ task'[u].pc = "add" => work["log"] = task'[u].file
               /\ task'[u].pc = "commit" => index["log"] = task'[u].file
    BY <2>5 DEF FilesInv, LogInv
  <2>6. \A u \in Task : Asks(u, "write")' => Asks(u, "write")
    BY DEF Asks
  <2> QED BY <1>9, <2>1, <2>3, <2>4, <2>5, <2>6 DEF FilesInv, LogInv, il
<1>18. VersionsInv'
  BY <1>8, <1>12, <1>15 DEF FilesInv, VersionsInv, Asks
<1>19. RemovedInv'
  <2>1. ASSUME NEW f \in Removals, f.by \in head'.has PROVE ix.by # f.over
    <3>1. f.over \notin Own /\ f.by \in Removed
      BY DEF FilesInv, RemovedInv, Removed
    <3>2. CASE ~ix.there
      BY <1>6, <3>1, <3>2 DEF Own
    <3>3. CASE ix.there
      <4>1. ix = head.tree["draft"] /\ task[t].op = "write"
        BY <1>4, <1>5, <3>3
      <4>2. f.by \notin Wrote
        BY <3>1 DEF FilesInv, HasInv
      <4>3. f.by \in head.has
        BY <1>1, <1>2, <1>3, <2>1, <4>1, <4>2
      <4> QED BY <1>2, <4>1, <4>3 DEF FilesInv, RemovedInv
    <3> QED BY <3>2, <3>3
  <2>2. \A u \in Task : Offers(u)' => task'[u].file.by \in head'.has
    BY <1>4, <1>9, <1>15 DEF FilesInv, RemovedInv
  <2>3. head'.tree["draft"] = ix
    BY <1>1 DEF ix
  <2> QED BY <1>11, <1>12, <1>14, <1>15, <2>1, <2>2, <2>3 DEF FilesInv, RemovedInv
<1>20. SeenInv'
  <2>1. remote.tree["draft"] \in Drafts /\ origin.tree["draft"] \in Drafts
    BY DEF Drafts, Of
  <2>2. \A b \in {remote, origin} : b.tree["draft"].there /\ b.tree["draft"].by \in head'.has => b.tree["draft"].by \in head.has
    BY <1>7, <2>1 DEF FilesInv, VersionsInv
  <2>3. head'.tree["draft"].there => head'.tree["draft"] = head.tree["draft"]
    BY <1>1, <1>5 DEF ix
  <2> QED BY <1>13, <1>15, <2>2, <2>3 DEF FilesInv, SeenInv
<1>21. CopiesInv'
  <2>1. head'.tree["draft"] = index["draft"] /\ head'.tree["log"] = index["log"]
    BY <1>1
  <2>2. work["draft"].there => work["draft"] = index["draft"]
    BY <1>5 DEF FilesInv, CopiesInv, VersionsInv, ix
  <2>3. \A u \in Task : Asks(u, "remove")' => Asks(u, "remove") /\ (task'[u].pc = "add" => task[u].pc = "add")
                                            /\ (task'[u].pc = "commit" => task[u].pc = "commit")
    BY DEF Asks
  <2> QED BY <1>9, <1>13, <2>1, <2>2, <2>3 DEF FilesInv, CopiesInv
<1> QED BY <1>16, <1>17, <1>18, <1>19, <1>20, <1>21 DEF FilesInv

\* On the desktop all of it is one step.
LEMMA CommittedAlone ==
  ASSUME G!Bounds, TypesInv, TasksInv, FilesInv, ~browser,
         NEW t \in Task, task[t].pc = "place", task[t].op \in {"write", "remove"}, ~G!AlreadyGone(task[t]),
         task'[t].op = task[t].op, task'[t].id = task[t].id, task'[t].file = G!New(task[t]), task'[t].pc = "push",
         \A u \in Task : u # t => task'[u] = task[u], G!New(task[t]) \in G!File,
         work' = [work EXCEPT ![G!Where(task[t])] = G!New(task[t])],
         index' = [index EXCEPT ![G!Where(task[t])] = G!New(task[t])],
         head' = G!Committed(head, [head.tree EXCEPT ![G!Where(task[t])] = G!New(task[t])], task[t].id),
         ended' = ended, commits' = commits, UNCHANGED <<remote, origin, torn>>
  PROVE  FilesInv'
<1> DEFINE new == G!New(task[t])
           id == task[t].id
           tree == [head.tree EXCEPT ![G!Where(task[t])] = G!New(task[t])]
<1>0. /\ head \in G!Branch /\ index \in TreeIs /\ work \in TreeIs /\ id \in G!Id /\ id \in Nat /\ new \in G!File
      /\ ~torn /\ \A u \in Task : task[u].pc \notin {"add", "commit"} /\ task'[u].pc \notin {"add", "commit"}
  BY DEF TypesInv, G!Call, G!Id, TasksInv, CallIs
<1>1. new.by = id /\ (new.there <=> task[t].op = "write") /\ new.over = G!Seen(G!Where(task[t]))
  BY DEF G!New
<1>2. G!Where(task[t]) = (IF task[t].op = "write" THEN "log" ELSE "draft") /\ G!Where(task[t]) \in G!Path
  BY DEF G!Where, G!Path
<1>3. "log" \in G!Path /\ "draft" \in G!Path /\ \A p \in G!Path : p = "log" \/ p = "draft"
  BY DEF G!Path
<1>4. /\ task[t].op = "write" => /\ work'["log"] = new /\ work'["draft"] = work["draft"]
                                 /\ index'["log"] = new /\ index'["draft"] = index["draft"]
                                 /\ tree["log"] = new /\ tree["draft"] = head.tree["draft"]
      /\ task[t].op = "remove" => /\ work'["draft"] = new /\ work'["log"] = work["log"]
                                  /\ index'["draft"] = new /\ index'["log"] = index["log"]
                                  /\ tree["draft"] = new /\ tree["log"] = head.tree["log"]
      /\ tree \in TreeIs /\ head' = G!Committed(head, tree, id)
  BY <1>0, <1>2, <1>3 DEF TreeIs, G!Branch
<1> HIDE DEF new, id, tree
<1>5. /\ head'.tree = tree /\ head'.has = head.has \cup {id, tree["log"].by, tree["draft"].by}
  <2>1. \A b \in G!Branch, x \in TreeIs, n \in G!Id :
          G!Committed(b, x, n).tree = x /\ G!Committed(b, x, n).has = b.has \cup {n, x["log"].by, x["draft"].by}
    BY CommittedIs
  <2> QED BY <1>0, <1>4, <2>1
<1>6. head.tree["log"].by \in head.has /\ head.tree["draft"].by \in head.has
  BY <1>3 DEF FilesInv, HasInv, Branches
<1>7. head'.has = head.has \cup {id}
  BY <1>1, <1>4, <1>5, <1>6
<1>8. /\ task[t].op = "write" => Drafts' \subseteq Drafts /\ Logs' \subseteq Logs \cup {new}
      /\ task[t].op = "remove" => Drafts' \subseteq Drafts \cup {new} /\ Logs' \subseteq Logs
  BY <1>4, <1>5 DEF Drafts, Logs, Of
<1>9. \A u \in Task : u # t => Placed(u)' = Placed(u) /\ Offers(u)' = Offers(u)
  BY DEF Placed, Offers
<1>10. /\ task[t].op = "write" => Removing' \subseteq Removing
       /\ task[t].op = "remove" => Removing' \subseteq Removing \cup {new}
       /\ Ids("write")' = Ids("write") /\ Ids("remove")' = Ids("remove")
  <2>1. \A u \in Task : task'[u].op = task[u].op /\ task'[u].id = task[u].id
    OBVIOUS
  <2>2. \A u \in Task : Placed(u)' => Placed(u) \/ u = t
    BY <1>9
  <2> QED BY <2>1, <2>2 DEF Removing, Ids, Asks, new
<1>11. /\ task[t].op = "write" => id \in Ids("write")
       /\ task[t].op = "remove" => id \in Ids("remove")
  BY DEF Ids, Asks, id
<1>12. /\ task[t].op = "write" => Removals' \subseteq Removals
       /\ task[t].op = "remove" => Removals' \subseteq Removals \cup {new}
  BY <1>1, <1>8, <1>10 DEF Removals
<1>13. /\ Wrote' \subseteq Wrote /\ Removed' \subseteq Removed /\ Own' \subseteq Own /\ id \in Own
       /\ task[t].op = "write" => id \in Wrote
       /\ task[t].op = "remove" => id \in Removed
  BY <1>1, <1>8, <1>10, <1>11, <1>12 DEF Wrote, Removed, Own
<1>14. \A b \in Branches : id \notin b.has
  BY <1>13 DEF FilesInv, HasInv, Branches, id
<1>15. task[t].op = "remove" =>
         /\ new.over \in head.has /\ new.over \notin Own
         /\ new.over = Base /\ head.tree["draft"].there
  BY <1>0, <1>1, <1>2, SeenIs
<1>16. Base' = Base
  BY <1>1, <1>4, <1>5, <1>15 DEF Base
<1>17. \A b \in Branches' : b = head' \/ b \in Branches
  BY DEF Branches
<1>18. HasInv'
  <2>1. \A u \in Task : u # t /\ task[u].pc \in {"place", "add"} => task[u].id # id
    <3>1. \A u \in Task : task[u].pc \in {"place", "add"} => task[u].op \in {"write", "remove"}
      BY DEF TasksInv, CallIs, TypesInv, G!Call, G!Op
    <3>2. \A u \in Task : u # t /\ task[u].pc \in {"place", "add"} => task[u].op # task[t].op
      BY <3>1 DEF TasksInv
    <3>3. \A u \in Task : /\ task[u].op = "write" => task[u].id \in Wrote
                          /\ task[u].op = "remove" => task[u].id \in Removed
      BY DEF Wrote, Removed, Ids, Asks
    <3> QED BY <1>13, <3>1, <3>2, <3>3 DEF FilesInv, HasInv
  <2>2. \A u \in Task : task'[u].pc \in {"place", "add"} =>
          task'[u].id \notin head'.has /\ \A p \in G!Path : index'[p].by # task'[u].id
    BY <1>1, <1>3, <1>4, <1>7, <2>1 DEF FilesInv, HasInv
  <2>3. head'.has \subseteq 0..commits
    BY <1>7, <1>13 DEF FilesInv, HasInv, Branches
  <2>4. \A p \in G!Path : head'.tree[p].by \in head'.has
    BY <1>3, <1>5
  <2>5. Own' \cap (origin'.has \cup remote'.has) \subseteq head'.has
    BY <1>7, <1>13 DEF FilesInv, HasInv
  <2> QED BY <1>13, <1>17, <2>2, <2>3, <2>4, <2>5 DEF FilesInv, HasInv
<1>19. LogInv'
  <2>1. task[t].op = "write" => head.tree["log"].by <= id /\ head'.tree["log"].by = id
    BY <1>0, <1>1, <1>4, <1>5 DEF FilesInv, LogInv, Asks, id
  <2>2. task[t].op = "remove" => head'.tree["log"] = head.tree["log"]
    BY <1>4, <1>5
  <2>3. head.tree["log"].by \in Nat /\ \A b \in {remote, origin} : b.tree["log"].by \in Nat
    BY <1>3 DEF TypesInv, G!Branch, G!File, G!Id
  <2>4. \A b \in {remote, origin} :
          /\ b.tree["log"].by <= head'.tree["log"].by
          /\ b.tree["log"].by \in head'.has
          /\ head'.tree["log"].by \in b.has => b.tree["log"].by = head'.tree["log"].by
    BY <1>0, <1>7, <1>14, <2>1, <2>2, <2>3 DEF FilesInv, LogInv, Branches
  <2>5. \A u \in Task : Asks(u, "write") => task[t].op = "remove" \/ u = t
    BY DEF TasksInv, Asks
  <2>6. \A u \in Task : Asks(u, "write")' =>
          {head'.tree["log"].by, index'["log"].by, work'["log"].by} \subseteq 0..task'[u].id
    BY <1>0, <1>1, <1>4, <2>1, <2>2, <2>5 DEF FilesInv, LogInv, Asks, id
  <2>7. \A u \in Task : Asks(u, "write")' /\ Offers(u)' => task'[u].file.by <= head'.tree["log"].by
    BY <1>0, <1>1, <1>9, <2>1, <2>2, <2>5 DEF FilesInv, LogInv, Asks, new
  <2> QED BY <1>0, <2>4, <2>6, <2>7 DEF FilesInv, LogInv
<1>20. VersionsInv'
  <2>1. \A x \in Drafts' : x.there => x \in Drafts
    BY <1>1, <1>8
  <2>2. /\ work'["draft"].there => work["draft"].there /\ work'["draft"] = work["draft"] /\ index'["draft"] = index["draft"]
        /\ index'["draft"].there => index'["draft"] = index["draft"]
    BY <1>1, <1>4
  <2> QED BY <1>0, <1>7, <1>13, <2>1, <2>2 DEF FilesInv, VersionsInv
<1>21. RemovedInv'
  <2>1. \A f \in Removals' : f \in Removals \/ (f = new /\ task[t].op = "remove")
    BY <1>12
  <2>2. \A f \in Removals' : f.over \in head.has /\ f.over \notin Own
    BY <1>15, <2>1 DEF FilesInv, RemovedInv
  <2>3. ASSUME NEW f \in Removals', NEW b \in Branches', f.by \in b.has PROVE b.tree["draft"].by # f.over
    <3>1. CASE b # head'
      BY <1>1, <1>14, <1>17, <2>1, <2>3, <3>1 DEF FilesInv, RemovedInv
    <3>2. CASE b = head' /\ task[t].op = "remove"
      <4>1. head'.tree["draft"].by \in Own
        BY <1>1, <1>4, <1>5, <1>13, <3>2
      <4> QED BY <2>2, <3>2, <4>1
    <3>3. CASE b = head' /\ task[t].op = "write"
      <4>1. f \in Removals /\ f.by \in Removed
        BY <2>1, <3>3 DEF Removed
      <4>2. f.by # id
        BY <1>13, <3>3, <4>1 DEF FilesInv, HasInv
      <4>3. f.by \in head.has /\ head'.tree["draft"] = head.tree["draft"] /\ head \in Branches
        BY <1>4, <1>5, <1>7, <2>3, <3>3, <4>2 DEF Branches
      <4> QED BY <3>3, <4>1, <4>3 DEF FilesInv, RemovedInv
    <3> QED BY <3>1, <3>2, <3>3
  <2>4. \A u \in Task : Offers(u)' => task'[u].file.by \in head'.has
    BY <1>1, <1>7, <1>9 DEF FilesInv, RemovedInv, new
  <2>5. \A f \in ended' : ~f.there => f.by \in remote'.has
    BY DEF FilesInv, RemovedInv
  <2>6. \A f \in Removals' : f.over \in head'.has /\ f.over \notin Own'
    BY <1>7, <1>13, <2>2
  <2> QED BY <2>3, <2>4, <2>5, <2>6 DEF RemovedInv
<1>22. SeenInv'
  <2>1. remote.tree["draft"] \in Drafts /\ origin.tree["draft"] \in Drafts
    BY DEF Drafts, Of
  <2>2. \A b \in {remote, origin} : b.tree["draft"].there /\ b.tree["draft"].by \in head'.has => b.tree["draft"].by \in head.has
    BY <1>7, <1>13, <2>1 DEF FilesInv, VersionsInv
  <2>3. head'.tree["draft"].there => head'.tree["draft"] = head.tree["draft"]
    BY <1>1, <1>4, <1>5
  <2> QED BY <1>7, <1>16, <2>2, <2>3 DEF FilesInv, SeenInv
<1>23. CopiesInv'
  <2>1. /\ index'["draft"] = head'.tree["draft"] \/ (~index'["draft"].there /\ index'["draft"].over = Base)
        /\ work'["draft"].there => work'["draft"] = head'.tree["draft"]
    BY <1>0, <1>1, <1>4, <1>5 DEF FilesInv, CopiesInv
  <2>2. \/ index'["log"] = head'.tree["log"]
        \/ index'["log"].by > head'.tree["log"].by /\ index'["log"].by \notin head'.has
    <3>1. task[t].op = "remove" => index["log"].by # id
      <4>1. index["log"].by \in Wrote
        BY DEF Wrote, Logs, Of
      <4> QED BY <1>13, <4>1 DEF FilesInv, HasInv
    <3> QED BY <1>0, <1>4, <1>5, <1>7, <3>1 DEF FilesInv, CopiesInv
  <2> QED BY <1>0, <1>16, <2>1, <2>2 DEF CopiesInv
<1> QED BY <1>18, <1>19, <1>20, <1>21, <1>22, <1>23 DEF FilesInv
-----------------------------------------------------------------------------
(* Every step.                                                               *)

\* The calls stay what they are when one of them goes on or ends.
LEMMA TasksStay ==
  ASSUME TypesInv, TasksInv, NEW t \in Task, browser' = browser, torn' => browser,
         task'[t].op \in {"none", task[t].op}, CallIs(task'[t]),
         \A u \in Task : u # t => task'[u] = task[u]
  PROVE  TasksInv'
<1>1. \A u \in Task : CallIs(task'[u])
  BY DEF TasksInv
<1>2. \A u, v \in Task : task'[u].op = task'[v].op /\ task'[u].op \notin {"none", "poll"} => u = v
  BY DEF TasksInv
<1> QED BY <1>1, <1>2 DEF TasksInv, CallIs

\* What was taken of the host stays taken while the clone's branch only grows and
\* the host takes nothing but that branch.
LEMMA TakenStays ==
  ASSUME TypesInv, TakenInv, ~beaten', NEW t \in Task,
         head.has \subseteq head'.has, remote'.has \subseteq head'.has \/ remote' = remote,
         origin' = origin \/ origin' = remote,
         \A u \in Task : u # t => task'[u] = task[u],
         TakenBy(task[t])' \/ task'[t].pc \notin {"merge", "checkout", "push"}
  PROVE  TakenInv'
<1>1. ASSUME NEW u \in Task, u # t PROVE TakenBy(task[u])'
  <2>1. TakenBy(task[u])
    BY DEF TakenInv
  <2> QED BY <1>1, <2>1 DEF TakenBy, G!Ahead
<1>2. TakenBy(task[t])'
  BY DEF TakenBy
<1>3. \A u \in Task : TakenBy(task[u])'
  BY <1>1, <1>2
<1> QED BY <1>3 DEF TakenInv

\* A call that reads, or writes, what it must.
LEMMA WritingIs ==
  ASSUME TypesInv, TasksInv, NEW t \in Task, task[t].pc \in {"place", "add", "commit", "push"}
  PROVE  task[t].op \in {"write", "remove"}
BY DEF TypesInv, TasksInv, CallIs, G!Call, G!Op

\* What a call writes, or leaves where it removed.
LEMMA NewIs ==
  ASSUME TypesInv, NEW c \in G!Call
  PROVE  G!New(c) \in G!File /\ G!New(c).by = c.id /\ (G!New(c).there <=> c.op = "write") /\ G!Where(c) \in G!Path
<1>1. G!Where(c) \in G!Path
  BY DEF G!Where, G!Path
<1>2. G!Seen(G!Where(c)) \in G!Id
  BY <1>1 DEF G!Seen, TypesInv, TreeIs, G!Branch, G!File
<1>3. c.id \in G!Id /\ (c.op = "write") \in BOOLEAN
  BY DEF G!Call
<1> QED BY <1>1, <1>2, <1>3 DEF G!New, G!File

\* One call goes on, or ends, past its commit.
LEMMA QuietOne ==
  ASSUME NEW t \in Task, QuietOf(t), \A u \in Task : u # t => task'[u] = task[u]
  PROVE  Quiet
BY DEF Quiet, QuietOf

\* A call that is over, whatever it was at, disturbs no other.
LEMMA EndsAs ==
  ASSUME G!Bounds, TypesInv, TasksInv, NEW t \in Task, G!Become(t, G!Idle), browser' = browser, torn' => browser
  PROVE  /\ task' \in [Task -> G!Call] /\ Quiet /\ TasksInv' /\ task'[t].pc = "idle"
         /\ \A u \in Task : u # t => task'[u] = task[u]
<1>1. G!Idle \in G!Call /\ G!Idle.op = "none" /\ G!Idle.pc = "idle"
  BY IdleIs
<1>2. \A c \in G!Call : G!Become(t, c) => /\ task' \in [Task -> G!Call] /\ task'[t] = c
                                          /\ \A u \in Task : u # t => task'[u] = task[u]
  BY Became
<1>3. task' \in [Task -> G!Call] /\ task'[t] = G!Idle /\ \A u \in Task : u # t => task'[u] = task[u]
  BY <1>1, <1>2
<1>4. QuietOf(t) /\ CallIs(G!Idle)
  BY <1>1, <1>3 DEF QuietOf, CallIs
<1>5. Quiet
  BY <1>3, <1>4, QuietOne
<1>6. TasksInv'
  BY <1>1, <1>3, <1>4, TasksStay
<1> QED BY <1>1, <1>3, <1>5, <1>6

\* Beginning a call keeps everything true.
LEMMA BeginHolds ==
  ASSUME G!Bounds, CloneInv, NEW t \in Task, NEW op \in G!Op \ {"none"}, G!Begin(t, op)
  PROVE  CloneInv'
<1> DEFINE c == [G!Idle EXCEPT !.op = op, !.pc = IF op = "poll" THEN "fetch" ELSE "place", !.id = commits']
<1>1. /\ TypesInv /\ TasksInv /\ TakenInv /\ task[t].op = "none" /\ op \in {"write", "remove", "poll"}
      /\ G!Become(t, c) /\ commits' = commits + (IF op = "poll" THEN 0 ELSE 1)
      /\ op \in {"write", "remove"} => \A u \in Task : task[u].op # op
      /\ UNCHANGED <<browser, remote, G!clone, falters, G!history>>
  BY DEF G!Begin, CloneInv, G!Op
<1>2. commits' \in G!Id
  BY <1>1 DEF G!Begin, TypesInv, G!Id, G!Bounds
<1>3. /\ c \in G!Call /\ c.op = op /\ c.pc = (IF op = "poll" THEN "fetch" ELSE "place") /\ c.id = commits' /\ c.again = G!Idle.again
  <2>1. G!Idle \in G!Call
    BY IdleIs
  <2> QED BY <1>1, <1>2, <2>1 DEF G!Call, G!Op, G!Step
<1> HIDE DEF c
<1>4. task' \in [Task -> G!Call] /\ task'[t] = c /\ \A u \in Task : u # t => task'[u] = task[u]
  <2>1. \A d \in G!Call : G!Become(t, d) => /\ task' \in [Task -> G!Call] /\ task'[t] = d
                                            /\ \A u \in Task : u # t => task'[u] = task[u]
    BY <1>1, Became
  <2> QED BY <1>1, <1>3, <2>1
<1>5. TypesInv'
  BY <1>1, <1>2, <1>4 DEF TypesInv, G!clone, G!history
<1>6. TasksInv'
  <2>1. CallIs(c)
    BY <1>1, <1>3, IdleIs DEF CallIs
  <2>2. \A u, v \in Task : task'[u].op = task'[v].op /\ task'[u].op \notin {"none", "poll"} => u = v
    BY <1>1, <1>3, <1>4 DEF TasksInv
  <2>3. \A u \in Task : CallIs(task'[u])
    BY <1>1, <1>4, <2>1 DEF TasksInv
  <2> QED BY <1>1, <2>2, <2>3 DEF TasksInv, CallIs, G!clone
<1>7. TakenInv'
  BY <1>1, <1>3, <1>4, TakenStays DEF G!clone, G!history, TakenInv
<1>8. ASSUME ~crossed' PROVE FilesInv'
  BY <1>1, <1>3, <1>4, <1>8, Begun DEF G!clone, G!history, CloneInv
<1> QED BY <1>5, <1>6, <1>7, <1>8 DEF CloneInv

\* So does the one command a desktop commits in.
LEMMA CommitAloneHolds ==
  ASSUME G!Bounds, CloneInv, NEW t \in Task, G!CommitAlone(t)
  PROVE  CloneInv'
<1> DEFINE new == G!New(task[t])
           c == [task[t] EXCEPT !.pc = "push", !.file = G!New(task[t])]
           tree == [head.tree EXCEPT ![G!Where(task[t])] = G!New(task[t])]
<1>1. /\ TypesInv /\ TasksInv /\ TakenInv /\ ~browser /\ task[t].pc = "place" /\ task[t] \in G!Call
      /\ UNCHANGED <<browser, remote, commits, falters, G!history>>
  BY DEF G!CommitAlone, CloneInv, TypesInv
<1>2. task[t].op \in {"write", "remove"}
  BY <1>1, WritingIs
<1>3. CASE G!AlreadyGone(task[t])
  <2>1. G!Become(t, G!Idle) /\ UNCHANGED G!clone
    BY <1>3 DEF G!CommitAlone
  <2>2. /\ task' \in [Task -> G!Call] /\ Quiet /\ TasksInv' /\ task'[t].pc = "idle"
        /\ \A u \in Task : u # t => task'[u] = task[u]
    BY <1>1, <2>1, EndsAs DEF G!clone, TasksInv
  <2>3. TypesInv' /\ TakenInv'
    BY <1>1, <2>1, <2>2, TakenStays DEF TypesInv, TakenInv, G!clone, G!history
  <2>4. ~crossed' => FilesInv'
    BY <1>1, <2>1, <2>2, Steady DEF CloneInv, G!clone, G!history
  <2> QED BY <2>2, <2>3, <2>4 DEF CloneInv
<1>4. CASE ~G!AlreadyGone(task[t])
  <2>1. /\ work' = [work EXCEPT ![G!Where(task[t])] = new]
        /\ index' = [index EXCEPT ![G!Where(task[t])] = new]
        /\ head' = G!Committed(head, tree, task[t].id)
        /\ G!Become(t, c) /\ UNCHANGED <<origin, torn>>
    BY <1>4 DEF G!CommitAlone
  <2>2. /\ new \in G!File /\ new.by = task[t].id /\ (new.there <=> task[t].op = "write") /\ G!Where(task[t]) \in G!Path
    BY <1>1, NewIs
  <2>3. c \in G!Call /\ c.op = task[t].op /\ c.id = task[t].id /\ c.file = new /\ c.pc = "push"
        /\ c.again = task[t].again /\ tree \in TreeIs /\ task[t].id \in G!Id
    BY <1>1, <2>2 DEF G!Call, G!Step, TypesInv, G!Branch, TreeIs
  <2> HIDE DEF c, tree
  <2>4. task' \in [Task -> G!Call] /\ task'[t] = c /\ \A u \in Task : u # t => task'[u] = task[u]
    <3>1. \A d \in G!Call : G!Become(t, d) => /\ task' \in [Task -> G!Call] /\ task'[t] = d
                                              /\ \A u \in Task : u # t => task'[u] = task[u]
      BY <1>1, Became
    <3> QED BY <2>1, <2>3, <3>1
  <2>5. head' \in G!Branch /\ head.has \subseteq head'.has
    <3>1. \A b \in G!Branch, x \in TreeIs, n \in G!Id :
            G!Committed(b, x, n) \in G!Branch /\ G!Committed(b, x, n).has = b.has \cup {n, x["log"].by, x["draft"].by}
      BY CommittedIs
    <3>2. head \in G!Branch
      BY <1>1 DEF TypesInv
    <3> QED BY <2>1, <2>3, <3>1, <3>2
  <2>6. work' \in TreeIs /\ index' \in TreeIs
    BY <1>1, <2>1, <2>2 DEF TypesInv, TreeIs
  <2> HIDE DEF new
  <2>7. TypesInv'
    BY <1>1, <2>1, <2>4, <2>5, <2>6 DEF TypesInv, G!history
  <2>8. TasksInv'
    <3>1. CallIs(c)
      BY <1>2, <2>2, <2>3 DEF CallIs
    <3> QED BY <1>1, <2>1, <2>3, <2>4, <3>1, TasksStay DEF TasksInv
  <2>9. TakenInv'
    <3>1. ~task[t].again
      BY <1>1 DEF TasksInv, CallIs
    <3>2. TakenBy(task[t])'
      BY <2>3, <2>4, <3>1 DEF TakenBy
    <3> QED BY <1>1, <2>1, <2>4, <2>5, <3>2, TakenStays DEF TakenInv, G!history
  <2>10. ASSUME ~crossed' PROVE FilesInv'
    BY <1>1, <1>2, <1>4, <2>1, <2>2, <2>3, <2>4, <2>10, CommittedAlone DEF CloneInv, G!history, new, tree
  <2> QED BY <2>7, <2>8, <2>9, <2>10 DEF CloneInv
<1> QED BY <1>3, <1>4

\* A call that is given a different place, with all else as it was.
LEMMA GoneOn ==
  ASSUME TypesInv, NEW t \in Task, NEW pc \in G!Step, G!Go(t, pc)
  PROVE  /\ task' \in [Task -> G!Call] /\ task'[t] = [task[t] EXCEPT !.pc = pc]
         /\ task'[t].pc = pc /\ task'[t].op = task[t].op /\ task'[t].id = task[t].id /\ task'[t].file = task[t].file
         /\ task'[t].again = task[t].again /\ task'[t].moved = task[t].moved
         /\ \A u \in Task : u # t => task'[u] = task[u]
<1> DEFINE c == [task[t] EXCEPT !.pc = pc]
<1>1. c \in G!Call /\ c.pc = pc /\ c.op = task[t].op /\ c.id = task[t].id /\ c.file = task[t].file
      /\ c.again = task[t].again /\ c.moved = task[t].moved
  BY DEF TypesInv, G!Call
<1>2. \A d \in G!Call : G!Become(t, d) => /\ task' \in [Task -> G!Call] /\ task'[t] = d
                                          /\ \A u \in Task : u # t => task'[u] = task[u]
  BY Became
<1>3. G!Become(t, c)
  BY DEF G!Go
<1>4. task' \in [Task -> G!Call] /\ task'[t] = c /\ \A u \in Task : u # t => task'[u] = task[u]
  BY <1>1, <1>2, <1>3
<1> QED BY <1>1, <1>4

\* So does writing the working copy.
LEMMA PlaceHolds ==
  ASSUME G!Bounds, CloneInv, NEW t \in Task, G!Place(t)
  PROVE  CloneInv'
<1> DEFINE new == G!New(task[t])
           pc == IF task[t].op = "remove" /\ ~head.tree[G!Where(task[t])].there THEN "commit" ELSE "add"
           c == [task[t] EXCEPT !.pc = pc, !.file = G!New(task[t])]
<1>1. /\ TypesInv /\ TasksInv /\ TakenInv /\ browser /\ task[t].pc = "place" /\ task[t] \in G!Call
      /\ UNCHANGED <<browser, remote, head, origin, index, torn, commits, falters, G!history>>
  BY DEF G!Place, CloneInv, TypesInv
<1>2. task[t].op \in {"write", "remove"}
  BY <1>1, WritingIs
<1>3. CASE G!AlreadyGone(task[t])
  <2>1. G!Become(t, G!Idle) /\ UNCHANGED work
    BY <1>3 DEF G!Place
  <2>2. /\ task' \in [Task -> G!Call] /\ Quiet /\ TasksInv' /\ task'[t].pc = "idle"
        /\ \A u \in Task : u # t => task'[u] = task[u]
    BY <1>1, <2>1, EndsAs
  <2>3. TypesInv' /\ TakenInv'
    BY <1>1, <2>1, <2>2, TakenStays DEF TypesInv, TakenInv, G!history
  <2>4. ~crossed' => FilesInv'
    BY <1>1, <2>1, <2>2, Steady DEF CloneInv, G!history
  <2> QED BY <2>2, <2>3, <2>4 DEF CloneInv
<1>4. CASE ~G!AlreadyGone(task[t])
  <2>1. work' = [work EXCEPT ![G!Where(task[t])] = new] /\ G!Become(t, c)
    BY <1>4 DEF G!Place
  <2>2. new \in G!File /\ new.by = task[t].id /\ (new.there <=> task[t].op = "write") /\ G!Where(task[t]) \in G!Path
    BY <1>1, NewIs
  <2>3. c \in G!Call /\ c.op = task[t].op /\ c.id = task[t].id /\ c.file = new /\ c.pc = pc /\ pc \in {"add", "commit"}
        /\ c.again = task[t].again
    BY <1>1, <2>2 DEF G!Call, G!Step
  <2> HIDE DEF c
  <2>4. task' \in [Task -> G!Call] /\ task'[t] = c /\ \A u \in Task : u # t => task'[u] = task[u]
    <3>1. \A d \in G!Call : G!Become(t, d) => /\ task' \in [Task -> G!Call] /\ task'[t] = d
                                              /\ \A u \in Task : u # t => task'[u] = task[u]
      BY <1>1, Became
    <3> QED BY <2>1, <2>3, <3>1
  <2>5. work' \in TreeIs
    BY <1>1, <2>1, <2>2 DEF TypesInv, TreeIs
  <2> HIDE DEF new
  <2>6. TypesInv'
    BY <1>1, <2>4, <2>5 DEF TypesInv, G!history
  <2>7. TasksInv'
    <3>1. CallIs(c)
      BY <1>1, <1>2, <2>2, <2>3 DEF CallIs, TasksInv
    <3> QED BY <1>1, <2>3, <2>4, <3>1, TasksStay DEF TasksInv
  <2>8. TakenInv'
    BY <1>1, <2>3, <2>4, TakenStays DEF TakenInv, G!history
  <2>9. ASSUME ~crossed' PROVE FilesInv'
    BY <1>1, <1>2, <1>4, <2>1, <2>2, <2>3, <2>4, <2>9, PlacedIn DEF CloneInv, G!history, new
  <2> QED BY <2>6, <2>7, <2>8, <2>9 DEF CloneInv
<1> QED BY <1>3, <1>4

\* So does staging, of whatever the working copy holds by then.
LEMMA AddHolds ==
  ASSUME G!Bounds, CloneInv, NEW t \in Task, G!Add(t)
  PROVE  CloneInv'
<1>1. /\ TypesInv /\ TasksInv /\ TakenInv /\ task[t].pc = "add" /\ task[t] \in G!Call
      /\ UNCHANGED <<browser, remote, head, origin, work, torn, commits, falters, G!history>>
  BY DEF G!Add, CloneInv, TypesInv
<1>2. task[t].op \in {"write", "remove"}
  BY <1>1, WritingIs
<1>3. CASE task[t].op = "write" /\ ~work["log"].there
  <2>1. G!Become(t, G!Idle) /\ UNCHANGED index
    BY <1>3 DEF G!Add, G!Where
  <2>2. /\ task' \in [Task -> G!Call] /\ Quiet /\ TasksInv' /\ task'[t].pc = "idle"
        /\ \A u \in Task : u # t => task'[u] = task[u]
    BY <1>1, <2>1, EndsAs DEF TasksInv
  <2>3. TypesInv' /\ TakenInv'
    BY <1>1, <2>1, <2>2, TakenStays DEF TypesInv, TakenInv, G!history
  <2>4. ~crossed' => FilesInv'
    BY <1>1, <2>1, <2>2, Steady DEF CloneInv, G!history
  <2> QED BY <2>2, <2>3, <2>4 DEF CloneInv
<1>4. CASE ~(task[t].op = "write" /\ ~work["log"].there)
  <2>1. /\ index' = [index EXCEPT ![G!Where(task[t])] = IF task[t].op = "write" THEN work["log"] ELSE task[t].file]
        /\ G!Go(t, "commit") /\ G!Where(task[t]) \in G!Path /\ "log" \in G!Path
    BY <1>4 DEF G!Add, G!Where, G!Path
  <2>2. /\ task' \in [Task -> G!Call]
        /\ task'[t].pc = "commit" /\ task'[t].op = task[t].op /\ task'[t].id = task[t].id /\ task'[t].file = task[t].file
        /\ task'[t].again = task[t].again
        /\ \A u \in Task : u # t => task'[u] = task[u]
    <3>1. "commit" \in G!Step
      BY DEF G!Step
    <3> QED BY <1>1, <2>1, <3>1, GoneOn
  <2>3. index' \in TreeIs
    BY <1>1, <2>1 DEF TypesInv, TreeIs, G!Call
  <2>4. TypesInv'
    BY <1>1, <2>2, <2>3 DEF TypesInv, G!history
  <2>5. TasksInv'
    <3>1. CallIs(task'[t])
      BY <1>1, <1>2, <2>2 DEF CallIs, TasksInv
    <3> QED BY <1>1, <2>2, <3>1, TasksStay DEF TasksInv
  <2>6. TakenInv'
    BY <1>1, <2>2, TakenStays DEF TakenInv, G!history
  <2>7. ASSUME ~crossed' PROVE FilesInv'
    BY <1>1, <1>2, <2>1, <2>2, <2>7, AddedIn DEF CloneInv, G!history
  <2> QED BY <2>4, <2>5, <2>6, <2>7 DEF CloneInv
<1> QED BY <1>3, <1>4

\* So does a commit of the index, unless a merge moved the branch under it.
LEMMA CommitIndexHolds ==
  ASSUME G!Bounds, CloneInv, NEW t \in Task, G!CommitIndex(t)
  PROVE  CloneInv'
<1>1. /\ TypesInv /\ TasksInv /\ TakenInv /\ task[t].pc = "commit" /\ task[t] \in G!Call
      /\ head' = G!Committed(head, index, task[t].id) /\ crossed' = (crossed \/ torn) /\ G!Go(t, "push")
      /\ UNCHANGED <<browser, remote, origin, index, work, torn, commits, falters, ended, beaten, cut>>
  BY DEF G!CommitIndex, CloneInv, TypesInv
<1>2. task[t].op \in {"write", "remove"}
  BY <1>1, WritingIs
<1>3. /\ task' \in [Task -> G!Call]
      /\ task'[t].pc = "push" /\ task'[t].op = task[t].op /\ task'[t].id = task[t].id /\ task'[t].file = task[t].file
      /\ task'[t].again = task[t].again
      /\ \A u \in Task : u # t => task'[u] = task[u]
  <2>1. "push" \in G!Step
    BY DEF G!Step
  <2> QED BY <1>1, <2>1, GoneOn
<1>4. head' \in G!Branch /\ head.has \subseteq head'.has
  <2>1. \A b \in G!Branch, x \in TreeIs, n \in G!Id :
          G!Committed(b, x, n) \in G!Branch /\ G!Committed(b, x, n).has = b.has \cup {n, x["log"].by, x["draft"].by}
    BY CommittedIs
  <2>2. head \in G!Branch /\ index \in TreeIs /\ task[t].id \in G!Id
    BY <1>1 DEF TypesInv, G!Call
  <2> QED BY <1>1, <2>1, <2>2
<1>5. TypesInv'
  BY <1>1, <1>3, <1>4 DEF TypesInv
<1>6. TasksInv'
  <2>1. CallIs(task'[t])
    BY <1>1, <1>2, <1>3 DEF CallIs, TasksInv
  <2> QED BY <1>1, <1>3, <2>1, TasksStay DEF TasksInv
<1>7. TakenInv'
  <2>1. ~task[t].again
    BY <1>1 DEF TasksInv, CallIs
  <2>2. TakenBy(task[t])'
    BY <1>3, <2>1 DEF TakenBy
  <2> QED BY <1>1, <1>3, <1>4, <2>2, TakenStays DEF TakenInv
<1>8. ASSUME ~crossed' PROVE FilesInv'
  BY <1>1, <1>2, <1>3, <1>8, CommittedIn DEF CloneInv
<1> QED BY <1>5, <1>6, <1>7, <1>8 DEF CloneInv

\* An offer that is refused: once it is made again after a pull, twice it is told.
LEMMA RefusedIs ==
  ASSUME G!Bounds, CloneInv, NEW t \in Task, NEW hurt \in BOOLEAN, G!Refused(t, hurt), task[t].pc = "push",
         hurt \/ ~G!Ahead(head, remote), UNCHANGED <<browser, head, origin, index, work, torn, commits, crossed>>,
         remote' = remote \/ (remote' = head /\ G!Ahead(head, remote))
  PROVE  CloneInv'
<1> DEFINE c == [task[t] EXCEPT !.again = TRUE, !.pc = "fetch", !.hurt = task[t].hurt \/ hurt]
<1>1. /\ TypesInv /\ TasksInv /\ TakenInv /\ task[t] \in G!Call /\ task[t].op \in {"write", "remove"}
  BY WritingIs DEF CloneInv, TypesInv
<1>2. G!Become(t, IF task[t].again THEN G!Idle ELSE c) /\ UNCHANGED ended
      /\ beaten' = (beaten \/ (task[t].again /\ ~task[t].hurt /\ ~hurt /\ ~task[t].moved))
  BY DEF G!Refused
<1>3. ~beaten'
  BY <1>1, <1>2 DEF TakenInv, TakenBy
<1>4. /\ task' \in [Task -> G!Call] /\ Quiet /\ TasksInv' /\ task'[t].pc \in {"idle", "fetch"}
      /\ \A u \in Task : u # t => task'[u] = task[u]
  <2>1. CASE task[t].again
    BY <1>1, <1>2, <2>1, EndsAs DEF TasksInv
  <2>2. CASE ~task[t].again
    <3>1. c \in G!Call /\ c.op = task[t].op /\ c.id = task[t].id /\ c.file = task[t].file /\ c.pc = "fetch"
      BY <1>1 DEF G!Call, G!Step
    <3>2. G!Become(t, c)
      BY <1>2, <2>2
    <3> HIDE DEF c
    <3>3. \A d \in G!Call : G!Become(t, d) => /\ task' \in [Task -> G!Call] /\ task'[t] = d
                                              /\ \A u \in Task : u # t => task'[u] = task[u]
      BY <1>1, Became
    <3>4. task' \in [Task -> G!Call] /\ task'[t] = c /\ \A u \in Task : u # t => task'[u] = task[u]
      BY <3>1, <3>2, <3>3
    <3>5. QuietOf(t) /\ CallIs(c)
      BY <1>1, <3>1, <3>4 DEF QuietOf, Late, CallIs, TasksInv
    <3>6. Quiet
      BY <3>4, <3>5, QuietOne
    <3>7. TasksInv'
      BY <1>1, <3>1, <3>4, <3>5, TasksStay DEF TasksInv
    <3> QED BY <3>1, <3>4, <3>6, <3>7
  <2> QED BY <2>1, <2>2
<1>5. TypesInv'
  BY <1>1, <1>2, <1>4 DEF TypesInv
<1>6. TakenInv'
  BY <1>1, <1>3, <1>4, TakenStays
<1>7. ~crossed' => FilesInv'
  BY <1>1, <1>2, <1>4, Steady, Landed DEF CloneInv
<1> QED BY <1>4, <1>5, <1>6, <1>7 DEF CloneInv

\* So does an offer, taken or refused.
LEMMA PushHolds ==
  ASSUME G!Bounds, CloneInv, NEW t \in Task, G!Push(t)
  PROVE  CloneInv'
<1>1. /\ TypesInv /\ TasksInv /\ TakenInv /\ task[t].pc = "push" /\ task[t] \in G!Call
      /\ UNCHANGED <<browser, G!clone, commits, falters, crossed, cut>>
  BY DEF G!Push, CloneInv, TypesInv
<1>2. task[t].op \in {"write", "remove"}
  BY <1>1, WritingIs
<1>3. CASE G!Ahead(head, remote) /\ remote' = head /\ G!Succeed(t) /\ UNCHANGED beaten
  <2>1. G!Become(t, G!Idle) /\ ended' = ended \cup {task[t].file}
    BY <1>3 DEF G!Succeed
  <2>2. /\ task' \in [Task -> G!Call] /\ Quiet /\ TasksInv' /\ task'[t].pc = "idle"
        /\ \A u \in Task : u # t => task'[u] = task[u]
    BY <1>1, <2>1, EndsAs DEF TasksInv, G!clone
  <2>3. TypesInv'
    BY <1>1, <1>3, <2>1, <2>2 DEF TypesInv, G!clone, G!Call
  <2>4. TakenInv'
    BY <1>1, <1>3, <2>2, TakenStays DEF TakenInv, G!clone
  <2>5. ASSUME ~crossed' PROVE FilesInv'
    <3>1. Offers(t)
      BY <1>1, <1>2 DEF Offers, Placed
    <3> QED BY <1>1, <1>3, <2>1, <2>2, <2>5, <3>1, Landed DEF CloneInv, G!clone
  <2> QED BY <2>2, <2>3, <2>4, <2>5 DEF CloneInv
<1>4. CASE ~G!Ahead(head, remote) /\ G!Refused(t, FALSE) /\ UNCHANGED remote
  BY <1>1, <1>4, RefusedIs DEF G!clone
<1> QED BY <1>3, <1>4 DEF G!Push

\* A call that has pulled, ends or offers what it has.
LEMMA PulledOn ==
  ASSUME G!Bounds, TypesInv, TasksInv, NEW t \in Task, task[t].pc \in {"fetch", "merge", "checkout"},
         NEW pc \in {"push", "merge", "checkout"},
         \/ task[t].op = "poll" /\ pc = "push" /\ G!Become(t, G!Idle)
         \/ (task[t].op # "poll" \/ pc # "push") /\ G!Become(t, [task[t] EXCEPT !.pc = pc])
         \/ (task[t].op # "poll" \/ pc # "push") /\ G!Become(t, [task[t] EXCEPT !.pc = pc, !.moved = FALSE]),
         browser' = browser, torn' => browser, pc # "push" => browser
  PROVE  /\ task' \in [Task -> G!Call] /\ Quiet /\ TasksInv'
         /\ \A u \in Task : u # t => task'[u] = task[u]
         /\ task'[t].pc = "idle" \/ task'[t].pc = pc
         /\ \/ task'[t].pc = "idle"
            \/ task'[t].again = task[t].again /\ task'[t].moved = task[t].moved
            \/ G!Become(t, [task[t] EXCEPT !.pc = pc, !.moved = FALSE])
<1>1. task[t] \in G!Call /\ pc \in G!Step /\ FALSE \in BOOLEAN
  BY DEF TypesInv, G!Step
<1>2. CASE G!Become(t, G!Idle)
  BY <1>2, EndsAs
<1>3. ASSUME NEW moved \in BOOLEAN, task[t].op # "poll" \/ pc # "push",
             G!Become(t, [task[t] EXCEPT !.pc = pc, !.moved = moved])
      PROVE  /\ task' \in [Task -> G!Call] /\ Quiet /\ TasksInv'
             /\ \A u \in Task : u # t => task'[u] = task[u]
             /\ task'[t] = [task[t] EXCEPT !.pc = pc, !.moved = moved]
  <2> DEFINE c == [task[t] EXCEPT !.pc = pc, !.moved = moved]
  <2>1. c \in G!Call /\ c.op = task[t].op /\ c.id = task[t].id /\ c.file = task[t].file /\ c.pc = pc
        /\ c.again = task[t].again
    BY <1>1 DEF G!Call
  <2>2. G!Become(t, c)
    BY <1>3
  <2>3. \A d \in G!Call : G!Become(t, d) => /\ task' \in [Task -> G!Call] /\ task'[t] = d
                                            /\ \A u \in Task : u # t => task'[u] = task[u]
    BY Became
  <2>4. task' \in [Task -> G!Call] /\ task'[t] = c /\ \A u \in Task : u # t => task'[u] = task[u]
    BY <2>1, <2>2, <2>3
  <2> HIDE DEF c
  <2>5. CallIs(c)
    BY <1>1, <1>3, <2>1 DEF CallIs, TasksInv
  <2>6. QuietOf(t)
    BY <2>1, <2>4 DEF QuietOf, Late
  <2>7. Quiet
    BY <2>4, <2>6, QuietOne
  <2>8. TasksInv'
    BY <2>1, <2>4, <2>5, TasksStay
  <2> QED BY <2>4, <2>7, <2>8 DEF c
<1>4. CASE (task[t].op # "poll" \/ pc # "push") /\ G!Become(t, [task[t] EXCEPT !.pc = pc])
  <2>1. task[t].moved \in BOOLEAN /\ [task[t] EXCEPT !.pc = pc] = [task[t] EXCEPT !.pc = pc, !.moved = task[t].moved]
    BY <1>1 DEF G!Call
  <2>2. G!Become(t, [task[t] EXCEPT !.pc = pc, !.moved = task[t].moved])
    BY <1>4, <2>1
  <2>3. /\ task' \in [Task -> G!Call] /\ Quiet /\ TasksInv'
        /\ \A u \in Task : u # t => task'[u] = task[u]
        /\ task'[t] = [task[t] EXCEPT !.pc = pc, !.moved = task[t].moved]
    BY <1>3, <1>4, <2>1, <2>2
  <2>4. task'[t].pc = pc /\ task'[t].again = task[t].again /\ task'[t].moved = task[t].moved
    BY <1>1, <2>3 DEF G!Call
  <2> QED BY <2>3, <2>4
<1>5. CASE (task[t].op # "poll" \/ pc # "push") /\ G!Become(t, [task[t] EXCEPT !.pc = pc, !.moved = FALSE])
  <2>1. /\ task' \in [Task -> G!Call] /\ Quiet /\ TasksInv'
        /\ \A u \in Task : u # t => task'[u] = task[u]
        /\ task'[t] = [task[t] EXCEPT !.pc = pc, !.moved = FALSE]
    BY <1>1, <1>3, <1>5
  <2>2. task'[t].pc = pc
    BY <1>1, <2>1 DEF G!Call
  <2> QED BY <1>5, <2>1, <2>2
<1> QED BY <1>2, <1>4, <1>5

\* So does a pull in one command.
LEMMA PullAloneHolds ==
  ASSUME G!Bounds, CloneInv, NEW t \in Task, G!PullAlone(t)
  PROVE  CloneInv'
<1>1. /\ TypesInv /\ TasksInv /\ TakenInv /\ ~browser /\ task[t].pc = "fetch" /\ origin' = remote
      /\ UNCHANGED <<browser, remote, torn, falters, G!history>>
  BY DEF G!PullAlone, CloneInv
<1>2. CASE G!Conflict(head, remote)
  <2>1. G!Become(t, G!Idle) /\ UNCHANGED <<head, index, work, commits>>
    BY <1>2 DEF G!PullAlone, G!Give
  <2>2. /\ task' \in [Task -> G!Call] /\ Quiet /\ TasksInv' /\ task'[t].pc = "idle"
        /\ \A u \in Task : u # t => task'[u] = task[u]
    BY <1>1, <2>1, EndsAs DEF TasksInv
  <2>3. TypesInv' /\ TakenInv'
    BY <1>1, <2>1, <2>2, TakenStays DEF TypesInv, TakenInv, G!history
  <2>4. ~crossed' => FilesInv'
    BY <1>1, <2>1, <2>2, FetchedIn DEF CloneInv, G!history
  <2> QED BY <2>2, <2>3, <2>4 DEF CloneInv
<1>3. CASE ~G!Conflict(head, remote)
  <2>1. /\ G!Parted(head, remote) => commits < MaxCommits
        /\ commits' = commits + (IF G!Parted(head, remote) THEN 1 ELSE 0)
        /\ head' = G!Merged(head, remote) /\ index' = head'.tree /\ work' = head'.tree
        /\ G!Become(t, IF task[t].op = "poll" THEN G!Idle ELSE [task[t] EXCEPT !.pc = "push", !.moved = FALSE])
    BY <1>3 DEF G!PullAlone
  <2>2. /\ task' \in [Task -> G!Call] /\ Quiet /\ TasksInv' /\ task'[t].pc \in {"idle", "push"}
        /\ \A u \in Task : u # t => task'[u] = task[u]
    BY <1>1, <2>1, PulledOn DEF TasksInv
  <2>3. head' \in G!Branch /\ head.has \subseteq head'.has /\ remote.has \subseteq head'.has
    <3>1. head \in G!Branch /\ remote \in G!Branch /\ commits \in G!Id
      BY <1>1 DEF TypesInv
    <3> QED BY <2>1, <3>1, MergedIs
  <2>4. commits' \in G!Id
    BY <1>1, <2>1 DEF TypesInv, G!Id, G!Bounds
  <2>5. TypesInv'
    BY <1>1, <2>1, <2>2, <2>3, <2>4 DEF TypesInv, TreeIs, G!Branch, G!history
  <2>6. TakenInv'
    <3>1. TakenBy(task[t])'
      BY <1>1, <2>2, <2>3 DEF TakenBy, G!Ahead
    <3> QED BY <1>1, <2>2, <2>3, <3>1, TakenStays DEF TakenInv, G!history
  <2>7. ASSUME ~crossed' PROVE FilesInv'
    BY <1>1, <2>1, <2>2, <2>7, MergedIn DEF CloneInv, G!history
  <2> QED BY <2>2, <2>5, <2>6, <2>7 DEF CloneInv
<1> QED BY <1>2, <1>3

\* So does a fetch.
LEMMA FetchHolds ==
  ASSUME G!Bounds, CloneInv, NEW t \in Task, G!Fetch(t)
  PROVE  CloneInv'
<1>1. /\ TypesInv /\ TasksInv /\ TakenInv /\ browser /\ task[t].pc = "fetch" /\ origin' = remote
      /\ G!Become(t, [task[t] EXCEPT !.pc = "merge", !.moved = FALSE])
      /\ UNCHANGED <<browser, remote, head, index, work, torn, commits, falters, G!history>>
  BY DEF G!Fetch, G!Fetched, CloneInv
<1>2. /\ task' \in [Task -> G!Call] /\ Quiet /\ TasksInv' /\ task'[t].pc \in {"idle", "merge"}
      /\ \A u \in Task : u # t => task'[u] = task[u]
  BY <1>1, PulledOn
<1>3. TypesInv'
  BY <1>1, <1>2 DEF TypesInv, G!history
<1>4. TakenInv'
  <2>1. TakenBy(task[t])'
    BY <1>1, <1>2 DEF TakenBy
  <2> QED BY <1>1, <1>2, <2>1, TakenStays DEF TakenInv, G!history
<1>5. ~crossed' => FilesInv'
  BY <1>1, <1>2, FetchedIn DEF CloneInv, G!history
<1> QED BY <1>2, <1>3, <1>4, <1>5 DEF CloneInv

\* So does a merge, that leaves the index and the working copy behind.
LEMMA MergeHolds ==
  ASSUME G!Bounds, CloneInv, NEW t \in Task, G!Merge(t)
  PROVE  CloneInv'
<1>1. /\ TypesInv /\ TasksInv /\ TakenInv /\ browser /\ task[t].pc = "merge"
      /\ UNCHANGED <<browser, remote, origin, index, work, falters, G!history>>
  BY DEF G!Merge, CloneInv, TasksInv, CallIs
<1>2. CASE G!Conflict(head, origin)
  <2>1. G!Become(t, G!Idle) /\ UNCHANGED <<head, torn, commits>>
    BY <1>2 DEF G!Merge, G!Give
  <2>2. /\ task' \in [Task -> G!Call] /\ Quiet /\ TasksInv' /\ task'[t].pc = "idle"
        /\ \A u \in Task : u # t => task'[u] = task[u]
    BY <1>1, <2>1, EndsAs
  <2>3. TypesInv' /\ TakenInv'
    BY <1>1, <2>1, <2>2, TakenStays DEF TypesInv, TakenInv, G!history
  <2>4. ~crossed' => FilesInv'
    BY <1>1, <2>1, <2>2, Steady DEF CloneInv, G!history
  <2> QED BY <2>2, <2>3, <2>4 DEF CloneInv
<1>3. CASE ~G!Conflict(head, origin)
  <2>1. /\ G!Parted(head, origin) => commits < MaxCommits
        /\ commits' = commits + (IF G!Parted(head, origin) THEN 1 ELSE 0)
        /\ head' = G!Merged(head, origin) /\ torn' = (torn \/ head' # head) /\ G!Go(t, "checkout")
    BY <1>3 DEF G!Merge
  <2>2. /\ task' \in [Task -> G!Call] /\ Quiet /\ TasksInv' /\ task'[t].pc \in {"idle", "checkout"}
        /\ \A u \in Task : u # t => task'[u] = task[u]
    BY <1>1, <2>1, PulledOn DEF G!Go
  <2>3. head' \in G!Branch /\ head.has \subseteq head'.has /\ origin.has \subseteq head'.has
    <3>1. head \in G!Branch /\ origin \in G!Branch /\ commits \in G!Id
      BY <1>1 DEF TypesInv
    <3> QED BY <2>1, <3>1, MergedIs
  <2>4. commits' \in G!Id
    BY <1>1, <2>1 DEF TypesInv, G!Id, G!Bounds
  <2>5. TypesInv'
    BY <1>1, <2>1, <2>2, <2>3, <2>4 DEF TypesInv, G!history
  <2>6. TakenInv'
    <3>1. task'[t].moved = task[t].moved
      <4>1. "checkout" \in G!Step
        BY DEF G!Step
      <4> QED BY <1>1, <2>1, <4>1, GoneOn
    <3>2. TakenBy(task[t])'
      <4>1. ~task[t].moved => remote.has \subseteq head.has \cup origin.has
        BY <1>1 DEF TakenInv, TakenBy
      <4> QED BY <1>1, <2>2, <2>3, <3>1, <4>1 DEF TakenBy, G!Ahead
    <3> QED BY <1>1, <2>2, <2>3, <3>2, TakenStays DEF TakenInv, G!history
  <2>7. ASSUME ~crossed' PROVE FilesInv'
    <3>1. torn' \/ (head' = head /\ torn' = torn)
      BY <1>1, <2>1 DEF TypesInv
    <3> QED BY <1>1, <2>1, <2>2, <2>7, <3>1, MergedIn DEF CloneInv, G!history
  <2> QED BY <2>2, <2>5, <2>6, <2>7 DEF CloneInv
<1> QED BY <1>2, <1>3

\* So does the checkout that brings them after, unless a commit is half made.
LEMMA CheckoutHolds ==
  ASSUME G!Bounds, CloneInv, NEW t \in Task, G!Checkout(t)
  PROVE  CloneInv'
<1>1. /\ TypesInv /\ TasksInv /\ TakenInv /\ task[t].pc = "checkout"
      /\ index' = head.tree /\ work' = [p \in G!Path |-> G!CheckedOut(p)] /\ torn' = FALSE
      /\ crossed' = (crossed \/ \E u \in Task : G!Committing(task[u])) /\ G!AfterPull(t)
      /\ UNCHANGED <<browser, remote, head, origin, commits, falters, ended, beaten, cut>>
  BY DEF G!Checkout, CloneInv
<1>2. /\ task[t].op = "poll" => G!Become(t, G!Idle)
      /\ task[t].op # "poll" => G!Go(t, "push")
  BY <1>1 DEF G!AfterPull
<1>3. /\ task' \in [Task -> G!Call] /\ Quiet /\ TasksInv' /\ task'[t].pc \in {"idle", "push"}
      /\ \A u \in Task : u # t => task'[u] = task[u]
  BY <1>1, <1>2, PulledOn DEF G!Go
<1>4. work' \in TreeIs /\ index' \in TreeIs
  <2>1. \A p \in G!Path : G!CheckedOut(p) \in G!File
    BY <1>1 DEF G!CheckedOut, TypesInv, TreeIs, G!Branch
  <2> QED BY <1>1, <2>1 DEF TreeIs, TypesInv, G!Branch
<1>5. TypesInv'
  BY <1>1, <1>3, <1>4 DEF TypesInv
<1>6. TakenInv'
  <2>1. task'[t].pc = "push" => task'[t].moved = task[t].moved
    <3>1. task[t].op = "poll" => task'[t].pc = "idle"
      BY <1>1, <1>2, EndsAs DEF TasksInv, CallIs
    <3>2. task[t].op # "poll" => task'[t].moved = task[t].moved
      <4>1. "push" \in G!Step
        BY DEF G!Step
      <4> QED BY <1>1, <1>2, <4>1, GoneOn
    <3> QED BY <3>1, <3>2
  <2>2. TakenBy(task[t])'
    <3>1. ~task[t].moved => G!Ahead(head, remote)
      BY <1>1 DEF TakenInv, TakenBy
    <3> QED BY <1>1, <1>3, <2>1, <3>1 DEF TakenBy, G!Ahead
  <2> QED BY <1>1, <1>3, <2>2, TakenStays DEF TakenInv
<1>7. ASSUME ~crossed' PROVE FilesInv'
  BY <1>1, <1>3, <1>7, CheckedOutIn DEF CloneInv, G!Committing
<1> QED BY <1>3, <1>5, <1>6, <1>7 DEF CloneInv

\* So does a request that fails, whether or not the host took it.
LEMMA UnreachedHolds ==
  ASSUME G!Bounds, CloneInv, NEW t \in Task, G!Unreached(t)
  PROVE  CloneInv'
<1>1. /\ TypesInv /\ TasksInv /\ TakenInv /\ UNCHANGED <<browser, G!clone, commits, crossed, cut>>
  BY DEF G!Unreached, CloneInv
<1>2. CASE task[t].pc = "push" /\ G!Refused(t, TRUE) /\ (remote' = remote \/ (G!Ahead(head, remote) /\ remote' = head))
  BY <1>1, <1>2, RefusedIs DEF G!clone
<1>3. CASE task[t].pc = "fetch" /\ G!Give(t) /\ UNCHANGED <<remote, ended, beaten>>
  <2>1. G!Become(t, G!Idle)
    BY <1>3 DEF G!Give
  <2>2. /\ task' \in [Task -> G!Call] /\ Quiet /\ TasksInv' /\ task'[t].pc = "idle"
        /\ \A u \in Task : u # t => task'[u] = task[u]
    BY <1>1, <2>1, EndsAs DEF TasksInv, G!clone
  <2>3. TypesInv' /\ TakenInv'
    BY <1>1, <1>3, <2>2, TakenStays DEF TypesInv, TakenInv, G!clone
  <2>4. ~crossed' => FilesInv'
    BY <1>1, <1>3, <2>2, Steady DEF CloneInv, G!clone
  <2> QED BY <2>2, <2>3, <2>4 DEF CloneInv
<1> QED BY <1>2, <1>3 DEF G!Unreached

\* So does the page going away.
LEMMA CloseHolds ==
  ASSUME G!Bounds, CloneInv, G!Close
  PROVE  CloneInv'
<1>1. /\ TypesInv /\ TasksInv /\ TakenInv /\ task' = [t \in Task |-> G!Idle]
      /\ UNCHANGED <<browser, remote, G!clone, commits, ended, beaten, crossed>>
  BY DEF G!Close, CloneInv
<1>2. G!Idle \in G!Call /\ G!Idle.op = "none" /\ G!Idle.pc = "idle"
  BY IdleIs
<1>3. task' \in [Task -> G!Call] /\ \A u \in Task : task'[u].op = "none" /\ task'[u].pc = "idle"
  BY <1>1, <1>2
<1>4. TypesInv'
  BY <1>1, <1>3 DEF TypesInv, G!clone
<1>5. TasksInv'
  BY <1>1, <1>3 DEF TasksInv, CallIs, G!clone
<1>6. TakenInv'
  BY <1>1, <1>3 DEF TakenInv, TakenBy
<1>7. Quiet
  BY <1>3 DEF Quiet, QuietOf
<1>8. ~crossed' => FilesInv'
  BY <1>1, <1>7, Steady DEF CloneInv, G!clone
<1> QED BY <1>4, <1>5, <1>6, <1>8 DEF CloneInv

\* So does a commit of the agent.
LEMMA ElsewhereHolds ==
  ASSUME G!Bounds, CloneInv, G!Elsewhere
  PROVE  CloneInv'
<1> DEFINE file == [by |-> commits + 1, there |-> TRUE, over |-> remote.tree["draft"].by]
           tree == [remote.tree EXCEPT !["draft"] = file]
<1>1. /\ TypesInv /\ TasksInv /\ TakenInv /\ commits < MaxCommits /\ commits' = commits + 1
      /\ remote' = G!Committed(remote, tree, commits + 1)
      /\ task' = [t \in Task |-> [task[t] EXCEPT !.moved = TRUE]]
      /\ UNCHANGED <<browser, G!clone, falters, G!history>>
  BY DEF G!Elsewhere, CloneInv
<1>2. commits + 1 \in G!Id
  BY <1>1 DEF TypesInv, G!Id, G!Bounds
<1>3. file \in G!File /\ file.by = commits + 1 /\ file.there
  BY <1>1, <1>2 DEF G!File, TypesInv, G!Branch, G!Path
<1>4. tree \in TreeIs
  BY <1>1, <1>3 DEF TypesInv, G!Branch, TreeIs
<1>5. \A t \in Task : /\ task'[t] \in G!Call /\ task'[t].moved
                      /\ task'[t].op = task[t].op /\ task'[t].pc = task[t].pc /\ task'[t].id = task[t].id
                      /\ task'[t].file = task[t].file /\ task'[t].again = task[t].again
  BY <1>1 DEF TypesInv, G!Call
<1> HIDE DEF file
<1>6. remote' \in G!Branch
  <2>1. \A b \in G!Branch, x \in TreeIs, n \in G!Id : G!Committed(b, x, n) \in G!Branch
    BY CommittedIs
  <2>2. remote \in G!Branch
    BY <1>1 DEF TypesInv
  <2> QED BY <1>1, <1>2, <1>4, <2>1, <2>2
<1>7. TypesInv'
  BY <1>1, <1>2, <1>5, <1>6 DEF TypesInv, G!clone, G!history
<1>8. TasksInv'
  <2>1. \A u \in Task : CallIs(task'[u])
    BY <1>1, <1>5 DEF TasksInv, CallIs
  <2>2. \A u, v \in Task : task'[u].op = task'[v].op /\ task'[u].op \notin {"none", "poll"} => u = v
    BY <1>1, <1>5 DEF TasksInv
  <2> QED BY <1>1, <2>1, <2>2 DEF TasksInv, CallIs, G!clone
<1>9. TakenInv'
  BY <1>1, <1>5 DEF TakenInv, TakenBy, G!history
<1>10. Quiet
  BY <1>5 DEF Quiet, QuietOf
<1>11. ASSUME ~crossed' PROVE FilesInv'
  BY <1>1, <1>3, <1>10, <1>11, WrittenElsewhere DEF CloneInv, G!clone, G!history
<1> QED BY <1>7, <1>8, <1>9, <1>11 DEF CloneInv

\* A clone begins so.
THEOREM CloneInvInit == G!Bounds /\ G!Init => CloneInv
<1> SUFFICES ASSUME G!Bounds, G!Init PROVE CloneInv
  OBVIOUS
<1> DEFINE tree == [p \in G!Path |-> IF p = "draft" THEN G!First ELSE G!Nothing]
<1>1. {0, 1} \subseteq G!Id
  BY DEF G!Id, G!Bounds
<1>2. /\ G!First.by = 1 /\ G!First.there /\ G!Nothing.by = 0 /\ ~G!Nothing.there /\ G!First \in G!File /\ G!Nothing \in G!File
  BY <1>1 DEF G!First, G!Nothing, G!File
<1>3. /\ tree["draft"] = G!First /\ tree["log"] = G!Nothing /\ tree \in TreeIs
  BY <1>2 DEF G!Path, TreeIs
<1>4. /\ remote.tree = tree /\ remote.has = {0, 1} /\ remote \in G!Branch
      /\ head = remote /\ origin = remote /\ index = tree /\ work = tree
  BY <1>1, <1>3 DEF G!Init, G!Branch, TreeIs
<1> HIDE DEF tree
<1>5. /\ Branches = {remote} /\ Drafts = {G!First} /\ Logs = {G!Nothing} /\ Base = 1
  BY <1>2, <1>3, <1>4 DEF Branches, Drafts, Logs, Of, Base
<1>6. G!Idle \in G!Call /\ \A t \in Task : task[t] = G!Idle /\ task[t].op = "none" /\ task[t].pc = "idle"
  BY IdleIs DEF G!Init
<1>7. Removals = {} /\ Wrote = {0} /\ Removed = {} /\ Own = {0}
  <2>1. Removing = {} /\ Ids("write") = {} /\ Ids("remove") = {}
    BY <1>6 DEF Removing, Ids, Asks
  <2>2. ended = {}
    BY DEF G!Init
  <2> QED BY <1>2, <1>5, <2>1, <2>2 DEF Removals, Wrote, Removed, Own
<1>8. TypesInv
  BY <1>1, <1>3, <1>4, <1>6 DEF G!Init, TypesInv
<1>9. TasksInv /\ TakenInv
  BY <1>6 DEF G!Init, TasksInv, TakenInv, CallIs, TakenBy
<1>10. HasInv
  BY <1>2, <1>3, <1>4, <1>5, <1>6, <1>7 DEF G!Init, HasInv, G!Path
<1>11. LogInv
  BY <1>2, <1>3, <1>4, <1>6 DEF G!Init, LogInv, Asks
<1>12. VersionsInv
  BY <1>2, <1>3, <1>4, <1>5, <1>6, <1>7 DEF VersionsInv, Asks
<1>13. RemovedInv
  BY <1>6, <1>7 DEF G!Init, RemovedInv, Offers, Placed
<1>14. SeenInv
  BY <1>2, <1>3, <1>4, <1>5 DEF SeenInv
<1>15. CopiesInv
  BY <1>3, <1>4, <1>6 DEF CopiesInv, Asks
<1> QED BY <1>8, <1>9, <1>10, <1>11, <1>12, <1>13, <1>14, <1>15 DEF CloneInv, FilesInv

\* Every step keeps it so.
THEOREM CloneInvStep == G!Bounds /\ CloneInv /\ G!Next => CloneInv'
<1> SUFFICES ASSUME G!Bounds, CloneInv, G!Next PROVE CloneInv'
  OBVIOUS
<1>1. ASSUME NEW t \in Task, NEW op \in G!Op \ {"none"}, G!Begin(t, op) PROVE CloneInv'
  BY <1>1, BeginHolds
<1>2. ASSUME NEW t \in Task, G!CommitAlone(t) \/ G!Place(t) \/ G!Add(t) \/ G!CommitIndex(t) \/ G!Push(t) PROVE CloneInv'
  BY <1>2, CommitAloneHolds, PlaceHolds, AddHolds, CommitIndexHolds, PushHolds
<1>3. ASSUME NEW t \in Task, G!PullAlone(t) \/ G!Fetch(t) \/ G!Merge(t) \/ G!Checkout(t) \/ G!Unreached(t) PROVE CloneInv'
  BY <1>3, PullAloneHolds, FetchHolds, MergeHolds, CheckoutHolds, UnreachedHolds
<1>4. CASE G!Close
  BY <1>4, CloseHolds
<1>5. CASE G!Elsewhere
  BY <1>5, ElsewhereHolds
<1> QED BY <1>1, <1>2, <1>3, <1>4, <1>5 DEF G!Next

\* And so does a step of something else.
THEOREM CloneInvStutter == CloneInv /\ UNCHANGED G!vars => CloneInv'
<1> SUFFICES ASSUME CloneInv, UNCHANGED G!vars PROVE CloneInv'
  OBVIOUS
<1>1. UNCHANGED <<browser, remote, head, origin, index, work, torn, task, commits, falters, ended, beaten, crossed, cut>>
  BY DEF G!vars, G!clone, G!history
<1>2. TypesInv' /\ TasksInv' /\ TakenInv'
  BY <1>1 DEF CloneInv, TypesInv, TasksInv, TakenInv, CallIs, TakenBy, G!Ahead
<1>3. Quiet
  BY <1>1 DEF Quiet, QuietOf
<1>4. ~crossed' => FilesInv'
  BY <1>1, <1>3, Steady DEF CloneInv
<1> QED BY <1>2, <1>4 DEF CloneInv

\* It says what the answers promise.
THEOREM CloneInvMeans == CloneInv => G!AnsweredMeansLanded /\ G!BeatenOnceLands
<1> SUFFICES ASSUME CloneInv PROVE G!AnsweredMeansLanded /\ G!BeatenOnceLands
  OBVIOUS
<1>1. G!BeatenOnceLands
  BY DEF CloneInv, TakenInv, G!BeatenOnceLands
<1>2. ASSUME ~crossed, NEW f \in ended, f.there PROVE remote.tree["log"].by >= f.by
  BY <1>2 DEF CloneInv, FilesInv, LogInv, TypesInv, G!Branch, G!Path, G!File, G!Id
<1>3. ASSUME ~crossed, NEW f \in ended, ~f.there PROVE remote.tree["draft"].by # f.over
  <2>1. f \in Removals /\ remote \in Branches
    BY <1>3 DEF Removals, Branches
  <2> QED BY <1>3, <2>1 DEF CloneInv, FilesInv, RemovedInv
<1> QED BY <1>1, <1>2, <1>3 DEF G!AnsweredMeansLanded

\* A push replaces the agent's version the clone stands for, and no other.
THEOREM ReplacesStep == G!Bounds /\ CloneInv /\ G!Next => G!ReplacesWhatWasSeen
<1> SUFFICES ASSUME G!Bounds, CloneInv, G!Next, ~crossed, remote.tree["draft"].there,
                    remote'.tree["draft"] # remote.tree["draft"]
             PROVE  remote'.tree["draft"].over = remote.tree["draft"].by
  BY DEF G!ReplacesWhatWasSeen
<1>1. FilesInv /\ TypesInv
  BY DEF CloneInv
<1>2. CASE remote' = head /\ G!Ahead(head, remote)
  <2>1. remote.tree["draft"].by \in head.has
    BY <1>1, <1>2 DEF FilesInv, HasInv, Branches, G!Path, G!Ahead
  <2>2. Base = remote.tree["draft"].by
    BY <1>1, <2>1 DEF FilesInv, SeenInv
  <2>3. ~head.tree["draft"].there
    <3>1. head.tree["draft"] \in Drafts /\ remote.tree["draft"] \in Drafts
      BY DEF Drafts, Of
    <3> QED BY <1>1, <1>2, <2>2, <3>1 DEF FilesInv, VersionsInv, Base
  <2> QED BY <1>2, <2>2, <2>3 DEF Base
<1>3. CASE G!Elsewhere
  <2> DEFINE file == [by |-> commits + 1, there |-> TRUE, over |-> remote.tree["draft"].by]
             tree == [remote.tree EXCEPT !["draft"] = file]
  <2>1. remote' = G!Committed(remote, tree, commits + 1)
    BY <1>3 DEF G!Elsewhere
  <2>2. tree["draft"] = file
    BY <1>1 DEF TypesInv, G!Branch, G!Path
  <2> QED BY <2>1, <2>2 DEF G!Committed
<1>4. remote' = remote \/ (remote' = head /\ G!Ahead(head, remote)) \/ G!Elsewhere
  BY DEF G!Next, G!Begin, G!CommitAlone, G!Place, G!Add, G!CommitIndex, G!Push, G!PullAlone, G!Fetch, G!Merge, G!Checkout, G!Unreached, G!Close
<1> QED BY <1>2, <1>3, <1>4

\* What the app was told is on the host is there, and a send that was beaten once
\* gets through (git.js write, remove and _send).
THEOREM AnswersAreOnTheHost == ASSUME G!Bounds PROVE G!Spec => [](G!AnsweredMeansLanded /\ G!BeatenOnceLands)
<1>1. G!Init => CloneInv
  BY CloneInvInit
<1>2. CloneInv /\ [G!Next]_G!vars => CloneInv'
  BY CloneInvStep, CloneInvStutter
<1>3. CloneInv => G!AnsweredMeansLanded /\ G!BeatenOnceLands
  BY CloneInvMeans
<1> QED BY <1>1, <1>2, <1>3, PTL DEF G!Spec

\* The host's draft is only ever replaced by one who had read it: the agent writes
\* over its own, and this device removes the very version that was read (git.js
\* _send, "refused rather than lost").
THEOREM HostKeepsWhatIsUnseen == ASSUME G!Bounds PROVE G!Spec => [][G!ReplacesWhatWasSeen]_G!vars
<1>1. G!Init => CloneInv
  BY CloneInvInit
<1>2. CloneInv /\ [G!Next]_G!vars => CloneInv'
  BY CloneInvStep, CloneInvStutter
<1>3. CloneInv /\ [G!Next]_G!vars => [G!ReplacesWhatWasSeen]_G!vars
  BY ReplacesStep
<1> QED BY <1>1, <1>2, <1>3, PTL DEF G!Spec

-------------------------------------------------------------------------------
(* The storages behind the adapter (Backends).                               *)

\* A storage as it looks from outside, and a call under way.
Shown(s) == [p \in Path |-> IF s[p] # B!Unwritten THEN s[p] ELSE IF p \in Seeded THEN B!Seed ELSE B!Nothing]
Views == [Path -> B!Content]
Requested ==
  [what : {"list", "read", "write", "remove"}, path : Path \cup {0}, bytes : B!Content,
   phase : {"first", "look", "second"}, saw : B!Content, at : Path \cup {0}, found : SUBSET Path,
   was : SUBSET Views]

\* What a walk has behind it: what was there all along it has, and nothing else.
Behind(c) == {q \in Path : q < c.at \/ (q = c.at /\ c.phase # "look")}
Walked(c) ==
  /\ \A q \in Behind(c) : (\A v \in c.was : v[q] # B!Nothing) => q \in c.found
  /\ \A q \in c.found : \E v \in c.was : v[q] # B!Nothing

\* What a call knows of the storage was so while it watched.
Right(c, view, k) ==
  /\ view \in c.was
  /\ c.what = "list" => Walked(c)
  /\ c.what # "list" => c.path \in Path
  /\ c.what = "write" => c.bytes \in 3..(MaxWrites + 2)
  /\ c.saw = B!Hollow => k = "folder"
  /\ c.phase = "second" => c.what # "list" /\ \E v \in c.was : v[c.path] = c.saw

StoreRight ==
  /\ kind \in B!Kind /\ store \in [Path -> B!Content]
  /\ \A p \in Path : (store[p] = B!Unwritten => kind = "demo") /\ (store[p] = B!Hollow => kind = "folder")
CallsRight ==
  /\ call \in [Task -> Requested \cup {B!Idle}]
  /\ \A t \in Task : call[t] # B!Idle => Right(call[t], Shown(store), kind)
CountsRight ==
  /\ writes \in 0..MaxWrites /\ removals \in 0..MaxRemovals
  /\ calls \in 0..MaxCalls /\ losses \in 0..MaxFalters

BackendsInv == StoreRight /\ CallsRight /\ CountsRight

\* The paths are numbers, and what an unwritten path shows is nothing written.
LEMMA BackendsAre ==
  ASSUME B!Bounds
  PROVE  /\ (\A p \in Path : p \in Nat /\ p > 0) /\ Seeded \subseteq Path
         /\ PageSize \in Nat \ {0} /\ MaxWrites \in Nat /\ MaxRemovals \in Nat /\ MaxCalls \in Nat
         /\ MaxFalters \in Nat
         /\ {B!Nothing, B!Hollow, B!Seed, B!Unwritten} \subseteq B!Content
         /\ 3..(MaxWrites + 2) \subseteq B!Content
         /\ B!Nothing = 0 /\ B!Hollow = 1 /\ B!Seed = 2 /\ B!Unwritten \notin 0..(MaxWrites + 2)
<1>1. MaxWrites \in Nat
  BY DEF B!Bounds
<1> QED BY <1>1 DEF B!Bounds, B!Content, B!Nothing, B!Hollow, B!Seed, B!Unwritten

\* What is there is what the storage shows.
LEMMA ViewIs ==
  /\ B!View = Shown(store) /\ B!View' = Shown(store')
  /\ \A p \in Path : B!At(p) = Shown(store)[p]
  /\ B!Named = {p \in Path : Shown(store)[p] # B!Nothing}
BY DEF B!View, B!At, B!Named, Shown, B!Unwritten, B!Seed, B!Nothing

\* A storage shows something of every path; what was put there, if it was.
LEMMA ShownIs ==
  ASSUME B!Bounds, NEW s \in [Path -> B!Content]
  PROVE  /\ Shown(s) \in Views
         /\ \A p \in Path : s[p] # B!Unwritten => Shown(s)[p] = s[p]
         /\ \A p \in Path : Shown(s)[p] = B!Hollow => s[p] = B!Hollow
<1>1. /\ B!Unwritten \in B!Content /\ B!Seed \in B!Content /\ B!Nothing \in B!Content
      /\ B!Nothing = 0 /\ B!Hollow = 1 /\ B!Seed = 2
  BY BackendsAre
<1>2. \A p \in Path : Shown(s)[p] = IF s[p] # B!Unwritten THEN s[p] ELSE IF p \in Seeded THEN B!Seed ELSE B!Nothing
  BY DEF Shown
<1>3. \A p \in Path : Shown(s)[p] \in B!Content
  BY <1>1, <1>2
<1>4. Shown(s) \in Views
  BY <1>3 DEF Shown, Views
<1> QED BY <1>1, <1>2, <1>4

\* No call under way is none.
LEMMA NoneIsNone == B!Idle \notin Requested
BY DEF B!Idle, Requested

\* A call that watches the storage change knows as much as before.
LEMMA WatchingKeeps ==
  ASSUME NEW c \in Requested, NEW old, NEW view \in Views, NEW k, Right(c, old, k)
  PROVE  LET w == [c EXCEPT !.was = @ \cup {view}]
         IN  w \in Requested /\ Right(w, view, k)
<1> DEFINE w == [c EXCEPT !.was = @ \cup {view}]
<1>1. w \in Requested /\ w.was = c.was \cup {view}
  BY DEF Requested
<1>2. /\ w.what = c.what /\ w.path = c.path /\ w.bytes = c.bytes /\ w.phase = c.phase
      /\ w.saw = c.saw /\ w.at = c.at /\ w.found = c.found
  BY DEF Requested
<1> HIDE DEF w
<1>3. Walked(c) => Walked(w)
  BY <1>1, <1>2 DEF Walked, Behind
<1>4. Right(w, view, k)
  BY <1>1, <1>2, <1>3 DEF Right
<1> QED BY <1>1, <1>4 DEF w

\* The calls stay right when one of them goes on or ends, and all see the change.
LEMMA WatchedRight ==
  ASSUME CallsRight, Shown(store') \in Views, kind' = kind,
         NEW c, c \in [Task -> Requested \cup {B!Idle}],
         \A t \in Task : c[t] # B!Idle => Right(c[t], Shown(store), kind),
         call' = B!Watched(c)
  PROVE  CallsRight'
<1> DEFINE v == Shown(store')
<1>1. call' = [t \in Task |-> IF c[t] = B!Idle THEN B!Idle ELSE [c[t] EXCEPT !.was = @ \cup {v}]]
  BY ViewIs DEF B!Watched
<1> HIDE DEF v
<1>2. ASSUME NEW t \in Task
      PROVE  call'[t] \in Requested \cup {B!Idle} /\ (call'[t] # B!Idle => Right(call'[t], v, kind))
  <2>1. CASE c[t] = B!Idle
    BY <1>1, <2>1
  <2>2. CASE c[t] # B!Idle
    <3>1. c[t] \in Requested /\ Right(c[t], Shown(store), kind)
      BY <2>2
    <3>2. call'[t] = [c[t] EXCEPT !.was = @ \cup {v}]
      BY <1>1, <2>2
    <3>3. v \in Views
      BY DEF v
    <3> QED BY <3>1, <3>2, <3>3, WatchingKeeps
  <2> QED BY <2>1, <2>2
<1>3. call' \in [Task -> Requested \cup {B!Idle}]
  BY <1>1, <1>2
<1>4. (CallsRight)' <=>
        /\ call' \in [Task -> Requested \cup {B!Idle}]
        /\ \A t \in Task : call'[t] # B!Idle => Right(call'[t], v, kind')
  BY DEF CallsRight, Requested, Views, B!Idle, Right, Walked, Behind, Shown, v, B!Unwritten, B!Seed, B!Nothing,
     B!Hollow, B!Content
<1> QED BY <1>2, <1>3, <1>4

\* What an answer must say, of the storage before and after it.
Truth(c, old, view, k, ok, found, bytes) ==
  LET was == c.was \cup {view}
  IN  /\ ok /\ c.what = "list" => \A q \in Path :
           /\ (\A v \in was : v[q] # B!Nothing) => q \in found
           /\ q \in found => \E v \in was : v[q] # B!Nothing
      /\ ok /\ c.what = "read" => (\E v \in was : v[c.path] = bytes) /\ (bytes = B!Hollow => k = "folder")
      /\ ok /\ c.what = "write" => \E v \in was : v[c.path] = c.bytes
      /\ ok /\ c.what = "remove" => \E v \in was : v[c.path] = B!Nothing
      /\ k = "github" /\ c.what \in {"write", "remove"} /\ view[c.path] # old[c.path] => c.saw = old[c.path]

\* A call under way.
LEMMA UnderWay ==
  ASSUME CallsRight, NEW t \in Task, B!Busy(t)
  PROVE  /\ call[t] \in Requested /\ Right(call[t], Shown(store), kind) /\ call[t] # B!Idle
         /\ call[t].what \in {"list", "read", "write", "remove"} /\ call[t].path \in Path \cup {0}
         /\ call[t].bytes \in B!Content /\ call[t].phase \in {"first", "look", "second"}
         /\ call[t].saw \in B!Content /\ call[t].at \in Path \cup {0} /\ call[t].found \in SUBSET Path
         /\ call[t].was \in SUBSET Views /\ Shown(store) \in call[t].was
<1>1. call[t] \in Requested /\ Right(call[t], Shown(store), kind) /\ call[t] # B!Idle
  BY DEF CallsRight, B!Busy
<1> QED BY <1>1 DEF Requested, Right

\* A storage left alone stays what it is.
LEMMA SameStore ==
  ASSUME StoreRight, UNCHANGED <<kind, store>>
  PROVE  StoreRight' /\ Shown(store') = Shown(store)
BY DEF StoreRight, B!Kind, B!Unwritten, B!Hollow, B!Content

\* Something is put in one place.
LEMMA PutsRight ==
  ASSUME B!Bounds, StoreRight, kind' = kind, NEW p \in Path, NEW b \in B!Content,
         b = B!Unwritten => kind = "demo", b = B!Hollow => kind = "folder", B!Puts(p, b)
  PROVE  /\ StoreRight' /\ store' \in [Path -> B!Content] /\ (b # B!Unwritten => Shown(store')[p] = b)
<1>1. /\ store' \in [Path -> B!Content] /\ store'[p] = b
      /\ \A q \in Path \ {p} : store'[q] = store[q]
  BY DEF B!Puts, StoreRight
<1>2. StoreRight'
  BY <1>1 DEF StoreRight, B!Kind, B!Unwritten, B!Hollow, B!Content
<1>3. b # B!Unwritten => Shown(store')[p] = b
  BY <1>1, ShownIs
<1> QED BY <1>1, <1>2, <1>3

\* A call goes on.
LEMMA GoesRight ==
  ASSUME B!Bounds, StoreRight, CallsRight, store' \in [Path -> B!Content], kind' = kind, NEW t \in Task,
         NEW new \in Requested, Right(new, Shown(store), kind), B!Goes(t, new)
  PROVE  CallsRight' /\ B!AnswersHold
<1>1. Shown(store') \in Views
  BY ShownIs
<1> DEFINE c == [call EXCEPT ![t] = new]
<1>2. c \in [Task -> Requested \cup {B!Idle}] /\ \A u \in Task : c[u] # B!Idle => Right(c[u], Shown(store), kind)
  BY DEF CallsRight
<1>3. call' = B!Watched(c)
  BY DEF B!Goes
<1> HIDE DEF c
<1>4. CallsRight'
  BY <1>1, <1>2, <1>3, WatchedRight
<1>5. told'.what = "none"
  BY DEF B!Goes, B!Silence
<1> QED BY <1>4, <1>5 DEF B!AnswersHold

\* A call is answered with the truth, or fails.
LEMMA AnswerRight ==
  ASSUME B!Bounds, StoreRight, CallsRight, store' \in [Path -> B!Content], kind' = kind, NEW t \in Task, B!Busy(t),
         NEW ok \in BOOLEAN, NEW found, NEW bytes,
         Truth(call[t], Shown(store), Shown(store'), kind, ok, found, bytes), B!Answer(t, ok, found, bytes)
  PROVE  CallsRight' /\ B!AnswersHold
<1>1. Shown(store') \in Views
  BY ShownIs
<1> DEFINE c == [call EXCEPT ![t] = B!Idle]
<1>2. c \in [Task -> Requested \cup {B!Idle}] /\ \A u \in Task : c[u] # B!Idle => Right(c[u], Shown(store), kind)
  BY DEF CallsRight
<1>3. call' = B!Watched(c)
  BY DEF B!Answer
<1> HIDE DEF c
<1>4. CallsRight'
  BY <1>1, <1>2, <1>3, WatchedRight
<1>5. /\ told'.what = call[t].what /\ told'.ok = ok /\ told'.task = t
      /\ told'.found = found /\ told'.bytes = bytes
  BY DEF B!Answer
<1>6. call[t].what \in {"list", "read", "write", "remove"}
  BY UnderWay
<1>7. B!AnswersHold
  <2>1. Truth(call[told'.task], B!View, B!View', kind, told'.ok, told'.found, told'.bytes)
    BY <1>5, ViewIs
  <2>2. call[told'.task].what \in {"list", "read", "write", "remove"}
    BY <1>5, <1>6
  <2> QED BY <2>1, <2>2 DEF Truth, B!AnswersHold
<1> QED BY <1>4, <1>7

\* One that fails leaves the storage alone.
LEMMA FailsRight ==
  ASSUME B!Bounds, StoreRight, CallsRight, UNCHANGED <<kind, store>>, NEW t \in Task, B!Busy(t), B!Fails(t)
  PROVE  StoreRight' /\ CallsRight' /\ B!AnswersHold
<1>1. StoreRight' /\ Shown(store') = Shown(store) /\ store' \in [Path -> B!Content]
  BY SameStore DEF StoreRight
<1>2. Truth(call[t], Shown(store), Shown(store'), kind, FALSE, {}, B!Nothing)
  BY <1>1 DEF Truth
<1>3. B!Answer(t, FALSE, {}, B!Nothing)
  BY DEF B!Fails
<1> QED BY <1>1, <1>2, <1>3, AnswerRight

\* The first of the paths that are left.
LEMMA FirstLeft ==
  ASSUME NEW S, \A q \in S : q \in Nat, S # {}
  PROVE  B!Min(S) \in S /\ \A q \in S : B!Min(S) <= q
<1>1. IsWellFoundedOn(OpToRel(<, Nat), Nat)
  BY NatLessThanWellFounded
<1>2. S \in SUBSET Nat
  OBVIOUS
<1>3. PICK m \in S : \A q \in S : <<q, m>> \notin OpToRel(<, Nat)
  BY <1>1, <1>2, WFMin
<1>4. \A q \in S : q \in Nat /\ ~(q < m)
  BY <1>3 DEF OpToRel
<1>5. \A q \in S : m <= q
  BY <1>4
<1> QED BY <1>5 DEF B!Min

\* A count is a count.
LEMMA CountIs == \A S : Cardinality(S) = B!Cardinality(S)
BY DEF Cardinality, B!Cardinality

\* A count of the paths up to one of them.
LEMMA Counted ==
  ASSUME NEW S, \A q \in S : q \in Nat
  PROVE  /\ \A p \in S : B!Cardinality({q \in S : q <= p}) \in Nat
         /\ \A p, r \in S : r <= p => B!Cardinality({q \in S : q <= r}) <= B!Cardinality({q \in S : q <= p})
         /\ \A p \in S : (\A q \in S : p <= q) => B!Cardinality({q \in S : q <= p}) = 1
<1> DEFINE upto(p) == {q \in S : q <= p}
<1>1. ASSUME NEW p \in S
      PROVE  IsFiniteSet(upto(p)) /\ Cardinality(upto(p)) \in Nat
  <2>1. 0 \in Int /\ p \in Int
    OBVIOUS
  <2>2. IsFiniteSet(0..p)
    BY <2>1, FS_Interval
  <2>3. \A q \in S : q <= p => q \in 0..p
    OBVIOUS
  <2>4. upto(p) \in SUBSET (0..p)
    BY <2>3
  <2>5. IsFiniteSet(upto(p))
    BY <2>2, <2>4, FS_Subset
  <2> QED BY <2>5, FS_CardinalityType
<1>2. ASSUME NEW p \in S, NEW r \in S, r <= p
      PROVE  Cardinality(upto(r)) <= Cardinality(upto(p))
  <2>1. IsFiniteSet(upto(p))
    BY <1>1
  <2>2. \A q \in S : q <= r => q <= p
    BY <1>2
  <2>3. upto(r) \in SUBSET upto(p)
    BY <2>2
  <2> QED BY <2>1, <2>3, FS_Subset
<1>3. ASSUME NEW p \in S, \A q \in S : p <= q
      PROVE  Cardinality(upto(p)) = 1
  <2>1. \A q \in S : q <= p <=> q = p
    BY <1>3
  <2>2. upto(p) = {p}
    BY <2>1
  <2> QED BY <2>2, FS_Singleton
<1>4. \A p \in S : Cardinality(upto(p)) = B!Cardinality(upto(p))
  BY CountIs
<1> SUFFICES /\ \A p \in S : B!Cardinality(upto(p)) \in Nat
             /\ \A p, r \in S : r <= p => B!Cardinality(upto(r)) <= B!Cardinality(upto(p))
             /\ \A p \in S : (\A q \in S : p <= q) => B!Cardinality(upto(p)) = 1
  OBVIOUS
<1> HIDE DEF upto
<1> QED BY <1>1, <1>2, <1>3, <1>4

\* A page is the first of what is left; the last of it stands at the page's end.
PageOf(S, n) == {p \in S : B!Cardinality({q \in S : q <= p}) <= n}
LEMMA PageIs ==
  ASSUME NEW S, \A q \in S : q \in Nat, NEW n \in Nat \ {0}
  PROVE  LET page == PageOf(S, n)
         IN  /\ page \subseteq S /\ \A p \in page, q \in S : q <= p => q \in page
             /\ page # S => B!Max(page) \in page
<1> DEFINE page == PageOf(S, n)
<1> DEFINE upto(p) == B!Cardinality({q \in S : q <= p})
<1>1. /\ \A p \in S : upto(p) \in Nat
      /\ \A p, r \in S : r <= p => upto(r) <= upto(p)
      /\ \A p \in S : (\A q \in S : p <= q) => upto(p) = 1
  BY Counted
<1>2. page = {p \in S : upto(p) <= n}
  BY DEF PageOf
<1> HIDE DEF upto, page
<1>3. ASSUME NEW p \in page, NEW q \in S, q <= p PROVE q \in page
  <2>1. upto(q) \in Nat /\ upto(p) \in Nat /\ upto(q) <= upto(p) /\ upto(p) <= n
    BY <1>1, <1>2, <1>3
  <2>2. upto(q) <= n
    BY <2>1
  <2> QED BY <1>2, <2>2
<1>4. ASSUME page # S PROVE B!Max(page) \in page
  <2>1. PICK over \in S : over \notin page
    BY <1>2, <1>4
  <2>2. \A q \in page : q \in Nat /\ over \in Nat /\ ~(over <= q)
    BY <1>2, <1>3, <2>1
  <2>3. \A q \in page : q \in 0..over
    BY <2>2
  <2>4. B!Min(S) \in S /\ \A q \in S : B!Min(S) <= q
    BY <2>1, FirstLeft
  <2>5. upto(B!Min(S)) = 1
    BY <1>1, <2>4
  <2>6. B!Min(S) \in page
    BY <1>2, <2>4, <2>5
  <2>7. PICK m \in page : \A q \in page : q <= m
    BY <2>1, <2>3, <2>6, HasLatest
  <2>8. \A q \in page : m >= q
    BY <2>2, <2>7
  <2> QED BY <2>8 DEF B!Max
<1> QED BY <1>2, <1>3, <1>4 DEF page

\* A call begins.
LEMMA BeginRight ==
  ASSUME B!Bounds, StoreRight, CallsRight, NEW t \in Task, NEW what \in {"list", "read", "write", "remove"},
         NEW p \in Path \cup {0}, what # "list" => p \in Path, NEW bytes \in B!Content,
         what = "write" => bytes \in 3..(MaxWrites + 2), B!Begin(t, what, p, bytes)
  PROVE  StoreRight' /\ CallsRight' /\ B!AnswersHold
<1>1. UNCHANGED <<kind, store>> /\ B!Goes(t, B!Call(what, p, bytes))
  BY DEF B!Begin
<1>2. StoreRight' /\ store' \in [Path -> B!Content] /\ Shown(store) \in Views
  BY <1>1, SameStore, ShownIs DEF StoreRight
<1>3. B!Nothing \in B!Content /\ B!Nothing # B!Hollow /\ \A q \in Path : q \in Nat /\ q > 0
  BY BackendsAre
<1> DEFINE c == B!Call(what, p, bytes)
<1>4. /\ c.what = what /\ c.path = p /\ c.bytes = bytes /\ c.phase = "first" /\ c.saw = B!Nothing
      /\ c.at = 0 /\ c.found = {} /\ c.was = {Shown(store)}
  BY ViewIs DEF B!Call
<1>5. c \in Requested
  BY <1>2, <1>3, ViewIs DEF B!Call, Requested
<1> HIDE DEF c
<1>6. Walked(c)
  BY <1>3, <1>4 DEF Walked, Behind
<1>7. Right(c, Shown(store), kind)
  BY <1>3, <1>4, <1>6 DEF Right
<1>8. B!Goes(t, c)
  BY <1>1 DEF c
<1>9. CallsRight' /\ B!AnswersHold
  BY <1>1, <1>2, <1>5, <1>7, <1>8, GoesRight
<1> QED BY <1>2, <1>9

\* What a listing that stands between two looks knows.
LEMMA ListingIs ==
  ASSUME B!Bounds, CallsRight, NEW t \in Task, B!Busy(t), call[t].what = "list", call[t].phase = "first"
  PROVE  /\ \A q \in Path : q <= call[t].at /\ (\A v \in call[t].was : v[q] # B!Nothing) => q \in call[t].found
         /\ \A q \in call[t].found : \E v \in call[t].was : v[q] # B!Nothing
         /\ B!After(t) = {p \in Path : Shown(store)[p] # B!Nothing /\ p > call[t].at}
         /\ call[t].at \in Nat /\ (\A q \in Path : q \in Nat)
<1>1. Right(call[t], Shown(store), kind) /\ call[t].at \in Path \cup {0} /\ (\A q \in Path : q \in Nat)
  BY UnderWay, BackendsAre
<1>2. Walked(call[t])
  BY <1>1 DEF Right
<1>3. \A q \in Path : q <= call[t].at => q \in Behind(call[t])
  BY <1>1 DEF Behind
<1>4. B!Named = {p \in Path : Shown(store)[p] # B!Nothing}
  BY ViewIs
<1>5. B!After(t) = {p \in Path : Shown(store)[p] # B!Nothing /\ p > call[t].at}
  BY <1>4 DEF B!After
<1> QED BY <1>1, <1>2, <1>3, <1>5 DEF Walked

\* A listing that leaves the storage alone goes on.
LEMMA ListGoes ==
  ASSUME B!Bounds, StoreRight, CallsRight, NEW t \in Task, B!Busy(t), call[t].what = "list", UNCHANGED <<kind, store>>,
         NEW new, new \in Requested, new.what = "list", new.was = call[t].was, new.saw = call[t].saw,
         new.phase # "second", Walked(new), B!Goes(t, new)
  PROVE  StoreRight' /\ CallsRight' /\ B!AnswersHold
<1>1. StoreRight' /\ store' \in [Path -> B!Content]
  BY SameStore DEF StoreRight
<1>2. Right(call[t], Shown(store), kind)
  BY UnderWay
<1>3. Right(new, Shown(store), kind)
  BY <1>2 DEF Right
<1> QED BY <1>1, <1>3, GoesRight

\* A listing is answered.
LEMMA ListAnswers ==
  ASSUME B!Bounds, StoreRight, CallsRight, NEW t \in Task, B!Busy(t), call[t].what = "list", UNCHANGED <<kind, store>>,
         NEW found, B!Answer(t, TRUE, found, B!Nothing),
         \A q \in Path : /\ (\A v \in call[t].was : v[q] # B!Nothing) => q \in found
                         /\ q \in found => \E v \in call[t].was : v[q] # B!Nothing
  PROVE  StoreRight' /\ CallsRight' /\ B!AnswersHold
<1>1. StoreRight' /\ store' \in [Path -> B!Content] /\ Shown(store') = Shown(store)
  BY SameStore DEF StoreRight
<1>2. Shown(store) \in call[t].was
  BY UnderWay
<1>3. call[t].was \cup {Shown(store')} = call[t].was
  BY <1>1, <1>2
<1>4. Truth(call[t], Shown(store), Shown(store'), kind, TRUE, found, B!Nothing)
  BY <1>1, <1>3 DEF Truth
<1> QED BY <1>1, <1>4, AnswerRight

LEMMA ListPageRight ==
  ASSUME B!Bounds, StoreRight, CallsRight, NEW t \in Task, B!ListPage(t)
  PROVE  StoreRight' /\ CallsRight' /\ B!AnswersHold
<1> DEFINE rest == B!After(t)
           page == {p \in rest : B!Cardinality({q \in rest : q <= p}) <= PageSize}
           found == call[t].found \cup page
           new == [call[t] EXCEPT !.found = found, !.at = B!Max(page)]
<1>1. /\ B!Busy(t) /\ call[t].what = "list" /\ call[t].phase = "first" /\ UNCHANGED <<kind, store>>
      /\ IF page = rest THEN B!Answer(t, TRUE, found, B!Nothing) ELSE B!Goes(t, new)
  BY DEF B!ListPage, B!Listing, B!Doing, B!Continued
<1>2. /\ \A q \in Path : q <= call[t].at /\ (\A v \in call[t].was : v[q] # B!Nothing) => q \in call[t].found
      /\ \A q \in call[t].found : \E v \in call[t].was : v[q] # B!Nothing
      /\ rest = {p \in Path : Shown(store)[p] # B!Nothing /\ p > call[t].at}
      /\ call[t].at \in Nat /\ (\A q \in Path : q \in Nat)
  BY <1>1, ListingIs
<1>3. /\ call[t] \in Requested /\ call[t].found \in SUBSET Path /\ Shown(store) \in call[t].was
  BY <1>1, UnderWay
<1>4. /\ page \subseteq rest /\ \A p \in page, q \in rest : q <= p => q \in page
      /\ page # rest => B!Max(page) \in page
  <2>1. (\A q \in rest : q \in Nat) /\ PageSize \in Nat \ {0}
    BY <1>2, BackendsAre
  <2>2. page = PageOf(rest, PageSize)
    BY DEF PageOf
  <2> HIDE DEF rest, page
  <2> QED BY <2>1, <2>2, PageIs
<1> HIDE DEF rest, page
<1>5. \A q \in found : q \in Path /\ \E v \in call[t].was : v[q] # B!Nothing
  BY <1>2, <1>3, <1>4
<1>6. CASE page = rest
  <2>1. \A q \in Path : (\A v \in call[t].was : v[q] # B!Nothing) => q \in found
    BY <1>2, <1>3, <1>6
  <2> HIDE DEF found
  <2> QED BY <1>1, <1>5, <1>6, <2>1, ListAnswers
<1>7. CASE page # rest
  <2> DEFINE m == B!Max(page)
  <2>1. m \in page /\ m \in Path
    BY <1>2, <1>4, <1>7
  <2> HIDE DEF m, found
  <2>2. new = [call[t] EXCEPT !.found = found, !.at = m]
    BY DEF m
  <2>3. /\ new \in Requested /\ new.what = "list" /\ new.was = call[t].was /\ new.saw = call[t].saw
        /\ new.phase = "first" /\ new.at = m /\ new.found = found
    BY <1>1, <1>3, <1>5, <2>1, <2>2 DEF Requested
  <2> HIDE DEF new
  <2>4. ASSUME NEW q \in Path, q <= m, \A v \in call[t].was : v[q] # B!Nothing PROVE q \in found
    BY <1>2, <1>3, <1>4, <2>1, <2>4 DEF found
  <2>5. Behind(new) = {q \in Path : q < m \/ q = m}
    BY <2>3 DEF Behind
  <2>6. Walked(new)
    BY <1>2, <1>5, <2>1, <2>3, <2>4, <2>5 DEF Walked
  <2> QED BY <1>1, <1>7, <2>3, <2>6, ListGoes
<1> QED BY <1>6, <1>7

LEMMA ListAllRight ==
  ASSUME B!Bounds, StoreRight, CallsRight, NEW t \in Task, B!ListTree(t) \/ B!ListAtOnce(t)
  PROVE  StoreRight' /\ CallsRight' /\ B!AnswersHold
<1>1. /\ B!Busy(t) /\ call[t].what = "list" /\ UNCHANGED <<kind, store>>
      /\ B!Fails(t) \/ B!Answer(t, TRUE, B!Named, B!Nothing)
  BY DEF B!ListTree, B!ListAtOnce, B!Listing, B!Doing
<1>2. CASE B!Fails(t)
  BY <1>1, <1>2, FailsRight
<1>3. CASE B!Answer(t, TRUE, B!Named, B!Nothing)
  <2>1. Shown(store) \in call[t].was /\ B!Named = {p \in Path : Shown(store)[p] # B!Nothing}
    BY <1>1, UnderWay, ViewIs
  <2>2. \A q \in Path : /\ (\A v \in call[t].was : v[q] # B!Nothing) => q \in B!Named
                        /\ q \in B!Named => \E v \in call[t].was : v[q] # B!Nothing
    BY <2>1
  <2> QED BY <1>1, <1>3, <2>2, ListAnswers
<1> QED BY <1>1, <1>2, <1>3

LEMMA MeetRight ==
  ASSUME B!Bounds, StoreRight, CallsRight, NEW t \in Task, B!Meet(t)
  PROVE  StoreRight' /\ CallsRight' /\ B!AnswersHold
<1>1. /\ B!Busy(t) /\ call[t].what = "list" /\ call[t].phase = "first" /\ UNCHANGED <<kind, store>>
      /\ IF B!After(t) = {} THEN B!Answer(t, TRUE, call[t].found, B!Nothing)
         ELSE B!Goes(t, [call[t] EXCEPT !.at = B!Min(B!After(t)), !.phase = "look"])
  BY DEF B!Meet, B!Listing, B!Doing
<1>2. /\ \A q \in Path : q <= call[t].at /\ (\A v \in call[t].was : v[q] # B!Nothing) => q \in call[t].found
      /\ \A q \in call[t].found : \E v \in call[t].was : v[q] # B!Nothing
      /\ B!After(t) = {p \in Path : Shown(store)[p] # B!Nothing /\ p > call[t].at}
      /\ call[t].at \in Nat /\ (\A q \in Path : q \in Nat)
  BY <1>1, ListingIs
<1>3. call[t] \in Requested /\ Shown(store) \in call[t].was
  BY <1>1, UnderWay
<1>4. CASE B!After(t) = {}
  <2>1. \A q \in Path : (\A v \in call[t].was : v[q] # B!Nothing) => q \in call[t].found
    BY <1>2, <1>3, <1>4
  <2> QED BY <1>1, <1>2, <1>4, <2>1, ListAnswers
<1>5. CASE B!After(t) # {}
  <2> DEFINE m == B!Min(B!After(t))
             new == [call[t] EXCEPT !.at = m, !.phase = "look"]
  <2>1. m \in B!After(t) /\ \A q \in B!After(t) : m <= q
    BY <1>2, <1>5, FirstLeft
  <2>2. B!Goes(t, new)
    BY <1>1, <1>5
  <2> HIDE DEF m
  <2>3. /\ new \in Requested /\ new.what = "list" /\ new.was = call[t].was /\ new.saw = call[t].saw
        /\ new.phase = "look" /\ new.at = m /\ new.found = call[t].found
    BY <1>1, <1>2, <1>3, <2>1 DEF Requested
  <2> HIDE DEF new
  <2>4. Behind(new) = {q \in Path : q < m}
    BY <2>3 DEF Behind
  <2>5. ASSUME NEW q \in Path, q < m, \A v \in call[t].was : v[q] # B!Nothing PROVE q \in call[t].found
    BY <1>2, <1>3, <2>1, <2>5
  <2>6. Walked(new)
    BY <1>2, <2>3, <2>4, <2>5 DEF Walked
  <2> QED BY <1>1, <2>2, <2>3, <2>6, ListGoes
<1> QED BY <1>4, <1>5

LEMMA LookAtRight ==
  ASSUME B!Bounds, StoreRight, CallsRight, NEW t \in Task, B!LookAt(t)
  PROVE  StoreRight' /\ CallsRight' /\ B!AnswersHold
<1> DEFINE m == call[t].at
           seen == {m} \cap B!Named
           new == [call[t] EXCEPT !.found = @ \cup seen, !.phase = "first"]
<1>1. B!Busy(t) /\ call[t].what = "list" /\ call[t].phase = "look" /\ UNCHANGED <<kind, store>>
  BY DEF B!LookAt, B!Doing
<1>2. call[t] \in Requested /\ Shown(store) \in call[t].was /\ Right(call[t], Shown(store), kind)
  BY <1>1, UnderWay
<1>3. B!Fails(t) \/ B!Goes(t, new)
  <2>1. CASE m \in B!Named
    <3>1. seen = {m}
      BY <2>1
    <3> QED BY <2>1, <3>1 DEF B!LookAt
  <2>2. CASE m \notin B!Named
    <3>1. B!Goes(t, [call[t] EXCEPT !.phase = "first"]) \/ B!Fails(t)
      BY <2>2 DEF B!LookAt
    <3>2. seen = {}
      BY <2>2
    <3>3. [call[t] EXCEPT !.phase = "first"] = new
      BY <1>2, <3>2 DEF Requested
    <3> QED BY <3>1, <3>3
  <2> QED BY <2>1, <2>2
<1>4. CASE B!Fails(t)
  BY <1>1, <1>4, FailsRight
<1>5. CASE B!Goes(t, new)
  <2>1. B!Named = {p \in Path : Shown(store)[p] # B!Nothing} /\ (\A q \in Path : q \in Nat) /\ m \in Nat
    BY <1>1, ViewIs, BackendsAre, UnderWay
  <2>2. seen \subseteq Path /\ \A q \in Path : q \in seen <=> q = m /\ Shown(store)[q] # B!Nothing
    BY <2>1
  <2> HIDE DEF seen
  <2>3. /\ new \in Requested /\ new.what = "list" /\ new.was = call[t].was /\ new.saw = call[t].saw
        /\ new.phase = "first" /\ new.at = m /\ new.found = call[t].found \cup seen
    BY <1>1, <1>2, <2>2 DEF Requested
  <2> HIDE DEF new
  <2>4. Walked(call[t])
    BY <1>1, <1>2 DEF Right
  <2>5. Behind(new) = Behind(call[t]) \cup ({m} \cap Path)
    BY <1>1, <2>1, <2>3 DEF Behind
  <2>6. Walked(new)
    BY <1>2, <2>2, <2>3, <2>4, <2>5 DEF Walked
  <2> QED BY <1>1, <1>5, <2>3, <2>6, ListGoes
<1> QED BY <1>3, <1>4, <1>5

\* What was read was there while the read was under way.
LEMMA HoldsRight ==
  ASSUME B!Bounds, StoreRight, CallsRight, NEW t \in Task, B!Busy(t), call[t].what = "read", UNCHANGED <<kind, store>>,
         NEW b, b = B!At(B!Wanted(t)) \/ (call[t].phase = "second" /\ b = call[t].saw), B!Holds(t, b)
  PROVE  StoreRight' /\ CallsRight' /\ B!AnswersHold
<1>1. StoreRight' /\ Shown(store') = Shown(store) /\ store' \in [Path -> B!Content]
  BY SameStore DEF StoreRight
<1>2. Right(call[t], Shown(store), kind) /\ Shown(store) \in call[t].was
  BY UnderWay
<1>3. call[t].path \in Path
  BY <1>2 DEF Right
<1>4. B!At(B!Wanted(t)) = Shown(store)[call[t].path]
  BY <1>3, ViewIs DEF B!Wanted
<1>5. Shown(store)[call[t].path] = B!Hollow => kind = "folder"
  BY <1>3, ShownIs DEF StoreRight
<1>6. (\E v \in call[t].was : v[call[t].path] = b) /\ (b = B!Hollow => kind = "folder")
  BY <1>2, <1>4, <1>5 DEF Right
<1>7. Truth(call[t], Shown(store), Shown(store'), kind, TRUE, {}, b)
  BY <1>1, <1>6 DEF Truth
<1>8. B!Answer(t, TRUE, {}, b)
  BY DEF B!Holds
<1> QED BY <1>1, <1>7, <1>8, AnswerRight

\* What a call looked at was so when it looked.
LEMMA LooksRight ==
  ASSUME B!Bounds, StoreRight, CallsRight, NEW t \in Task, B!Busy(t), call[t].what # "list",
         store' \in [Path -> B!Content], kind' = kind, B!Looks(t)
  PROVE  CallsRight' /\ B!AnswersHold
<1> DEFINE s == B!At(B!Wanted(t))
           new == [call[t] EXCEPT !.saw = s, !.phase = "second"]
<1>1. call[t] \in Requested /\ Right(call[t], Shown(store), kind) /\ Shown(store) \in call[t].was
  BY UnderWay
<1>2. call[t].path \in Path
  BY <1>1 DEF Right
<1>3. s = Shown(store)[call[t].path]
  BY <1>2, ViewIs DEF B!Wanted
<1>4. s \in B!Content /\ (s = B!Hollow => kind = "folder")
  BY <1>2, <1>3, ShownIs DEF StoreRight, Views
<1>5. B!Goes(t, new)
  BY DEF B!Looks
<1> HIDE DEF s
<1>6. /\ new \in Requested /\ new.what = call[t].what /\ new.path = call[t].path /\ new.bytes = call[t].bytes
      /\ new.was = call[t].was /\ new.saw = s /\ new.phase = "second"
  BY <1>1, <1>4 DEF Requested
<1> HIDE DEF new
<1>7. Right(new, Shown(store), kind)
  BY <1>1, <1>2, <1>3, <1>4, <1>6 DEF Right
<1> QED BY <1>5, <1>6, <1>7, GoesRight

LEMMA ReadingRight ==
  ASSUME B!Bounds, StoreRight, CallsRight, NEW t \in Task,
         \/ B!GetObject(t) \/ B!Recall(t) \/ B!GetContents(t) \/ B!GetBlob(t)
         \/ B!FindFile(t) \/ B!TakeFile(t) \/ B!ShellReads(t)
  PROVE  StoreRight' /\ CallsRight' /\ B!AnswersHold
<1>1. B!Busy(t) /\ call[t].what = "read" /\ UNCHANGED <<kind, store>>
  BY DEF B!GetObject, B!Recall, B!GetContents, B!GetBlob, B!FindFile, B!TakeFile, B!ShellReads, B!Find, B!Take,
     B!Reading, B!Doing
<1>2. \/ B!Fails(t) \/ B!Looks(t) \/ B!Holds(t, B!At(B!Wanted(t)))
      \/ call[t].phase = "second" /\ B!Holds(t, call[t].saw)
  BY DEF B!GetObject, B!Recall, B!GetContents, B!GetBlob, B!FindFile, B!TakeFile, B!ShellReads, B!Find, B!Take,
     B!Reading, B!Doing
<1>3. CASE B!Fails(t)
  BY <1>1, <1>3, FailsRight
<1>4. CASE B!Looks(t)
  <2>1. StoreRight' /\ store' \in [Path -> B!Content]
    BY <1>1, SameStore DEF StoreRight
  <2> QED BY <1>1, <1>4, <2>1, LooksRight
<1>5. CASE B!Holds(t, B!At(B!Wanted(t)))
  BY <1>1, <1>5, HoldsRight
<1>6. CASE call[t].phase = "second" /\ B!Holds(t, call[t].saw)
  BY <1>1, <1>6, HoldsRight
<1> QED BY <1>2, <1>3, <1>4, <1>5, <1>6

\* What is written or removed is there or gone when the call is answered, and on
\* GitHub it was what had been looked at.
LEMMA PutAnswers ==
  ASSUME B!Bounds, StoreRight, CallsRight, NEW t \in Task, B!Busy(t), kind' = kind,
         NEW b, \/ call[t].what = "write" /\ b = call[t].bytes
                \/ call[t].what = "remove" /\ b = B!Nothing,
         B!Puts(B!Wanted(t), b), kind = "github" => B!Accepts(t),
         NEW ok \in BOOLEAN, B!Answer(t, ok, {}, B!Nothing)
  PROVE  StoreRight' /\ CallsRight' /\ B!AnswersHold
<1>1. Right(call[t], Shown(store), kind)
  BY UnderWay
<1>2. call[t].path \in Path /\ (call[t].what = "write" => b \in 3..(MaxWrites + 2))
  BY <1>1 DEF Right
<1>3. b \in B!Content /\ b # B!Unwritten /\ b # B!Hollow
  <2>1. /\ MaxWrites \in Nat /\ {B!Nothing, B!Hollow, B!Seed, B!Unwritten} \subseteq B!Content
        /\ 3..(MaxWrites + 2) \subseteq B!Content /\ B!Nothing = 0 /\ B!Hollow = 1
        /\ B!Unwritten \notin 0..(MaxWrites + 2)
    BY BackendsAre
  <2> QED BY <1>2, <2>1
<1>4. B!Wanted(t) = call[t].path
  BY DEF B!Wanted
<1>5. StoreRight' /\ store' \in [Path -> B!Content] /\ Shown(store')[call[t].path] = b
  BY <1>2, <1>3, <1>4, PutsRight
<1>6. kind = "github" => call[t].saw = Shown(store)[call[t].path]
  BY <1>2, <1>4, ViewIs DEF B!Accepts
<1>7. Truth(call[t], Shown(store), Shown(store'), kind, ok, {}, B!Nothing)
  BY <1>5, <1>6 DEF Truth
<1> QED BY <1>5, <1>7, AnswerRight

LEMMA WritingRight ==
  ASSUME B!Bounds, StoreRight, CallsRight, NEW t \in Task,
         \/ B!PutObject(t) \/ B!Rename(t) \/ B!Retain(t) \/ B!FillFile(t) \/ B!PutContents(t)
         \/ B!DeleteObject(t) \/ B!Unlink(t) \/ B!Discard(t) \/ B!RemoveEntry(t) \/ B!DeleteContents(t)
  PROVE  StoreRight' /\ CallsRight' /\ B!AnswersHold
<1>1. \/ UNCHANGED store /\ B!Fails(t)
      \/ call[t].what = "write" /\ B!Lands(t) /\ (kind = "github" => B!Accepts(t))
      \/ call[t].what = "remove" /\ B!Drops(t) /\ (kind = "github" => B!Accepts(t))
  BY DEF B!PutObject, B!Rename, B!Retain, B!FillFile, B!PutContents, B!DeleteObject, B!Unlink, B!Discard,
     B!RemoveEntry,
     B!DeleteContents, B!Refused, B!Changing, B!Doing, B!Alone
<1>2. B!Busy(t) /\ kind' = kind
  BY DEF B!PutObject, B!Rename, B!Retain, B!FillFile, B!PutContents, B!DeleteObject, B!Unlink, B!Discard,
     B!RemoveEntry,
     B!DeleteContents, B!Changing, B!Doing
<1>3. CASE UNCHANGED store /\ B!Fails(t)
  BY <1>2, <1>3, FailsRight
<1>4. CASE call[t].what = "write" /\ B!Lands(t) /\ (kind = "github" => B!Accepts(t))
  <2>1. B!Puts(B!Wanted(t), call[t].bytes) /\ B!Answer(t, TRUE, {}, B!Nothing)
    BY <1>4 DEF B!Lands, B!Done
  <2> QED BY <1>2, <1>4, <2>1, PutAnswers
<1>5. CASE call[t].what = "remove" /\ B!Drops(t) /\ (kind = "github" => B!Accepts(t))
  <2>1. B!Puts(B!Wanted(t), B!Nothing) /\ B!Answer(t, TRUE, {}, B!Nothing)
    BY <1>5 DEF B!Drops, B!Done, B!Tombstone
  <2> QED BY <1>2, <1>5, <2>1, PutAnswers
<1> QED BY <1>1, <1>3, <1>4, <1>5

LEMMA MakeFileRight ==
  ASSUME B!Bounds, StoreRight, CallsRight, NEW t \in Task, B!MakeFile(t)
  PROVE  StoreRight' /\ CallsRight' /\ B!AnswersHold
<1> DEFINE b == IF B!At(B!Wanted(t)) = B!Nothing THEN B!Hollow ELSE store[B!Wanted(t)]
<1>1. /\ B!Busy(t) /\ call[t].what = "write" /\ kind = "folder" /\ kind' = kind
      /\ B!Puts(B!Wanted(t), b) /\ B!Looks(t)
  BY DEF B!MakeFile, B!Changing, B!Doing
<1>2. call[t].path \in Path /\ B!Wanted(t) = call[t].path
  BY <1>1, UnderWay DEF Right, B!Wanted
<1>3. B!Hollow \in B!Content /\ B!Hollow # B!Unwritten
  <2>1. /\ {B!Nothing, B!Hollow, B!Seed, B!Unwritten} \subseteq B!Content /\ B!Hollow = 1
        /\ B!Unwritten \notin 0..(MaxWrites + 2)
        /\ MaxWrites \in Nat
    BY BackendsAre
  <2> QED BY <2>1
<1>4. b \in B!Content /\ b # B!Unwritten
  BY <1>1, <1>2, <1>3 DEF StoreRight
<1> HIDE DEF b
<1>5. StoreRight' /\ store' \in [Path -> B!Content]
  BY <1>1, <1>2, <1>4, PutsRight
<1> QED BY <1>1, <1>5, LooksRight

LEMMA AskShaRight ==
  ASSUME B!Bounds, StoreRight, CallsRight, NEW t \in Task, B!AskSha(t)
  PROVE  StoreRight' /\ CallsRight' /\ B!AnswersHold
<1>1. /\ B!Busy(t) /\ call[t].what # "list" /\ UNCHANGED <<kind, store>>
      /\ B!Looks(t) \/ (call[t].what = "remove" /\ B!At(B!Wanted(t)) = B!Nothing /\ B!Done(t))
  BY DEF B!AskSha, B!Changing, B!Doing
<1>2. StoreRight' /\ Shown(store') = Shown(store) /\ store' \in [Path -> B!Content]
  BY <1>1, SameStore DEF StoreRight
<1>3. CASE B!Looks(t)
  BY <1>1, <1>2, <1>3, LooksRight
<1>4. CASE call[t].what = "remove" /\ B!At(B!Wanted(t)) = B!Nothing /\ B!Done(t)
  <2>1. call[t].path \in Path /\ B!Wanted(t) = call[t].path
    BY <1>1, UnderWay DEF Right, B!Wanted
  <2>2. Shown(store)[call[t].path] = B!Nothing
    BY <1>4, <2>1, ViewIs
  <2>3. Truth(call[t], Shown(store), Shown(store'), kind, TRUE, {}, B!Nothing)
    BY <1>2, <1>4, <2>2 DEF Truth
  <2>4. B!Answer(t, TRUE, {}, B!Nothing)
    BY <1>4 DEF B!Done
  <2> QED BY <1>1, <1>2, <2>3, <2>4, AnswerRight
<1> QED BY <1>1, <1>3, <1>4

LEMMA UnheardRight ==
  ASSUME B!Bounds, StoreRight, CallsRight, NEW t \in Task, B!LandsUnheard(t)
  PROVE  StoreRight' /\ CallsRight' /\ B!AnswersHold
<1>1. PICK what \in {"write", "remove"} :
        /\ B!Busy(t) /\ call[t].what = what
        /\ B!Puts(B!Wanted(t), IF what = "write" THEN call[t].bytes ELSE B!Nothing)
  BY DEF B!LandsUnheard, B!Doing
<1>2. (kind = "github" => B!Accepts(t)) /\ kind' = kind /\ B!Answer(t, FALSE, {}, B!Nothing)
  BY DEF B!LandsUnheard, B!Fails
<1>3. CASE what = "write"
  BY <1>1, <1>2, <1>3, PutAnswers
<1>4. CASE what = "remove"
  BY <1>1, <1>2, <1>4, PutAnswers
<1> QED BY <1>3, <1>4

\* The other writer puts no file halfway there.
LEMMA OthersRight ==
  ASSUME B!Bounds, StoreRight, CallsRight, CountsRight, NEW p \in Path, B!AgentWrites(p) \/ B!AgentRemoves(p)
  PROVE  StoreRight' /\ CallsRight' /\ B!AnswersHold
<1>1. PICK b : B!Puts(p, b) /\ (b = B!Nothing \/ (b = B!Fresh /\ writes < MaxWrites))
  BY DEF B!AgentWrites, B!AgentRemoves
<1>2. kind' = kind /\ told' = B!Silence /\ call' = B!Watched(call)
  BY DEF B!AgentWrites, B!AgentRemoves, B!Others
<1>3. b \in B!Content /\ b # B!Unwritten /\ b # B!Hollow
  <2>1. /\ MaxWrites \in Nat /\ {B!Nothing, B!Hollow, B!Seed, B!Unwritten} \subseteq B!Content
        /\ 3..(MaxWrites + 2) \subseteq B!Content /\ B!Nothing = 0 /\ B!Hollow = 1
        /\ B!Unwritten \notin 0..(MaxWrites + 2)
    BY BackendsAre
  <2>2. writes \in 0..MaxWrites
    BY DEF CountsRight
  <2>3. b = 0 \/ b \in 3..(MaxWrites + 2)
    BY <1>1, <2>1, <2>2 DEF B!Fresh
  <2> QED BY <2>1, <2>3
<1>4. StoreRight' /\ store' \in [Path -> B!Content]
  BY <1>1, <1>2, <1>3, PutsRight
<1>5. Shown(store') \in Views
  BY <1>4, ShownIs
<1>6. CallsRight'
  <2>1. call \in [Task -> Requested \cup {B!Idle}] /\ \A u \in Task : call[u] # B!Idle => Right(call[u], Shown(store), kind)
    BY DEF CallsRight
  <2> QED BY <1>2, <1>5, <2>1, WatchedRight
<1>7. B!AnswersHold
  BY <1>2 DEF B!AnswersHold, B!Silence
<1> QED BY <1>4, <1>6, <1>7

LEMMA BeginsRight ==
  ASSUME B!Bounds, StoreRight, CallsRight, CountsRight, NEW t \in Task,
         B!List(t) \/ \E p \in Path : B!Read(t, p) \/ B!Write(t, p) \/ B!Remove(t, p)
  PROVE  StoreRight' /\ CallsRight' /\ B!AnswersHold
<1>1. B!Nothing \in B!Content
  BY BackendsAre
<1>2. CASE B!List(t)
  <2>1. B!Begin(t, "list", 0, B!Nothing)
    BY <1>2 DEF B!List
  <2> QED BY <1>1, <2>1, BeginRight
<1>3. ASSUME NEW p \in Path, B!Read(t, p) PROVE StoreRight' /\ CallsRight' /\ B!AnswersHold
  <2>1. B!Begin(t, "read", p, B!Nothing)
    BY <1>3 DEF B!Read
  <2> QED BY <1>1, <2>1, BeginRight
<1>4. ASSUME NEW p \in Path, B!Remove(t, p) PROVE StoreRight' /\ CallsRight' /\ B!AnswersHold
  <2>1. B!Begin(t, "remove", p, B!Nothing)
    BY <1>4 DEF B!Remove
  <2> QED BY <1>1, <2>1, BeginRight
<1>5. ASSUME NEW p \in Path, B!Write(t, p) PROVE StoreRight' /\ CallsRight' /\ B!AnswersHold
  <2>1. B!Begin(t, "write", p, B!Fresh) /\ writes < MaxWrites
    BY <1>5 DEF B!Write
  <2>2. writes \in 0..MaxWrites /\ MaxWrites \in Nat /\ 3..(MaxWrites + 2) \subseteq B!Content
    BY BackendsAre DEF CountsRight
  <2>3. B!Fresh \in 3..(MaxWrites + 2) /\ B!Fresh \in B!Content
    BY <2>1, <2>2 DEF B!Fresh
  <2> HIDE DEF B!Fresh
  <2> QED BY <2>1, <2>3, BeginRight
<1> QED BY <1>2, <1>3, <1>4, <1>5

\* The counts stay within their bounds.
LEMMA CountsStep ==
  ASSUME B!Bounds, CountsRight, B!Next
  PROVE  CountsRight'
<1> DEFINE begun == calls < MaxCalls /\ calls' = calls + 1 /\ UNCHANGED <<removals, losses>>
                      /\ (writes' = writes \/ (writes < MaxWrites /\ writes' = writes + 1))
           written == writes < MaxWrites /\ writes' = writes + 1 /\ UNCHANGED <<removals, calls, losses>>
           removed == removals < MaxRemovals /\ removals' = removals + 1 /\ UNCHANGED <<writes, calls, losses>>
           failed == losses < MaxFalters /\ losses' = losses + 1 /\ UNCHANGED B!counts
           same == UNCHANGED <<B!counts, losses>>
<1>1. ASSUME NEW t \in Task, \/ B!ListPage(t) \/ B!ListTree(t) \/ B!Meet(t) \/ B!LookAt(t) \/ B!ListAtOnce(t) \/ B!GetObject(t)
                             \/ B!Recall(t) \/ B!GetContents(t) \/ B!GetBlob(t) \/ B!FindFile(t) \/ B!TakeFile(t) \/ B!ShellReads(t)
      PROVE  same
  BY <1>1 DEF B!ListPage, B!ListTree, B!Meet, B!LookAt, B!ListAtOnce, B!GetObject, B!Recall, B!GetContents,
     B!GetBlob, B!FindFile, B!TakeFile,
     B!ShellReads, B!Listing, B!Reading, B!Find, B!Take
<1>2. ASSUME NEW t \in Task, \/ B!PutObject(t) \/ B!Rename(t) \/ B!Retain(t) \/ B!MakeFile(t) \/ B!FillFile(t) \/ B!AskSha(t)
                             \/ B!PutContents(t) \/ B!DeleteObject(t) \/ B!Unlink(t) \/ B!Discard(t) \/ B!RemoveEntry(t)
                             \/ B!DeleteContents(t)
      PROVE  same
  BY <1>2 DEF B!PutObject, B!Rename, B!Retain, B!MakeFile, B!FillFile, B!AskSha, B!PutContents, B!DeleteObject,
     B!Unlink, B!Discard,
     B!RemoveEntry, B!DeleteContents, B!Changing
<1>3. ASSUME NEW t \in Task, B!Unreachable(t) \/ B!LandsUnheard(t) PROVE failed
  BY <1>3 DEF B!Unreachable, B!LandsUnheard
<1>4. ASSUME NEW t \in Task, B!List(t) \/ \E p \in Path : B!Read(t, p) \/ B!Write(t, p) \/ B!Remove(t, p)
      PROVE  begun
  BY <1>4 DEF B!List, B!Read, B!Write, B!Remove, B!Begin
<1>5. ASSUME NEW p \in Path, B!AgentWrites(p) \/ B!AgentRemoves(p) PROVE written \/ removed
  BY <1>5 DEF B!AgentWrites, B!AgentRemoves, B!Others
<1>6. same \/ begun \/ written \/ removed \/ failed
  <2> HIDE DEF same, begun, written, removed, failed
  <2> QED BY <1>1, <1>2, <1>3, <1>4, <1>5 DEF B!Next
<1>7. MaxWrites \in Nat /\ MaxRemovals \in Nat /\ MaxCalls \in Nat /\ MaxFalters \in Nat
  BY BackendsAre
<1> QED BY <1>6, <1>7 DEF CountsRight, B!counts

\* Every step keeps what calls know true, and what it answers was so.
LEMMA BackendsMoves ==
  ASSUME B!Bounds, BackendsInv, B!Next
  PROVE  BackendsInv' /\ B!AnswersHold
<1>1. StoreRight /\ CallsRight /\ CountsRight
  BY DEF BackendsInv
<1>2. CountsRight'
  BY <1>1, CountsStep
<1>3. ASSUME NEW t \in Task, B!Unreachable(t) PROVE StoreRight' /\ CallsRight' /\ B!AnswersHold
  <2>1. B!Busy(t) /\ UNCHANGED <<kind, store>> /\ B!Fails(t)
    BY <1>3 DEF B!Unreachable
  <2> QED BY <1>1, <2>1, FailsRight
<1>4. StoreRight' /\ CallsRight' /\ B!AnswersHold
  BY <1>1, <1>3, BeginsRight, ListPageRight, ListAllRight, MeetRight, LookAtRight, ReadingRight, WritingRight,
     MakeFileRight, AskShaRight, UnheardRight, OthersRight DEF B!Next
<1> QED BY <1>2, <1>4 DEF BackendsInv

LEMMA BackendsInit ==
  ASSUME B!Bounds, B!Init
  PROVE  BackendsInv
<1>1. /\ {B!Nothing, B!Hollow, B!Seed, B!Unwritten} \subseteq B!Content /\ B!Nothing = 0 /\ B!Hollow = 1
      /\ B!Seed = 2
      /\ B!Unwritten \notin 0..(MaxWrites + 2) /\ MaxWrites \in Nat
      /\ MaxRemovals \in Nat /\ MaxCalls \in Nat /\ MaxFalters \in Nat
  BY BackendsAre
<1>2. B!Unwritten # B!Nothing /\ B!Unwritten # B!Seed /\ B!Unwritten # B!Hollow
  BY <1>1
<1>3. StoreRight
  BY <1>1, <1>2 DEF B!Init, StoreRight
<1>4. CallsRight
  BY DEF B!Init, CallsRight
<1>5. CountsRight
  BY <1>1 DEF B!Init, CountsRight
<1> QED BY <1>3, <1>4, <1>5 DEF BackendsInv

LEMMA BackendsStutter ==
  ASSUME BackendsInv, UNCHANGED B!vars
  PROVE  BackendsInv'
BY DEF BackendsInv, StoreRight, CallsRight, CountsRight, B!vars, B!Kind, B!Unwritten, B!Hollow, B!Content,
   B!Nothing, B!Seed, Shown,
   Requested, Views, B!Idle, Right, Walked, Behind

LEMMA BackendsStep ==
  ASSUME B!Bounds, BackendsInv, B!Next
  PROVE  BackendsInv'
BY BackendsMoves

LEMMA AnswersStep ==
  ASSUME B!Bounds, BackendsInv, B!Next
  PROVE  B!AnswersHold
BY BackendsMoves

LEMMA BackendsMeans ==
  ASSUME B!Bounds, BackendsInv
  PROVE  B!TypeOK
<1>1. ASSUME NEW t \in Task, B!Busy(t)
      PROVE  /\ call[t].phase \in {"first", "look", "second"} /\ B!View \in call[t].was
             /\ call[t].saw = B!Hollow => kind = "folder"
  <2>1. CallsRight
    BY DEF BackendsInv
  <2>2. /\ Right(call[t], Shown(store), kind) /\ call[t].phase \in {"first", "look", "second"}
        /\ Shown(store) \in call[t].was
    BY <1>1, <2>1, UnderWay
  <2> QED BY <2>2, ViewIs DEF Right
<1> QED BY <1>1 DEF BackendsInv, StoreRight, CountsRight, B!TypeOK

\* However calls, another writer and lost answers meet, what a storage answers was
\* so while the call was under way (s3.js list, github.js list and write,
\* filesystem.js, tauri.js, demo.js).
THEOREM StoragesAnswerTruly == ASSUME B!Bounds PROVE B!Spec => [][B!AnswersHold]_B!vars
<1>1. B!Init => BackendsInv
  BY BackendsInit
<1>2. BackendsInv /\ [B!Next]_B!vars => BackendsInv'
  BY BackendsStep, BackendsStutter
<1>3. BackendsInv /\ [B!Next]_B!vars => [B!AnswersHold]_B!vars
  BY AnswersStep
<1> QED BY <1>1, <1>2, <1>3, PTL DEF B!Spec

-----------------------------------------------------------------------------
(* What a review carries (Review).                                           *)

\* What the log holds of an item and of a finding, and what was agreed to.
OfItem == [comment : R!Words \cup {R!Null}, included : BOOLEAN, verdict : R!Verdict \cup {""},
           posted : BOOLEAN, labelsDropped : BOOLEAN, closeDropped : BOOLEAN]
OfFinding == [included : BOOLEAN, body : R!Words \cup {R!Null}, edited : BOOLEAN,
              fix : R!Words \cup {R!Null}, posted : BOOLEAN]
Consent == [yes : BOOLEAN, body : R!Words, fix : R!Words]

ReviewTypes ==
  /\ queue \subseteq R!Item
  /\ pulls \in [R!Item -> OfItem] /\ findings \in [R!Keys -> OfFinding]
  /\ own \in [Remark -> Pulled \cup {"none", "removed"}]
  /\ reading \in [prefix : BOOLEAN, stripped : SUBSET Label]
  /\ steps \in 0..MaxSteps /\ writings \in 0..MaxWords /\ reverted \subseteq Remark
  /\ agreed \in [R!Targets -> Consent] /\ chosen \in [R!Item -> R!Verdict \cup {"", "sent"}]

\* The agent's findings are told apart by their ids; an issue has none.
Drafted ==
  /\ DOMAIN draft = R!Item
  /\ \A i \in R!Item : /\ draft[i].n \in 1..MaxDrafts /\ R!Parses(draft[i].file)
                       /\ draft[i].file.findings \in Seq(Finding)
                       /\ i \in Issue => draft[i].file.findings = <<>>

\* A decision that leaves the agent's words was about some of them, and one that
\* has words of its own was about those.
Stands(decided, words) == IF decided = R!Null THEN words \in 1..MaxDrafts ELSE words = decided

WholeFits(o, a, event) ==
  /\ a.yes = o.included /\ o.comment \notin 1..MaxDrafts
  /\ o.included => Stands(o.comment, a.body)
  /\ event # "sent" => o.verdict = event

FindingFits(o, a) ==
  /\ a.yes = (o.included /\ ~o.posted) /\ o.edited = (o.body # R!Null)
  /\ o.body \notin 1..MaxDrafts /\ o.fix \notin 1..MaxDrafts
  /\ a.yes => Stands(o.body, a.body) /\ Stands(o.fix, a.fix)

\* A comment of the reader's own has no words but theirs.
OwnFits(o, a, back) ==
  /\ a.yes = (o.included /\ ~o.posted) /\ o.body \notin 1..MaxDrafts /\ o.fix = R!NoWords
  /\ a.yes => a.fix = R!NoWords
  /\ ~back => o.body # R!Null /\ (a.yes => a.body = o.body)

WholeAgreed == \A i \in R!Item : WholeFits(pulls[i], agreed[<<i, "summary">>], chosen[i])
FindingsAgreed == \A i \in Pulled, f \in Finding : FindingFits(findings[<<i, f>>], agreed[<<i, f>>])
OwnAgreed == \A f \in Remark :
  own[f] \in Pulled => OwnFits(findings[<<"own", f>>], agreed[<<own[f], f>>], f \in reverted)

ReviewInv == ReviewTypes /\ Drafted /\ WholeAgreed /\ FindingsAgreed /\ OwnAgreed

-----------------------------------------------------------------------------
\* Nothing, the agent's words, the reader's and no decision are told apart.
LEMMA WordsApart ==
  ASSUME R!Bounds
  PROVE  /\ MaxDrafts \in Nat \ {0} /\ MaxSteps \in Nat /\ MaxWords \in Nat
         /\ R!NoWords \in R!Words /\ R!NoWords \notin 1..MaxDrafts /\ R!Null \notin R!Words
         /\ R!Null \notin 1..MaxDrafts
         /\ 1..MaxDrafts \subseteq R!Words
         /\ writings \in 0..MaxWords /\ writings < MaxWords => R!Fresh \in R!Words /\ R!Fresh \notin 1..MaxDrafts
BY DEF R!Bounds, R!Words, R!NoWords, R!Null, R!Fresh

\* Where a decision about a finding is kept.
LEMMA KeysApart ==
  ASSUME R!Bounds
  PROVE  /\ \A i, f : f \in Remark => R!Key(i, f) = <<"own", f>> /\ <<"own", f>> \in R!Keys
         /\ \A i \in Pulled, f \in Finding :
              /\ R!Key(i, f) = <<i, f>> /\ <<i, f>> \in R!Keys /\ \A g \in Remark : <<i, f>> # <<"own", g>>
         /\ \A i \in R!Item : <<i, "summary">> \in R!Targets /\ \A j \in R!Item, f \in Finding \cup Remark : <<j, f>> # <<i, "summary">>
         /\ \A i \in Pulled, f \in Finding \cup Remark : <<i, f>> \in R!Targets
<1>1. \A f \in Finding : f \notin Remark
  BY DEF R!Bounds
<1>2. \A i \in R!Item : i # "own"
  BY DEF R!Bounds
<1>3. \A f \in Finding \cup Remark : f # "summary"
  BY DEF R!Bounds
<1> QED BY <1>1, <1>2, <1>3 DEF R!Key, R!Keys, R!Targets, R!Item

LEMMA Listable == ASSUME R!Bounds PROVE IsFiniteSet(Finding \cup Remark)
<1> DEFINE S == Finding \cup Remark
<1>1. R!IsFiniteSet(S)
  BY DEF R!Bounds
<1> HIDE DEF S
<1>2. IsFiniteSet(S)
  BY <1>1 DEF R!IsFiniteSet, IsFiniteSet
<1> QED BY <1>2 DEF S

\* A finite set, listed.
LEMMA ListedOnce ==
  ASSUME NEW S, IsFiniteSet(S)
  PROVE  /\ R!SetToSeq(S) \in Seq(S)
         /\ \A m, n \in DOMAIN R!SetToSeq(S) : R!SetToSeq(S)[m] = R!SetToSeq(S)[n] => m = n
<1>1. Cardinality(S) \in Nat /\ ExistsBijection(1..Cardinality(S), S)
  BY FS_CardinalityType
<1>2. PICK f \in [1..Cardinality(S) -> S] : \A m, n \in DOMAIN f : f[m] = f[n] => m = n
  BY <1>1 DEF ExistsBijection, Bijection, Injection, R!IsInjective, IsInjective
<1>3. \E g \in [1..Cardinality(S) -> S] : IsInjective(g)
  BY <1>2 DEF R!IsInjective, IsInjective
<1>4. R!SetToSeq(S) \in [1..Cardinality(S) -> S] /\ IsInjective(R!SetToSeq(S))
  BY <1>3 DEF R!SetToSeq, R!Cardinality, Cardinality, R!IsInjective, IsInjective
<1> QED BY <1>1, <1>4 DEF R!IsInjective, IsInjective

\* What is picked from a list: what is at the places, each once.
Places(I, place) ==
  /\ place \in [1..Cardinality(I) -> I]
  /\ \A j, k \in 1..Cardinality(I) : place[j] = place[k] => j = k
  /\ \A n \in I : \E k \in 1..Cardinality(I) : place[k] = n

LEMMA PickedIs ==
  ASSUME NEW list, NEW N \in Nat, NEW I \in SUBSET (1..N)
  PROVE  /\ DOMAIN R!Picked(list, I) = 1..Cardinality(I) /\ Cardinality(I) \in Nat
         /\ \E place : Places(I, place) /\ \A k \in 1..Cardinality(I) : R!Picked(list, I)[k] = list[place[k]]
<1> DEFINE c == Cardinality(I)
           Below(n) == {m \in I : m < n}
           rank == [n \in I |-> Cardinality(Below(n))]
           place == [k \in 1..c |-> CHOOSE n \in I : Cardinality({m \in I : m < n}) = k - 1]
<1>1. IsFiniteSet(I) /\ c \in Nat
  <2>1. IsFiniteSet(1..N)
    BY FS_Interval
  <2>2. IsFiniteSet(I)
    BY <2>1, FS_Subset
  <2> QED BY <2>2, FS_CardinalityType
<1>2. ASSUME NEW n \in I
      PROVE  IsFiniteSet(Below(n)) /\ Cardinality(Below(n)) \in Nat /\ Cardinality(Below(n)) < c
  <2>1. Below(n) \in SUBSET I /\ Below(n) # I /\ n \in Nat
    OBVIOUS
  <2>2. IsFiniteSet(Below(n)) /\ Cardinality(Below(n)) <= c /\ Cardinality(Below(n)) # c
    <3> HIDE DEF Below
    <3> QED BY <1>1, <2>1, FS_Subset
  <2>3. Cardinality(Below(n)) \in Nat
    BY <2>2, FS_CardinalityType
  <2> QED BY <1>1, <2>2, <2>3
<1>3. ASSUME NEW m \in I, NEW n \in I, m < n PROVE rank[m] < rank[n]
  <2>1. Below(m) \in SUBSET Below(n) /\ m \in Below(n) /\ m \notin Below(m)
    <3>1. m \in Nat /\ n \in Nat
      OBVIOUS
    <3>2. ASSUME NEW x \in I, x < m PROVE x < n
      <4>1. x \in Nat
        OBVIOUS
      <4> QED BY <1>3, <3>1, <3>2, <4>1
    <3>3. ~(m < m)
      BY <3>1
    <3> QED BY <1>3, <3>2, <3>3
  <2>2. Cardinality(Below(m)) <= Cardinality(Below(n)) /\ Cardinality(Below(m)) # Cardinality(Below(n))
    <3>1. IsFiniteSet(Below(n))
      BY <1>2
    <3> HIDE DEF Below
    <3> QED BY <2>1, <3>1, FS_Subset
  <2>3. Cardinality(Below(m)) \in Nat /\ Cardinality(Below(n)) \in Nat
    BY <1>2
  <2> HIDE DEF Below
  <2> QED BY <2>2, <2>3
<1>4. \A n \in I : rank[n] \in 0 .. (c - 1)
  <2> HIDE DEF Below, c
  <2> QED BY <1>1, <1>2
<1> HIDE DEF rank
<1>5. \A m, n \in I : rank[m] = rank[n] => m = n
  <2> SUFFICES ASSUME NEW m \in I, NEW n \in I, rank[m] = rank[n] PROVE m = n
    OBVIOUS
  <2>1. m \in Nat /\ n \in Nat /\ rank[m] \in Nat
    BY <1>4
  <2>2. ~(m < n) /\ ~(n < m)
    BY <1>3, <2>1
  <2> QED BY <2>1, <2>2
<1>6. IsFiniteSet(0 .. (c - 1)) /\ Cardinality(0 .. (c - 1)) = c
  <2>1. 0 \in Int /\ c - 1 \in Int
    BY <1>1
  <2>2. IsFiniteSet(0 .. (c - 1)) /\ Cardinality(0 .. (c - 1)) = IF 0 > c - 1 THEN 0 ELSE (c - 1) - 0 + 1
    <3> HIDE DEF c
    <3> QED BY <2>1, FS_Interval
  <2> QED BY <1>1, <2>2
<1>7. rank \in Injection(I, 0 .. (c - 1))
  <2>1. rank \in [I -> 0 .. (c - 1)]
    BY <1>4 DEF rank
  <2> QED BY <1>5, <2>1 DEF Injection, R!IsInjective, IsInjective
<1>8. rank \in Surjection(I, 0 .. (c - 1))
  BY <1>1, <1>6, <1>7, FS_Injection
<1>9. ASSUME NEW k \in 1..c PROVE place[k] \in I /\ rank[place[k]] = k - 1
  <2>1. k - 1 \in 0 .. (c - 1)
    BY <1>1
  <2>2. PICK n \in I : rank[n] = k - 1
    BY <1>8, <2>1 DEF Surjection
  <2>3. \E x \in I : Cardinality({m \in I : m < x}) = k - 1
    BY <2>2 DEF rank
  <2> QED BY <2>3 DEF rank
<1>10. Places(I, place)
  <2>1. place \in [1..c -> I]
    BY <1>9
  <2> HIDE DEF place
  <2>2. \A j, k \in 1..c : place[j] = place[k] => j = k
    <3> SUFFICES ASSUME NEW j \in 1..c, NEW k \in 1..c, place[j] = place[k] PROVE j = k
      OBVIOUS
    <3>1. j - 1 = k - 1
      BY <1>9
    <3> QED BY <1>1, <3>1
  <2>3. ASSUME NEW n \in I PROVE \E k \in 1..c : place[k] = n
    <3>1. rank[n] + 1 \in 1..c /\ (rank[n] + 1) - 1 = rank[n]
      BY <1>1, <1>4
    <3>2. rank[place[rank[n] + 1]] = rank[n] /\ place[rank[n] + 1] \in I
      BY <1>9, <3>1
    <3> QED BY <1>5, <3>1, <3>2
  <2> QED BY <2>1, <2>2, <2>3 DEF Places
<1>11. R!Picked(list, I) = [k \in 1..c |-> list[place[k]]]
  BY DEF R!Picked, R!Cardinality, Cardinality
<1> HIDE DEF place
<1> QED BY <1>1, <1>10, <1>11

\* What the pane lists of a pull request: the agent's findings and then the
\* reader's own, each once.
ShownTo(i) == R!AgentsFindings(i) \o R!SetToSeq({f \in Remark : own[f] = i})

LEMMA ShownOnce ==
  ASSUME R!Bounds, ReviewInv, NEW i \in R!Item
  PROVE  /\ ShownTo(i) \in Seq(Finding \cup Remark)
         /\ R!FindingsForPull(i) = [n \in DOMAIN ShownTo(i) |-> R!Merged(i, ShownTo(i)[n])]
         /\ \A m, n \in DOMAIN ShownTo(i) : ShownTo(i)[m] = ShownTo(i)[n] => m = n
         /\ \A n \in DOMAIN ShownTo(i) : /\ ShownTo(i)[n] \in Finding => i \in Pulled
                                         /\ ShownTo(i)[n] \in Remark => i \in Pulled /\ own[ShownTo(i)[n]] = i
<1> DEFINE S == {f \in Remark : own[f] = i}
           a == draft[i].file.findings
           s == R!SetToSeq(S)
<1>1. IsFiniteSet(S)
  <2>1. S \in SUBSET (Finding \cup Remark)
    OBVIOUS
  <2> HIDE DEF S
  <2> QED BY <2>1, Listable, FS_Subset
<1>2. s \in Seq(S) /\ \A m, n \in DOMAIN s : s[m] = s[n] => m = n
  <2> HIDE DEF S
  <2> QED BY <1>1, ListedOnce
<1>3. a \in Seq(Finding) /\ \A m, n \in DOMAIN a : a[m] = a[n] => m = n
  <2>1. a \in Seq(Finding) /\ R!Parses(draft[i].file)
    BY DEF ReviewInv, Drafted
  <2> QED BY <2>1 DEF R!Parses, R!Distinct, R!IsInjective, IsInjective
<1>4. i \in Issue => a = <<>>
  BY DEF ReviewInv, Drafted
<1>5. ShownTo(i) = a \o s
  BY DEF ShownTo, R!AgentsFindings
<1>6. \A f \in S : f \in Remark /\ own[f] = i
  OBVIOUS
<1>7. Finding \cap Remark = {} /\ i \notin {"none", "removed"} /\ R!Item = Pulled \cup Issue
  BY DEF R!Bounds, R!Item
<1>8. S # {} => i \in Pulled
  BY <1>7 DEF ReviewInv, ReviewTypes
<1> HIDE DEF a, S, s
<1>9. /\ Len(a) \in Nat /\ DOMAIN a = 1..Len(a) /\ Len(s) \in Nat /\ DOMAIN s = 1..Len(s)
      /\ \A n \in DOMAIN a : a[n] \in Finding
      /\ \A n \in DOMAIN s : s[n] \in S
  BY <1>2, <1>3
<1>10. /\ Len(a \o s) = Len(a) + Len(s) /\ DOMAIN (a \o s) = 1..(Len(a) + Len(s))
       /\ \A n \in 1..(Len(a) + Len(s)) : (a \o s)[n] = IF n <= Len(a) THEN a[n] ELSE s[n - Len(a)]
  BY <1>2, <1>3
<1>11. ASSUME NEW n \in DOMAIN (a \o s)
       PROVE  \/ n \in DOMAIN a /\ (a \o s)[n] = a[n] /\ a[n] \in Finding
              \/ n - Len(a) \in DOMAIN s /\ (a \o s)[n] = s[n - Len(a)] /\ s[n - Len(a)] \in S
  BY <1>9, <1>10
<1>12. a \o s \in Seq(Finding \cup Remark)
  <2>1. a \in Seq(Finding \cup Remark) /\ s \in Seq(Finding \cup Remark)
    BY <1>2, <1>3, <1>6, <1>9
  <2> QED BY <2>1
<1>13. ASSUME NEW m \in DOMAIN (a \o s), NEW n \in DOMAIN (a \o s), (a \o s)[m] = (a \o s)[n]
       PROVE  m = n
  <2>1. m \in Nat /\ n \in Nat
    BY <1>9, <1>10
  <2>2. \/ m \in DOMAIN a /\ n \in DOMAIN a /\ a[m] = a[n]
        \/ m - Len(a) \in DOMAIN s /\ n - Len(a) \in DOMAIN s /\ s[m - Len(a)] = s[n - Len(a)]
    BY <1>6, <1>7, <1>11, <1>13
  <2>3. m = n \/ m - Len(a) = n - Len(a)
    BY <1>2, <1>3, <2>2
  <2> QED BY <1>9, <2>1, <2>3
<1>14. ASSUME NEW n \in DOMAIN (a \o s)
       PROVE  /\ (a \o s)[n] \in Finding => i \in Pulled
              /\ (a \o s)[n] \in Remark => i \in Pulled /\ own[(a \o s)[n]] = i
  <2>1. CASE n \in DOMAIN a /\ (a \o s)[n] = a[n] /\ a[n] \in Finding
    <3>1. a # <<>>
      BY <2>1
    <3> QED BY <1>4, <1>7, <2>1, <3>1
  <2>2. CASE n - Len(a) \in DOMAIN s /\ (a \o s)[n] = s[n - Len(a)] /\ s[n - Len(a)] \in S
    BY <1>6, <1>7, <1>8, <2>2
  <2> QED BY <1>11, <2>1, <2>2
<1>15. R!FindingsForPull(i) = [n \in DOMAIN ShownTo(i) |-> R!Merged(i, ShownTo(i)[n])]
  BY DEF R!FindingsForPull, ShownTo
<1> QED BY <1>5, <1>12, <1>13, <1>14, <1>15

\* A card is of a finding the pane lists.
LEMMA CardShown ==
  ASSUME R!Bounds, ReviewInv, NEW i \in R!Item, NEW f \in Finding \cup Remark, R!Card(i, f)
  PROVE  i \in Pulled /\ (f \in Remark => own[f] = i) /\ ~findings[R!Key(i, f)].posted
<1>1. PICK n \in DOMAIN R!FindingsForPull(i) : R!FindingsForPull(i)[n].id = f
  BY DEF R!Card
<1>2. n \in DOMAIN ShownTo(i) /\ R!FindingsForPull(i)[n] = R!Merged(i, ShownTo(i)[n])
  BY <1>1, ShownOnce
<1>3. ShownTo(i)[n] = f
  BY <1>1, <1>2 DEF R!Merged
<1> QED BY <1>2, <1>3, ShownOnce DEF R!Card

\* A step that decides about a finding of the agent's.
LEMMA FindingKept ==
  ASSUME R!Bounds, ReviewInv, NEW i \in Pulled, NEW f \in Finding, NEW o \in OfFinding, NEW a \in Consent,
         findings' = [findings EXCEPT ![<<i, f>>] = o], agreed' = [agreed EXCEPT ![<<i, f>>] = a],
         FindingFits(o, a), UNCHANGED <<queue, draft, pulls, own, reading, chosen, reverted>>,
         steps' \in 0..MaxSteps, writings' \in 0..MaxWords
  PROVE  ReviewInv'
<1>1. /\ <<i, f>> \in R!Keys /\ <<i, f>> \in R!Targets /\ (\A g \in Remark : <<i, f>> # <<"own", g>> /\ g # f)
      /\ \A j \in R!Item : <<j, "summary">> # <<i, f>>
  <2>1. Finding \cap Remark = {}
    BY DEF R!Bounds
  <2> QED BY <2>1, KeysApart DEF R!Item
<1>2. ReviewTypes'
  BY <1>1 DEF ReviewInv, ReviewTypes, R!Keys, R!Targets, R!Words, R!Null, OfItem, OfFinding, Consent, R!Item,
     R!Verdict
<1>3. Drafted'
  BY DEF ReviewInv, Drafted
<1>4. WholeAgreed'
  <2>1. \A j \in R!Item : agreed'[<<j, "summary">>] = agreed[<<j, "summary">>]
    BY <1>1, KeysApart DEF ReviewInv, ReviewTypes
  <2> QED BY <2>1 DEF ReviewInv, WholeAgreed
<1>5. ASSUME NEW j \in Pulled, NEW g \in Finding PROVE FindingFits(findings'[<<j, g>>], agreed'[<<j, g>>])
  <2>1. <<j, g>> \in R!Keys /\ <<j, g>> \in R!Targets
    BY KeysApart
  <2>2. CASE <<j, g>> = <<i, f>>
    BY <1>1, <2>2 DEF ReviewInv, ReviewTypes
  <2>3. CASE <<j, g>> # <<i, f>>
    <3>1. findings'[<<j, g>>] = findings[<<j, g>>] /\ agreed'[<<j, g>>] = agreed[<<j, g>>]
      BY <2>1, <2>3 DEF ReviewInv, ReviewTypes
    <3> QED BY <3>1 DEF ReviewInv, FindingsAgreed
  <2> QED BY <2>2, <2>3
<1>6. OwnAgreed'
  <2> SUFFICES ASSUME NEW g \in Remark, own[g] \in Pulled
               PROVE  OwnFits(findings'[<<"own", g>>], agreed'[<<own[g], g>>], g \in reverted)
    BY DEF OwnAgreed
  <2>1. findings'[<<"own", g>>] = findings[<<"own", g>>] /\ agreed'[<<own[g], g>>] = agreed[<<own[g], g>>]
    BY <1>1, KeysApart DEF ReviewInv, ReviewTypes
  <2> QED BY <2>1 DEF ReviewInv, OwnAgreed
<1> QED BY <1>2, <1>3, <1>4, <1>5, <1>6 DEF ReviewInv, FindingsAgreed, WholeAgreed, OwnAgreed

\* A step that decides about a comment of the reader's own.
LEMMA OwnKept ==
  ASSUME R!Bounds, ReviewInv, NEW i \in Pulled, NEW f \in Remark, NEW o \in OfFinding, NEW a \in Consent,
         findings' = [findings EXCEPT ![<<"own", f>>] = o], agreed' = [agreed EXCEPT ![<<i, f>>] = a],
         own' = [own EXCEPT ![f] = i], OwnFits(o, a, f \in reverted'),
         reverted' \subseteq Remark, reverted' \ {f} = reverted \ {f},
         UNCHANGED <<queue, draft, pulls, reading, chosen>>,
         steps' \in 0..MaxSteps, writings' \in 0..MaxWords
  PROVE  ReviewInv'
<1>1. /\ <<"own", f>> \in R!Keys /\ <<i, f>> \in R!Targets /\ f \notin Finding
      /\ (\A j \in Pulled, g \in Finding : <<j, g>> # <<"own", f>> /\ <<j, g>> # <<i, f>>)
      /\ \A j \in R!Item : <<j, "summary">> # <<i, f>>
  <2>1. Finding \cap Remark = {}
    BY DEF R!Bounds
  <2> QED BY <2>1, KeysApart DEF R!Item
<1>2. ReviewTypes'
  BY <1>1 DEF ReviewInv, ReviewTypes, R!Keys, R!Targets, R!Words, R!Null, OfItem, OfFinding, Consent, R!Item,
     R!Verdict
<1>3. Drafted'
  BY DEF ReviewInv, Drafted
<1>4. WholeAgreed'
  <2>1. \A j \in R!Item : agreed'[<<j, "summary">>] = agreed[<<j, "summary">>]
    BY <1>1, KeysApart DEF ReviewInv, ReviewTypes
  <2> QED BY <2>1 DEF ReviewInv, WholeAgreed
<1>5. ASSUME NEW j \in Pulled, NEW g \in Finding PROVE FindingFits(findings'[<<j, g>>], agreed'[<<j, g>>])
  <2>1. findings'[<<j, g>>] = findings[<<j, g>>] /\ agreed'[<<j, g>>] = agreed[<<j, g>>]
    BY <1>1, KeysApart DEF ReviewInv, ReviewTypes
  <2> QED BY <2>1 DEF ReviewInv, FindingsAgreed
<1>6. ASSUME NEW g \in Remark, own'[g] \in Pulled
      PROVE  OwnFits(findings'[<<"own", g>>], agreed'[<<own'[g], g>>], g \in reverted')
  <2>1. <<"own", g>> \in R!Keys /\ own \in [Remark -> Pulled \cup {"none", "removed"}]
    BY KeysApart DEF ReviewInv, ReviewTypes
  <2>2. CASE g = f
    <3>1. own'[f] = i /\ findings'[<<"own", f>>] = o /\ agreed'[<<i, f>>] = a
      BY <1>1, <2>1 DEF ReviewInv, ReviewTypes
    <3> QED BY <2>2, <3>1
  <2>3. CASE g # f
    <3>0. g \in reverted' <=> g \in reverted
      BY <2>3
    <3>1. own'[g] = own[g] /\ findings'[<<"own", g>>] = findings[<<"own", g>>]
      BY <2>1, <2>3 DEF ReviewInv, ReviewTypes
    <3>2. agreed'[<<own[g], g>>] = agreed[<<own[g], g>>]
      BY <1>6, <2>3, <3>1, KeysApart DEF ReviewInv, ReviewTypes
    <3>3. OwnFits(findings[<<"own", g>>], agreed[<<own[g], g>>], g \in reverted)
      BY <1>6, <3>1 DEF ReviewInv, OwnAgreed
    <3> QED BY <3>0, <3>1, <3>2, <3>3
  <2> QED BY <2>2, <2>3
<1> QED BY <1>2, <1>3, <1>4, <1>5, <1>6 DEF ReviewInv, FindingsAgreed, WholeAgreed, OwnAgreed

\* A step that decides about an item as a whole.
LEMMA WholeKept ==
  ASSUME R!Bounds, ReviewInv, NEW i \in R!Item, NEW o \in OfItem, NEW a \in Consent, NEW event \in R!Verdict \cup {"", "sent"},
         pulls' = [pulls EXCEPT ![i] = o], agreed' = [agreed EXCEPT ![<<i, "summary">>] = a],
         chosen' = [chosen EXCEPT ![i] = event], WholeFits(o, a, event),
         UNCHANGED <<queue, draft, findings, own, reading, reverted>>,
         steps' \in 0..MaxSteps, writings' \in 0..MaxWords
  PROVE  ReviewInv'
<1>1. /\ <<i, "summary">> \in R!Targets
      /\ \A j \in R!Item, g \in Finding \cup Remark : <<j, g>> # <<i, "summary">>
  BY KeysApart DEF R!Item
<1>2. ReviewTypes'
  BY <1>1 DEF ReviewInv, ReviewTypes, R!Keys, R!Targets, R!Words, R!Null, OfItem, OfFinding, Consent, R!Item,
     R!Verdict
<1>3. Drafted'
  BY DEF ReviewInv, Drafted
<1>4. ASSUME NEW j \in R!Item PROVE WholeFits(pulls'[j], agreed'[<<j, "summary">>], chosen'[j])
  <2>1. <<j, "summary">> \in R!Targets
    BY KeysApart
  <2>2. CASE j = i
    BY <1>1, <2>2 DEF ReviewInv, ReviewTypes
  <2>3. CASE j # i
    <3>1. pulls'[j] = pulls[j] /\ chosen'[j] = chosen[j] /\ agreed'[<<j, "summary">>] = agreed[<<j, "summary">>]
      BY <2>1, <2>3 DEF ReviewInv, ReviewTypes
    <3> QED BY <3>1 DEF ReviewInv, WholeAgreed
  <2> QED BY <2>2, <2>3
<1>5. \A j \in Pulled, g \in Finding \cup Remark : agreed'[<<j, g>>] = agreed[<<j, g>>]
  BY <1>1, KeysApart DEF ReviewInv, ReviewTypes, R!Item
<1>6. FindingsAgreed'
  BY <1>5 DEF ReviewInv, FindingsAgreed
<1>7. OwnAgreed'
  BY <1>5 DEF ReviewInv, OwnAgreed
<1> QED BY <1>2, <1>3, <1>4, <1>6, <1>7 DEF ReviewInv, WholeAgreed

\* What the pane shows of a finding: the reader's words or the draft's.
LEMMA MergeIs ==
  ASSUME R!Bounds, ReviewInv, NEW i \in Pulled, NEW f \in Finding \cup Remark
  PROVE  /\ R!Key(i, f) \in R!Keys /\ findings[R!Key(i, f)] \in OfFinding
         /\ R!Merged(i, f).body \in R!Words /\ R!Merged(i, f).fix \in R!Words
         /\ draft[i].n \in 1..MaxDrafts /\ draft[i].n \in R!Words
<1>1. R!Key(i, f) \in R!Keys
  <2>1. CASE f \in Remark
    <3>1. R!Key(i, f) = <<"own", f>>
      BY <2>1, KeysApart
    <3>2. <<"own", f>> \in R!Keys
      BY <2>1, KeysApart
    <3> QED BY <3>1, <3>2
  <2>2. CASE f \in Finding
    <3>1. R!Key(i, f) = <<i, f>>
      BY <2>2, KeysApart
    <3>2. <<i, f>> \in R!Keys
      BY <2>2, KeysApart
    <3> QED BY <3>1, <3>2
  <2> QED BY <2>1, <2>2
<1>2. draft[i].n \in 1..MaxDrafts
  BY DEF ReviewInv, Drafted, R!Item
<1>3. draft[i].n \in R!Words /\ R!NoWords \in R!Words
  BY <1>2, WordsApart
<1>4. findings[R!Key(i, f)] \in OfFinding
  BY <1>1 DEF ReviewInv, ReviewTypes
<1> QED BY <1>1, <1>2, <1>3, <1>4 DEF R!Merged, OfFinding

-----------------------------------------------------------------------------
LEMMA ReviewInit == ASSUME R!Bounds, R!Init PROVE ReviewInv
<1>1. ReviewTypes
  <2>1. \A i \in R!Item : R!Untouched \in OfItem
    BY DEF R!Untouched, OfItem
  <2>2. R!NoDecision \in OfFinding
    BY DEF R!NoDecision, OfFinding
  <2>3. R!NotAgreed \in Consent
    BY WordsApart DEF R!NotAgreed, Consent
  <2>4. 0 \in 0..MaxSteps /\ 0 \in 0..MaxWords
    BY WordsApart
  <2>5. queue \subseteq R!Item
    BY DEF R!Init, R!Item
  <2> HIDE DEF OfItem, OfFinding, Consent, R!Untouched, R!NoDecision, R!NotAgreed
  <2> QED BY <2>1, <2>2, <2>3, <2>4, <2>5 DEF R!Init, ReviewTypes
<1>2. Drafted
  <2> SUFFICES ASSUME NEW i \in R!Item
               PROVE  /\ draft[i].n \in 1..MaxDrafts /\ R!Parses(draft[i].file)
                      /\ draft[i].file.findings \in Seq(Finding)
                      /\ i \in Issue => draft[i].file.findings = <<>>
    BY DEF R!Init, Drafted
  <2>1. draft[i].n = 1 /\ draft[i].file = R!First(i) /\ 1 \in 1..MaxDrafts
    <3>1. draft[i] = R!Parsed(R!First(i), 1)
      BY DEF R!Init
    <3>2. 1 \in 1..MaxDrafts
      BY WordsApart
    <3> QED BY <3>1, <3>2 DEF R!Parsed
  <2>2. CASE i \in Pulled
    <3>1. IsFiniteSet(Finding)
      <4>1. Finding \in SUBSET (Finding \cup Remark)
        OBVIOUS
      <4> QED BY <4>1, Listable, FS_Subset
    <3> DEFINE s == R!SetToSeq(Finding)
    <3>2. s \in Seq(Finding) /\ \A m, n \in DOMAIN s : s[m] = s[n] => m = n
      BY <3>1, ListedOnce
    <3> HIDE DEF s
    <3>3. R!First(i) = R!File("APPROVE", TRUE, s, {}, {}, "none")
      BY <2>2 DEF R!First, s
    <3>4. i \notin Issue
      BY <2>2 DEF R!Bounds
    <3> QED BY <2>1, <3>2, <3>3, <3>4 DEF R!File, R!Parses, R!Distinct, R!IsInjective, IsInjective,
               R!LabelsAgree, R!CloseNamed, R!Proposes, R!Verdict
  <2>3. CASE i \notin Pulled
    <3>1. PICK add : R!First(i) = R!File("", TRUE, <<>>, add, {}, "duplicate")
      BY <2>3 DEF R!First
    <3> DEFINE file == draft[i].file
    <3>0. file = [verdict |-> "", comment |-> TRUE, findings |-> <<>>, add |-> add, remove |-> {}, close |-> "duplicate"]
      BY <2>1, <3>1 DEF R!File
    <3> HIDE DEF file
    <3>2. /\ file.verdict = "" /\ file.comment = TRUE /\ file.findings = <<>>
          /\ file.remove = {} /\ file.close = "duplicate"
      BY <3>0
    <3>3. R!Distinct(<<>>) /\ <<>> \in Seq(Finding)
      BY DEF R!Distinct, R!IsInjective, IsInjective
    <3>4. R!LabelsAgree(file)
      BY <3>2 DEF R!LabelsAgree
    <3>5. R!CloseNamed(file) /\ R!Proposes(file)
      BY <3>2 DEF R!CloseNamed, R!Proposes
    <3>6. R!Parses(file)
      BY <3>2, <3>3, <3>4, <3>5 DEF R!Parses
    <3> QED BY <2>1, <3>2, <3>3, <3>6 DEF file
  <2> QED BY <2>2, <2>3
<1>3. WholeAgreed
  BY WordsApart, KeysApart DEF R!Init, WholeAgreed, WholeFits, R!Untouched, R!NotAgreed, Stands
<1>4. FindingsAgreed
  BY WordsApart, KeysApart DEF R!Init, FindingsAgreed, FindingFits, R!NoDecision, R!NotAgreed, Stands
<1>5. OwnAgreed
  BY DEF R!Init, OwnAgreed, R!Bounds, R!Item
<1> QED BY <1>1, <1>2, <1>3, <1>4, <1>5 DEF ReviewInv

-----------------------------------------------------------------------------
\* The counts stay in their bounds, and what is typed is nobody else's.
LEMMA CountsKept ==
  ASSUME R!Bounds, ReviewInv
  PROVE  /\ R!Decide => steps' \in 0..MaxSteps
         /\ R!Writes => writings' \in 0..MaxWords /\ R!Fresh \in R!Words /\ R!Fresh \notin 1..MaxDrafts
         /\ UNCHANGED writings => writings' \in 0..MaxWords
<1>1. steps \in 0..MaxSteps /\ writings \in 0..MaxWords
  BY DEF ReviewInv, ReviewTypes
<1> QED BY <1>1, WordsApart DEF R!Decide, R!Writes

\* What the pane shows of a finding is what its decision is about.
LEMMA MergedFits ==
  ASSUME R!Bounds, ReviewInv, NEW i \in Pulled
  PROVE  /\ \A f \in Finding :
              LET o == findings[R!Key(i, f)]
              IN  Stands(o.body, R!Merged(i, f).body) /\ Stands(o.fix, R!Merged(i, f).fix)
         /\ \A f \in Remark :
              LET o == findings[R!Key(i, f)]
              IN  own[f] = i => R!Merged(i, f).fix = R!NoWords /\ (o.body # R!Null => R!Merged(i, f).body = o.body)
<1>1. ASSUME NEW f \in Finding
      PROVE  LET o == findings[R!Key(i, f)]
             IN  Stands(o.body, R!Merged(i, f).body) /\ Stands(o.fix, R!Merged(i, f).fix)
  <2>1. f \notin Remark
    BY DEF R!Bounds
  <2> QED BY <2>1, MergeIs DEF R!Merged, Stands
<1>2. ASSUME NEW f \in Remark, own[f] = i
      PROVE  LET o == findings[R!Key(i, f)]
             IN  R!Merged(i, f).fix = R!NoWords /\ (o.body # R!Null => R!Merged(i, f).body = o.body)
  <2>1. findings[R!Key(i, f)].fix = R!NoWords
    <3>1. R!Key(i, f) = <<"own", f>>
      BY KeysApart
    <3>2. OwnFits(findings[<<"own", f>>], agreed[<<own[f], f>>], f \in reverted)
      BY <1>2 DEF ReviewInv, OwnAgreed
    <3> QED BY <3>1, <3>2 DEF OwnFits
  <2>2. R!NoWords # R!Null
    BY WordsApart
  <2> QED BY <2>1, <2>2 DEF R!Merged
<1> QED BY <1>1, <1>2

\* What is agreed to, and what is not.
LEMMA Consents ==
  ASSUME R!Bounds, ReviewInv
  PROVE  /\ R!NotAgreed \in Consent /\ R!NotAgreed.yes = FALSE
         /\ \A b, c \in R!Words : /\ R!Agreed(b, c) \in Consent
                                  /\ R!Agreed(b, c).yes = TRUE /\ R!Agreed(b, c).body = b
                                  /\ R!Agreed(b, c).fix = c
         /\ \A t \in R!Targets : agreed[t] \in Consent /\ agreed = [agreed EXCEPT ![t] = agreed[t]]
         /\ \A f \in Remark : own = [own EXCEPT ![f] = own[f]]
<1>1. R!NotAgreed \in Consent /\ R!NotAgreed.yes = FALSE
  BY WordsApart DEF R!NotAgreed, Consent
<1>2. \A b, c \in R!Words : R!Agreed(b, c) \in Consent /\ R!Agreed(b, c).yes = TRUE /\ R!Agreed(b, c).body = b /\ R!Agreed(b, c).fix = c
  BY DEF R!Agreed, Consent
<1>3. \A t \in R!Targets : agreed[t] \in Consent /\ agreed = [agreed EXCEPT ![t] = agreed[t]]
  BY DEF ReviewInv, ReviewTypes
<1>4. \A f \in Remark : own = [own EXCEPT ![f] = own[f]]
  BY DEF ReviewInv, ReviewTypes
<1> QED BY <1>1, <1>2, <1>3, <1>4

\* A decision about a finding that can be made: of what kinds everything is.
Decided(i, f) ==
  /\ i \in Pulled /\ R!Key(i, f) \in R!Keys /\ findings[R!Key(i, f)] \in OfFinding
  /\ ~findings[R!Key(i, f)].posted
  /\ draft[i].n \in 1..MaxDrafts /\ draft[i].n \in R!Words /\ <<i, f>> \in R!Targets
  /\ R!Merged(i, f).body \in R!Words /\ R!Merged(i, f).fix \in R!Words
  /\ steps' \in 0..MaxSteps /\ UNCHANGED <<queue, draft, pulls, reading, chosen>>

AgentsIs(i, f) ==
  /\ f \notin Remark /\ R!Key(i, f) = <<i, f>>
  /\ FindingFits(findings[<<i, f>>], agreed[<<i, f>>])
  /\ Stands(findings[<<i, f>>].body, R!Merged(i, f).body) /\ Stands(findings[<<i, f>>].fix, R!Merged(i, f).fix)

OwnIs(i, f) ==
  /\ f \notin Finding /\ R!Key(i, f) = <<"own", f>> /\ own[f] = i
  /\ OwnFits(findings[<<"own", f>>], agreed[<<i, f>>], f \in reverted)
  /\ R!Merged(i, f).fix = R!NoWords
  /\ findings[<<"own", f>>].body # R!Null => R!Merged(i, f).body = findings[<<"own", f>>].body

LEMMA CardIs ==
  ASSUME R!Bounds, ReviewInv, NEW i \in R!Item, NEW f \in Finding \cup Remark, R!Card(i, f)
  PROVE  /\ Decided(i, f)
         /\ \/ f \in Finding /\ AgentsIs(i, f)
            \/ f \in Remark /\ OwnIs(i, f)
<1>1. i \in Pulled /\ (f \in Remark => own[f] = i) /\ ~findings[R!Key(i, f)].posted
  BY CardShown
<1>2. Decided(i, f)
  <2>1. <<i, f>> \in R!Targets
    BY <1>1, KeysApart
  <2>2. steps' \in 0..MaxSteps
    BY CountsKept DEF R!Card
  <2>3. UNCHANGED <<queue, draft, pulls, reading, chosen>>
    BY DEF R!Card
  <2> QED BY <1>1, <2>1, <2>2, <2>3, MergeIs DEF Decided
<1>3. Finding \cap Remark = {}
  BY DEF R!Bounds
<1>4. ASSUME f \in Finding PROVE AgentsIs(i, f)
  <2>1. R!Key(i, f) = <<i, f>>
    BY <1>1, <1>4, KeysApart
  <2>2. FindingFits(findings[<<i, f>>], agreed[<<i, f>>])
    BY <1>1, <1>4 DEF ReviewInv, FindingsAgreed
  <2>3. /\ Stands(findings[R!Key(i, f)].body, R!Merged(i, f).body)
        /\ Stands(findings[R!Key(i, f)].fix, R!Merged(i, f).fix)
    BY <1>1, <1>4, MergedFits
  <2> QED BY <1>3, <1>4, <2>1, <2>2, <2>3 DEF AgentsIs
<1>5. ASSUME f \in Remark PROVE OwnIs(i, f)
  <2>1. R!Key(i, f) = <<"own", f>>
    BY <1>5, KeysApart
  <2>2. OwnFits(findings[<<"own", f>>], agreed[<<i, f>>], f \in reverted)
    BY <1>1, <1>5 DEF ReviewInv, OwnAgreed
  <2>3. /\ R!Merged(i, f).fix = R!NoWords
        /\ findings[R!Key(i, f)].body # R!Null => R!Merged(i, f).body = findings[R!Key(i, f)].body
    BY <1>1, <1>5, MergedFits
  <2> QED BY <1>1, <1>3, <1>5, <2>1, <2>2, <2>3 DEF OwnIs
<1> QED BY <1>2, <1>4, <1>5

LEMMA ToggleKeeps ==
  ASSUME R!Bounds, ReviewInv, NEW i \in R!Item, NEW f \in Finding \cup Remark, R!Toggle(i, f)
  PROVE  ReviewInv'
<1> DEFINE o == findings[R!Key(i, f)]
           new == [o EXCEPT !.included = ~@]
           a == IF o.included THEN R!NotAgreed ELSE R!Agreed(R!Merged(i, f).body, R!Merged(i, f).fix)
<1>1. /\ Decided(i, f)
      /\ \/ f \in Finding /\ AgentsIs(i, f)
         \/ f \in Remark /\ OwnIs(i, f)
  BY CardIs DEF R!Toggle
<1>2. /\ findings' = [findings EXCEPT ![R!Key(i, f)] = new] /\ agreed' = [agreed EXCEPT ![<<i, f>>] = a]
      /\ UNCHANGED <<own, writings, reverted>>
  BY DEF R!Toggle, R!Findings, R!Agree, R!Withdraw
<1>3. /\ new \in OfFinding /\ new.body = o.body /\ new.fix = o.fix /\ new.edited = o.edited /\ ~new.posted
      /\ new.included = ~o.included
  BY <1>1 DEF Decided, OfFinding
<1>4. /\ a \in Consent /\ a.yes = ~o.included
      /\ a.yes => a.body = R!Merged(i, f).body /\ a.fix = R!Merged(i, f).fix
  <2>1. o.included \in BOOLEAN /\ R!Merged(i, f).body \in R!Words /\ R!Merged(i, f).fix \in R!Words
    BY <1>1 DEF Decided, OfFinding
  <2>2. CASE o.included
    <3>1. a = R!NotAgreed
      BY <2>2
    <3> HIDE DEF a
    <3> QED BY <2>2, <3>1, Consents
  <2>3. CASE ~o.included
    <3>1. a = R!Agreed(R!Merged(i, f).body, R!Merged(i, f).fix)
      BY <2>3
    <3> HIDE DEF a
    <3> QED BY <2>1, <2>3, <3>1, Consents
  <2> QED BY <2>2, <2>3
<1>5. writings' \in 0..MaxWords
  BY <1>2, CountsKept
<1> HIDE DEF new, a
<1>6. CASE f \in Finding /\ AgentsIs(i, f)
  <2>1. FindingFits(new, a)
    BY <1>3, <1>4, <1>6 DEF AgentsIs, FindingFits
  <2> QED BY <1>1, <1>2, <1>3, <1>4, <1>5, <1>6, <2>1, FindingKept DEF Decided, AgentsIs
<1>7. CASE f \in Remark /\ OwnIs(i, f)
  <2>1. OwnFits(new, a, f \in reverted')
    BY <1>2, <1>3, <1>4, <1>7 DEF OwnIs, OwnFits
  <2>2. own' = [own EXCEPT ![f] = i]
    BY <1>2, <1>7, Consents DEF OwnIs
  <2>3. reverted' \subseteq Remark /\ reverted' \ {f} = reverted \ {f}
    BY <1>2 DEF ReviewInv, ReviewTypes
  <2> QED BY <1>1, <1>2, <1>3, <1>4, <1>5, <1>7, <2>1, <2>2, <2>3, OwnKept DEF Decided, OwnIs
<1> QED BY <1>1, <1>6, <1>7

LEMMA EditFindingKeeps ==
  ASSUME R!Bounds, ReviewInv, NEW i \in R!Item, NEW f \in Finding \cup Remark, R!EditFinding(i, f)
  PROVE  ReviewInv'
<1>1. PICK text \in {R!NoWords, R!Fresh} :
        /\ R!Card(i, f) /\ R!Writes
        /\ R!Findings(i, f, [findings[R!Key(i, f)] EXCEPT !.body = text, !.edited = TRUE, !.included = TRUE])
        /\ R!Agree(<<i, f>>, text, R!Merged(i, f).fix)
        /\ reverted' = reverted \ {f} /\ UNCHANGED own
  BY DEF R!EditFinding
<1> DEFINE o == findings[R!Key(i, f)]
           new == [o EXCEPT !.body = text, !.edited = TRUE, !.included = TRUE]
           a == R!Agreed(text, R!Merged(i, f).fix)
<1>2. /\ Decided(i, f)
      /\ \/ f \in Finding /\ AgentsIs(i, f)
         \/ f \in Remark /\ OwnIs(i, f)
  BY <1>1, CardIs
<1>3. findings' = [findings EXCEPT ![R!Key(i, f)] = new] /\ agreed' = [agreed EXCEPT ![<<i, f>>] = a]
  BY <1>1 DEF R!Findings, R!Agree
<1>4. text \in R!Words /\ text \notin 1..MaxDrafts /\ text # R!Null /\ writings' \in 0..MaxWords
  BY <1>1, CountsKept, WordsApart
<1>5. /\ new \in OfFinding /\ new.body = text /\ new.fix = o.fix /\ new.edited = TRUE /\ ~new.posted
      /\ new.included = TRUE
  BY <1>2, <1>4 DEF Decided, OfFinding
<1>6. a \in Consent /\ a.yes = TRUE /\ a.body = text /\ a.fix = R!Merged(i, f).fix
  BY <1>2, <1>4, Consents DEF Decided, R!Agreed
<1> HIDE DEF new, a
<1>7. CASE f \in Finding /\ AgentsIs(i, f)
  <2>1. FindingFits(new, a)
    BY <1>4, <1>5, <1>6, <1>7 DEF AgentsIs, FindingFits, Stands
  <2>2. reverted' = reverted
    BY <1>1, <1>7 DEF AgentsIs, ReviewInv, ReviewTypes
  <2> QED BY <1>1, <1>2, <1>3, <1>4, <1>5, <1>6, <1>7, <2>1, <2>2, FindingKept DEF Decided, AgentsIs
<1>8. CASE f \in Remark /\ OwnIs(i, f)
  <2>1. OwnFits(new, a, f \in reverted')
    BY <1>4, <1>5, <1>6, <1>8 DEF OwnIs, OwnFits
  <2>2. own' = [own EXCEPT ![f] = i]
    BY <1>1, <1>8, Consents DEF OwnIs
  <2>3. reverted' \subseteq Remark /\ reverted' \ {f} = reverted \ {f}
    BY <1>1 DEF ReviewInv, ReviewTypes
  <2> QED BY <1>1, <1>2, <1>3, <1>4, <1>5, <1>6, <1>8, <2>1, <2>2, <2>3, OwnKept DEF Decided, OwnIs
<1> QED BY <1>2, <1>7, <1>8

LEMMA ResetFindingKeeps ==
  ASSUME R!Bounds, ReviewInv, NEW i \in R!Item, NEW f \in Finding \cup Remark, R!ResetFinding(i, f)
  PROVE  ReviewInv'
<1> DEFINE o == findings[R!Key(i, f)]
           new == [o EXCEPT !.body = R!Null, !.edited = FALSE]
           a == IF o.included /\ f \notin Remark THEN R!Agreed(draft[i].n, R!Merged(i, f).fix) ELSE agreed[<<i, f>>]
<1>1. /\ Decided(i, f)
      /\ \/ f \in Finding /\ AgentsIs(i, f)
         \/ f \in Remark /\ OwnIs(i, f)
  BY CardIs DEF R!ResetFinding
<1>2. findings' = [findings EXCEPT ![R!Key(i, f)] = new] /\ UNCHANGED <<own, writings>>
  BY DEF R!ResetFinding, R!Findings
<1>3. agreed' = [agreed EXCEPT ![<<i, f>>] = a]
  <2>1. agreed = [agreed EXCEPT ![<<i, f>>] = agreed[<<i, f>>]]
    BY <1>1, Consents DEF Decided
  <2> QED BY <2>1 DEF R!ResetFinding, R!Agree
<1>4. writings' \in 0..MaxWords
  BY <1>2, CountsKept
<1>5. /\ new \in OfFinding /\ new.body = R!Null /\ new.fix = o.fix /\ new.edited = FALSE /\ ~new.posted
      /\ new.included = o.included
  BY <1>1 DEF Decided, OfFinding
<1>6. a \in Consent
  BY <1>1, Consents DEF Decided
<1>7. /\ o.included /\ f \notin Remark => a.yes = TRUE /\ a.body = draft[i].n /\ a.fix = R!Merged(i, f).fix
      /\ ~(o.included /\ f \notin Remark) => a = agreed[<<i, f>>]
  BY <1>1, Consents DEF Decided, R!Agreed
<1>8. draft[i].n \in 1..MaxDrafts /\ R!Null \notin 1..MaxDrafts
  BY <1>1, WordsApart DEF Decided
<1> HIDE DEF new, a
<1>9. CASE f \in Finding /\ AgentsIs(i, f)
  <2>1. FindingFits(new, a)
    <3>1. CASE o.included
      BY <1>1, <1>5, <1>7, <1>8, <1>9, <3>1 DEF AgentsIs, FindingFits, Stands
    <3>2. CASE ~o.included
      BY <1>1, <1>5, <1>7, <1>8, <1>9, <3>2 DEF AgentsIs, FindingFits, Stands
    <3> QED BY <3>1, <3>2
  <2>2. reverted' = reverted
    BY <1>9 DEF AgentsIs, R!ResetFinding
  <2> QED BY <1>1, <1>2, <1>3, <1>4, <1>5, <1>6, <1>9, <2>1, <2>2, FindingKept DEF Decided, AgentsIs
<1>10. CASE f \in Remark /\ OwnIs(i, f)
  <2>1. reverted' = reverted \cup {f}
    BY <1>10 DEF R!ResetFinding
  <2>2. a = agreed[<<i, f>>]
    BY <1>7, <1>10
  <2>3. f \in reverted'
    BY <2>1
  <2>4. /\ a.yes = (o.included /\ ~o.posted) /\ o.fix = R!NoWords /\ (a.yes => a.fix = R!NoWords)
        /\ new.included = o.included /\ ~new.posted /\ ~o.posted
    BY <1>1, <1>5, <1>10, <2>2 DEF OwnIs, OwnFits, Decided
  <2>5. OwnFits(new, a, f \in reverted')
    BY <1>5, <1>8, <2>3, <2>4 DEF OwnFits
  <2>6. own' = [own EXCEPT ![f] = i]
    BY <1>2, <1>10, Consents DEF OwnIs
  <2>7. reverted' \subseteq Remark /\ reverted' \ {f} = reverted \ {f}
    BY <1>10, <2>1 DEF ReviewInv, ReviewTypes
  <2> QED BY <1>1, <1>2, <1>3, <1>4, <1>5, <1>6, <1>10, <2>5, <2>6, <2>7, OwnKept DEF Decided, OwnIs
<1> QED BY <1>1, <1>9, <1>10

LEMMA EditSuggestionKeeps ==
  ASSUME R!Bounds, ReviewInv, NEW i \in R!Item, NEW f \in Finding \cup Remark, R!EditSuggestion(i, f)
  PROVE  ReviewInv'
<1>1. PICK text \in {R!NoWords, R!Fresh} :
        /\ f \in Finding /\ R!Card(i, f) /\ R!Writes
        /\ R!Findings(i, f, [findings[R!Key(i, f)] EXCEPT !.fix = text, !.included = TRUE])
        /\ R!Agree(<<i, f>>, R!Merged(i, f).body, text)
        /\ UNCHANGED <<own, reverted>>
  BY DEF R!EditSuggestion
<1> DEFINE o == findings[R!Key(i, f)]
           new == [o EXCEPT !.fix = text, !.included = TRUE]
           a == R!Agreed(R!Merged(i, f).body, text)
<1>2. Decided(i, f) /\ AgentsIs(i, f)
  BY <1>1, CardIs DEF OwnIs
<1>3. findings' = [findings EXCEPT ![R!Key(i, f)] = new] /\ agreed' = [agreed EXCEPT ![<<i, f>>] = a]
  BY <1>1 DEF R!Findings, R!Agree
<1>4. text \in R!Words /\ text \notin 1..MaxDrafts /\ text # R!Null /\ writings' \in 0..MaxWords
  BY <1>1, CountsKept, WordsApart
<1>5. /\ new \in OfFinding /\ new.body = o.body /\ new.fix = text /\ new.edited = o.edited /\ ~new.posted
      /\ new.included = TRUE
  BY <1>2, <1>4 DEF Decided, OfFinding
<1>6. a \in Consent /\ a.yes = TRUE /\ a.body = R!Merged(i, f).body /\ a.fix = text
  BY <1>2, <1>4, Consents DEF Decided, R!Agreed
<1> HIDE DEF new, a
<1>7. FindingFits(new, a)
  BY <1>2, <1>4, <1>5, <1>6 DEF AgentsIs, FindingFits, Stands
<1> QED BY <1>1, <1>2, <1>3, <1>4, <1>5, <1>6, <1>7, FindingKept DEF Decided, AgentsIs

LEMMA ResetSuggestionKeeps ==
  ASSUME R!Bounds, ReviewInv, NEW i \in R!Item, NEW f \in Finding \cup Remark, R!ResetSuggestion(i, f)
  PROVE  ReviewInv'
<1> DEFINE o == findings[R!Key(i, f)]
           new == [o EXCEPT !.fix = R!Null]
           a == IF o.included THEN R!Agreed(R!Merged(i, f).body, draft[i].n) ELSE agreed[<<i, f>>]
<1>1. f \in Finding /\ Decided(i, f) /\ AgentsIs(i, f)
  BY CardIs DEF R!ResetSuggestion, OwnIs
<1>2. findings' = [findings EXCEPT ![R!Key(i, f)] = new] /\ UNCHANGED <<own, writings, reverted>>
  BY DEF R!ResetSuggestion, R!Findings
<1>3. agreed' = [agreed EXCEPT ![<<i, f>>] = a]
  <2>1. agreed = [agreed EXCEPT ![<<i, f>>] = agreed[<<i, f>>]]
    BY <1>1, Consents DEF Decided
  <2> QED BY <2>1 DEF R!ResetSuggestion, R!Agree
<1>4. writings' \in 0..MaxWords
  BY <1>2, CountsKept
<1>5. /\ new \in OfFinding /\ new.body = o.body /\ new.fix = R!Null /\ new.edited = o.edited /\ ~new.posted
      /\ new.included = o.included
  BY <1>1 DEF Decided, OfFinding
<1>6. a \in Consent
  BY <1>1, Consents DEF Decided
<1>7. /\ o.included => a.yes = TRUE /\ a.body = R!Merged(i, f).body /\ a.fix = draft[i].n
      /\ ~o.included => a = agreed[<<i, f>>]
  BY <1>1, Consents DEF Decided, R!Agreed
<1>8. draft[i].n \in 1..MaxDrafts /\ R!Null \notin 1..MaxDrafts
  BY <1>1, WordsApart DEF Decided
<1> HIDE DEF new, a
<1>9. FindingFits(new, a)
  <2>1. CASE o.included
    BY <1>1, <1>5, <1>7, <1>8, <2>1 DEF AgentsIs, FindingFits, Stands
  <2>2. CASE ~o.included
    BY <1>1, <1>5, <1>7, <1>8, <2>2 DEF AgentsIs, FindingFits, Stands
  <2> QED BY <2>1, <2>2
<1> QED BY <1>1, <1>2, <1>3, <1>4, <1>5, <1>6, <1>9, FindingKept DEF Decided, AgentsIs

LEMMA AddFindingKeeps ==
  ASSUME R!Bounds, ReviewInv, NEW i \in R!Item, NEW f \in Finding \cup Remark, R!AddFinding(i, f)
  PROVE  ReviewInv'
<1> DEFINE new == [R!NoDecision EXCEPT !.body = R!Fresh, !.included = TRUE, !.fix = R!NoWords]
           a == R!Agreed(R!Fresh, R!NoWords)
<1>1. i \in Pulled /\ f \in Remark /\ R!Decide /\ R!Writes
  BY DEF R!AddFinding
<1>2. R!Key(i, f) = <<"own", f>>
  BY <1>1, KeysApart
<1>3. /\ findings' = [findings EXCEPT ![<<"own", f>>] = new] /\ agreed' = [agreed EXCEPT ![<<i, f>>] = a]
      /\ own' = [own EXCEPT ![f] = i] /\ UNCHANGED <<queue, draft, pulls, reading, chosen, reverted>>
  BY <1>2 DEF R!AddFinding, R!Findings, R!Agree
<1>4. /\ R!Fresh \in R!Words /\ R!Fresh \notin 1..MaxDrafts /\ writings' \in 0..MaxWords
      /\ steps' \in 0..MaxSteps
      /\ R!NoWords \in R!Words /\ R!Fresh # R!Null
  BY <1>1, CountsKept, WordsApart
<1>5. /\ new \in OfFinding /\ new.body = R!Fresh /\ new.fix = R!NoWords /\ new.included = TRUE
      /\ new.posted = FALSE
  BY <1>4 DEF R!NoDecision, OfFinding
<1>6. a \in Consent /\ a.yes = TRUE /\ a.body = R!Fresh /\ a.fix = R!NoWords
  BY <1>4, Consents DEF R!Agreed
<1> HIDE DEF new, a
<1>7. OwnFits(new, a, f \in reverted')
  BY <1>4, <1>5, <1>6 DEF OwnFits
<1>8. reverted' \subseteq Remark /\ reverted' \ {f} = reverted \ {f}
  BY <1>3 DEF ReviewInv, ReviewTypes
<1> QED BY <1>1, <1>3, <1>4, <1>5, <1>6, <1>7, <1>8, OwnKept

LEMMA RemoveFindingKeeps ==
  ASSUME R!Bounds, ReviewInv, NEW i \in R!Item, NEW f \in Finding \cup Remark, R!RemoveFinding(i, f)
  PROVE  ReviewInv'
<1>1. /\ f \in Remark /\ R!Card(i, f) /\ own' = [own EXCEPT ![f] = "removed"]
      /\ UNCHANGED <<findings, agreed, writings, reverted>>
  BY DEF R!RemoveFinding
<1>2. Decided(i, f)
  BY <1>1, CardIs
<1>3. ReviewTypes'
  BY <1>1, <1>2, CountsKept DEF Decided, ReviewInv, ReviewTypes, R!Keys, R!Targets, R!Words, R!Null, OfItem,
     OfFinding, Consent, R!Item, R!Verdict
<1>4. Drafted' /\ WholeAgreed' /\ FindingsAgreed'
  BY <1>1, <1>2 DEF Decided, ReviewInv, Drafted, WholeAgreed, FindingsAgreed
<1>5. OwnAgreed'
  <2> SUFFICES ASSUME NEW g \in Remark, own'[g] \in Pulled
               PROVE  OwnFits(findings[<<"own", g>>], agreed[<<own'[g], g>>], g \in reverted)
    BY <1>1 DEF OwnAgreed
  <2>1. g # f
    BY <1>1 DEF ReviewInv, ReviewTypes, R!Bounds, R!Item
  <2>2. own'[g] = own[g]
    BY <1>1, <2>1 DEF ReviewInv, ReviewTypes
  <2> QED BY <2>2 DEF ReviewInv, OwnAgreed
<1> QED BY <1>3, <1>4, <1>5 DEF ReviewInv

LEMMA PostFindingKeeps ==
  ASSUME R!Bounds, ReviewInv, NEW i \in R!Item, NEW f \in Finding \cup Remark, R!PostFinding(i, f)
  PROVE  ReviewInv'
<1> DEFINE o == findings[R!Key(i, f)]
           new == [o EXCEPT !.posted = TRUE]
<1>1. /\ Decided(i, f)
      /\ \/ f \in Finding /\ AgentsIs(i, f)
         \/ f \in Remark /\ OwnIs(i, f)
  BY CardIs DEF R!PostFinding
<1>2. /\ findings' = [findings EXCEPT ![R!Key(i, f)] = new]
      /\ agreed' = [agreed EXCEPT ![<<i, f>>] = R!NotAgreed]
      /\ UNCHANGED <<own, writings, reverted>>
  BY DEF R!PostFinding, R!Findings, R!Withdraw
<1>3. new \in OfFinding /\ new.body = o.body /\ new.fix = o.fix /\ new.edited = o.edited /\ new.posted = TRUE
  BY <1>1 DEF Decided, OfFinding
<1>4. R!NotAgreed \in Consent /\ R!NotAgreed.yes = FALSE
  BY Consents
<1>5. writings' \in 0..MaxWords
  BY <1>2, CountsKept
<1> HIDE DEF new
<1>6. CASE f \in Finding /\ AgentsIs(i, f)
  <2>1. FindingFits(new, R!NotAgreed)
    BY <1>3, <1>4, <1>6 DEF AgentsIs, FindingFits
  <2> QED BY <1>1, <1>2, <1>3, <1>4, <1>5, <1>6, <2>1, FindingKept DEF Decided, AgentsIs
<1>7. CASE f \in Remark /\ OwnIs(i, f)
  <2>1. OwnFits(new, R!NotAgreed, f \in reverted')
    BY <1>2, <1>3, <1>4, <1>7 DEF OwnIs, OwnFits
  <2>2. own' = [own EXCEPT ![f] = i]
    BY <1>2, <1>7, Consents DEF OwnIs
  <2>3. reverted' \subseteq Remark /\ reverted' \ {f} = reverted \ {f}
    BY <1>2 DEF ReviewInv, ReviewTypes
  <2> QED BY <1>1, <1>2, <1>3, <1>4, <1>5, <1>7, <2>1, <2>2, <2>3, OwnKept DEF Decided, OwnIs
<1> QED BY <1>1, <1>6, <1>7

\* What the log holds of an item, when something about it is decided.
WholeIs(i) ==
  /\ pulls[i] \in OfItem /\ WholeFits(pulls[i], agreed[<<i, "summary">>], chosen[i])
  /\ <<i, "summary">> \in R!Targets /\ agreed[<<i, "summary">>] \in Consent
  /\ agreed = [agreed EXCEPT ![<<i, "summary">>] = agreed[<<i, "summary">>]]
  /\ chosen[i] \in R!Verdict \cup {"", "sent"} /\ chosen = [chosen EXCEPT ![i] = chosen[i]]
  /\ draft[i].n \in 1..MaxDrafts /\ draft[i].n \in R!Words /\ R!CommentFor(i) \in R!Words
  /\ R!CommentFor(i) # R!NoWords => Stands(pulls[i].comment, R!CommentFor(i))

LEMMA ItemIs == ASSUME R!Bounds, ReviewInv, NEW i \in R!Item PROVE WholeIs(i)
<1>1. pulls[i] \in OfItem /\ WholeFits(pulls[i], agreed[<<i, "summary">>], chosen[i])
  BY DEF ReviewInv, ReviewTypes, WholeAgreed
<1>2. <<i, "summary">> \in R!Targets
  BY KeysApart
<1>3. /\ agreed[<<i, "summary">>] \in Consent
      /\ agreed = [agreed EXCEPT ![<<i, "summary">>] = agreed[<<i, "summary">>]]
  BY <1>2, Consents
<1>4. chosen[i] \in R!Verdict \cup {"", "sent"} /\ chosen = [chosen EXCEPT ![i] = chosen[i]]
  BY DEF ReviewInv, ReviewTypes
<1>5. draft[i].n \in 1..MaxDrafts
  BY DEF ReviewInv, Drafted
<1>6. draft[i].n \in R!Words /\ R!NoWords \in R!Words /\ R!NoWords # R!Null
  BY <1>5, WordsApart
<1>7. R!CommentFor(i) \in R!Words
  BY <1>1, <1>6 DEF R!CommentFor, OfItem
<1>8. R!CommentFor(i) # R!NoWords => Stands(pulls[i].comment, R!CommentFor(i))
  BY <1>1, <1>5, <1>6 DEF R!CommentFor, OfItem, Stands
<1> QED BY <1>1, <1>2, <1>3, <1>4, <1>5, <1>6, <1>7, <1>8 DEF WholeIs

LEMMA EditCommentKeeps == ASSUME R!Bounds, ReviewInv, NEW i \in R!Item, R!EditComment(i) PROVE ReviewInv'
<1>1. PICK words \in {R!NoWords, R!Fresh} :
        /\ R!Whole(i) /\ R!Writes
        /\ R!Pulls(i, [pulls[i] EXCEPT !.comment = words, !.included = TRUE])
        /\ R!Agree(<<i, "summary">>, words, R!NoWords)
        /\ UNCHANGED chosen
  BY DEF R!EditComment
<1> DEFINE o == [pulls[i] EXCEPT !.comment = words, !.included = TRUE]
           a == R!Agreed(words, R!NoWords)
<1>2. WholeIs(i)
  BY ItemIs
<1>3. /\ words \in R!Words /\ words \notin 1..MaxDrafts /\ words # R!Null /\ writings' \in 0..MaxWords
      /\ steps' \in 0..MaxSteps /\ R!NoWords \in R!Words
  BY <1>1, CountsKept, WordsApart DEF R!Whole
<1>4. o \in OfItem /\ o.comment = words /\ o.included = TRUE /\ o.verdict = pulls[i].verdict
  BY <1>2, <1>3 DEF WholeIs, OfItem
<1>5. a \in Consent /\ a.yes = TRUE /\ a.body = words
  BY <1>3, Consents DEF R!Agreed
<1>6. /\ pulls' = [pulls EXCEPT ![i] = o] /\ agreed' = [agreed EXCEPT ![<<i, "summary">>] = a]
      /\ chosen' = [chosen EXCEPT ![i] = chosen[i]]
      /\ UNCHANGED <<queue, draft, findings, own, reading, reverted>>
  BY <1>1, <1>2 DEF R!Whole, R!Pulls, R!Agree, WholeIs
<1> HIDE DEF o, a
<1>7. WholeFits(o, a, chosen[i])
  BY <1>2, <1>3, <1>4, <1>5 DEF WholeIs, WholeFits, Stands
<1> QED BY <1>2, <1>3, <1>4, <1>5, <1>6, <1>7, WholeKept DEF WholeIs

LEMMA ToggleSummaryKeeps == ASSUME R!Bounds, ReviewInv, NEW i \in R!Item, R!ToggleSummary(i) PROVE ReviewInv'
<1> DEFINE p == pulls[i]
           o == [p EXCEPT !.included = ~@]
           a == IF p.included THEN R!NotAgreed ELSE R!Agreed(R!CommentFor(i), R!NoWords)
<1>1. R!Whole(i) /\ R!CommentFor(i) # R!NoWords /\ R!Pulls(i, o) /\ UNCHANGED <<writings, chosen>>
  BY DEF R!ToggleSummary
<1>2. WholeIs(i)
  BY ItemIs
<1>3. writings' \in 0..MaxWords /\ steps' \in 0..MaxSteps /\ R!NoWords \in R!Words
  BY <1>1, CountsKept, WordsApart DEF R!Whole
<1>4. o \in OfItem /\ o.comment = p.comment /\ o.included = ~p.included /\ o.verdict = p.verdict
  BY <1>2 DEF WholeIs, OfItem
<1>5. a \in Consent /\ a.yes = ~p.included /\ (a.yes => a.body = R!CommentFor(i))
  <2>1. p.included \in BOOLEAN /\ R!CommentFor(i) \in R!Words
    BY <1>2 DEF WholeIs, OfItem
  <2>2. CASE p.included
    <3>1. a = R!NotAgreed
      BY <2>2
    <3> HIDE DEF a
    <3> QED BY <2>2, <3>1, Consents
  <2>3. CASE ~p.included
    <3>1. a = R!Agreed(R!CommentFor(i), R!NoWords)
      BY <2>3
    <3> HIDE DEF a
    <3> QED BY <1>3, <2>1, <2>3, <3>1, Consents
  <2> QED BY <2>2, <2>3
<1>6. /\ pulls' = [pulls EXCEPT ![i] = o] /\ agreed' = [agreed EXCEPT ![<<i, "summary">>] = a]
      /\ chosen' = [chosen EXCEPT ![i] = chosen[i]]
      /\ UNCHANGED <<queue, draft, findings, own, reading, reverted>>
  BY <1>1, <1>2 DEF R!Whole, R!Pulls, R!Agree, R!Withdraw, WholeIs, R!ToggleSummary
<1> HIDE DEF o, a
<1>7. WholeFits(o, a, chosen[i])
  BY <1>1, <1>2, <1>4, <1>5 DEF WholeIs, WholeFits
<1> QED BY <1>2, <1>3, <1>4, <1>5, <1>6, <1>7, WholeKept DEF WholeIs

\* What changes nothing of what a comment says.
LEMMA SaysTheSame ==
  ASSUME R!Bounds, ReviewInv, NEW i \in R!Item, NEW o \in OfItem, NEW event \in R!Verdict \cup {"", "sent"},
         o.included = pulls[i].included, o.comment = pulls[i].comment, event # "sent" => o.verdict = event,
         pulls' = [pulls EXCEPT ![i] = o], chosen' = [chosen EXCEPT ![i] = event],
         UNCHANGED <<queue, draft, findings, own, reading, agreed, reverted, writings>>, steps' \in 0..MaxSteps
  PROVE  ReviewInv'
<1>1. WholeIs(i)
  BY ItemIs
<1>2. WholeFits(o, agreed[<<i, "summary">>], event)
  BY <1>1 DEF WholeIs, WholeFits
<1>3. agreed' = [agreed EXCEPT ![<<i, "summary">>] = agreed[<<i, "summary">>]]
  BY <1>1 DEF WholeIs
<1>4. writings' \in 0..MaxWords
  BY CountsKept
<1> QED BY <1>1, <1>2, <1>3, <1>4, WholeKept DEF WholeIs

LEMMA ChooseVerdictKeeps ==
  ASSUME R!Bounds, ReviewInv, NEW i \in R!Item, NEW event \in R!Verdict, R!ChooseVerdict(i, event)
  PROVE  ReviewInv'
<1> DEFINE o == [pulls[i] EXCEPT !.verdict = event]
<1>1. WholeIs(i)
  BY ItemIs
<1>2. /\ o \in OfItem /\ o.included = pulls[i].included /\ o.comment = pulls[i].comment /\ o.verdict = event
  BY <1>1 DEF WholeIs, OfItem
<1>3. /\ pulls' = [pulls EXCEPT ![i] = o] /\ chosen' = [chosen EXCEPT ![i] = event]
      /\ UNCHANGED <<queue, draft, findings, own, reading, agreed, reverted, writings>>
  BY DEF R!ChooseVerdict, R!Whole, R!Pulls
<1>4. steps' \in 0..MaxSteps
  BY CountsKept DEF R!ChooseVerdict, R!Whole
<1> HIDE DEF o
<1> QED BY <1>2, <1>3, <1>4, SaysTheSame

LEMMA ToggleLabelsKeeps == ASSUME R!Bounds, ReviewInv, NEW i \in R!Item, R!ToggleLabels(i) PROVE ReviewInv'
<1> DEFINE o == [pulls[i] EXCEPT !.labelsDropped = ~@]
<1>1. WholeIs(i)
  BY ItemIs
<1>2. /\ o \in OfItem /\ o.included = pulls[i].included /\ o.comment = pulls[i].comment
      /\ o.verdict = pulls[i].verdict
  BY <1>1 DEF WholeIs, OfItem
<1>3. /\ pulls' = [pulls EXCEPT ![i] = o] /\ chosen' = [chosen EXCEPT ![i] = chosen[i]]
      /\ UNCHANGED <<queue, draft, findings, own, reading, agreed, reverted, writings>>
  BY <1>1 DEF R!ToggleLabels, R!Whole, R!Pulls, WholeIs
<1>4. steps' \in 0..MaxSteps
  BY CountsKept DEF R!ToggleLabels, R!Whole
<1>5. chosen[i] # "sent" => o.verdict = chosen[i]
  BY <1>1, <1>2 DEF WholeIs, WholeFits
<1> HIDE DEF o
<1> QED BY <1>1, <1>2, <1>3, <1>4, <1>5, SaysTheSame DEF WholeIs

LEMMA ToggleCloseKeeps == ASSUME R!Bounds, ReviewInv, NEW i \in R!Item, R!ToggleClose(i) PROVE ReviewInv'
<1> DEFINE o == [pulls[i] EXCEPT !.closeDropped = ~@]
<1>1. WholeIs(i)
  BY ItemIs
<1>2. /\ o \in OfItem /\ o.included = pulls[i].included /\ o.comment = pulls[i].comment
      /\ o.verdict = pulls[i].verdict
  BY <1>1 DEF WholeIs, OfItem
<1>3. /\ pulls' = [pulls EXCEPT ![i] = o] /\ chosen' = [chosen EXCEPT ![i] = chosen[i]]
      /\ UNCHANGED <<queue, draft, findings, own, reading, agreed, reverted, writings>>
  BY <1>1 DEF R!ToggleClose, R!Whole, R!Pulls, WholeIs
<1>4. steps' \in 0..MaxSteps
  BY CountsKept DEF R!ToggleClose, R!Whole
<1>5. chosen[i] # "sent" => o.verdict = chosen[i]
  BY <1>1, <1>2 DEF WholeIs, WholeFits
<1> HIDE DEF o
<1> QED BY <1>1, <1>2, <1>3, <1>4, <1>5, SaysTheSame DEF WholeIs

LEMMA AskAgainKeeps == ASSUME R!Bounds, ReviewInv, NEW i \in R!Item, R!AskAgain(i) PROVE ReviewInv'
<1> DEFINE o == [pulls[i] EXCEPT !.posted = FALSE]
<1>1. WholeIs(i)
  BY ItemIs
<1>2. /\ o \in OfItem /\ o.included = pulls[i].included /\ o.comment = pulls[i].comment
      /\ o.verdict = pulls[i].verdict
  BY <1>1 DEF WholeIs, OfItem
<1>3. /\ pulls' = [pulls EXCEPT ![i] = o] /\ chosen' = [chosen EXCEPT ![i] = chosen[i]]
      /\ UNCHANGED <<queue, draft, findings, own, reading, agreed, reverted, writings>>
  BY <1>1 DEF R!AskAgain, R!Pulls, WholeIs, R!history
<1>4. steps' \in 0..MaxSteps
  BY CountsKept DEF R!AskAgain
<1>5. chosen[i] # "sent" => o.verdict = chosen[i]
  BY <1>1, <1>2 DEF WholeIs, WholeFits
<1> HIDE DEF o
<1> QED BY <1>1, <1>2, <1>3, <1>4, <1>5, SaysTheSame DEF WholeIs

LEMMA RecordKeeps ==
  ASSUME R!Bounds, ReviewInv, NEW i \in R!Item, NEW event \in R!Verdict \cup {""}, R!Record(i, event)
  PROVE  ReviewInv'
<1> DEFINE o == [pulls[i] EXCEPT !.posted = TRUE, !.verdict = event]
<1>1. WholeIs(i)
  BY ItemIs
<1>2. /\ o \in OfItem /\ o.included = pulls[i].included /\ o.comment = pulls[i].comment
  BY <1>1 DEF WholeIs, OfItem
<1>3. /\ pulls' = [pulls EXCEPT ![i] = o] /\ chosen' = [chosen EXCEPT ![i] = "sent"]
      /\ UNCHANGED <<queue, draft, findings, own, reading, agreed, reverted, writings>>
  BY DEF R!Record, R!Pulls
<1>4. steps' \in 0..MaxSteps
  BY DEF R!Record, ReviewInv, ReviewTypes
<1> HIDE DEF o
<1> QED BY <1>2, <1>3, <1>4, SaysTheSame

LEMMA SetReadingKeeps == ASSUME R!Bounds, ReviewInv, R!SetReading PROVE ReviewInv'
<1>1. /\ R!Decide /\ reading' \in [prefix : BOOLEAN, stripped : SUBSET Label]
      /\ UNCHANGED <<queue, draft, pulls, findings, own, writings, R!history>>
  BY DEF R!SetReading
<1>2. ReviewTypes'
  BY <1>1, CountsKept DEF R!history, ReviewInv, ReviewTypes, R!Keys, R!Targets, R!Words, R!Null, OfItem,
     OfFinding, Consent, R!Item, R!Verdict
<1>3. Drafted' /\ WholeAgreed' /\ FindingsAgreed' /\ OwnAgreed'
  BY <1>1 DEF R!history, ReviewInv, Drafted, WholeAgreed, FindingsAgreed, OwnAgreed
<1> QED BY <1>2, <1>3 DEF ReviewInv

LEMMA RedraftKeeps == ASSUME R!Bounds, ReviewInv, NEW i \in R!Item, R!Redraft(i) PROVE ReviewInv'
<1>1. PICK file \in R!Files(i) : R!Parses(file) /\ draft' = [draft EXCEPT ![i] = R!Parsed(file, @.n + 1)]
  BY DEF R!Redraft
<1>2. /\ draft[i].n < MaxDrafts /\ R!Decide
      /\ UNCHANGED <<queue, pulls, findings, own, reading, writings, agreed, chosen, reverted>>
  BY DEF R!Redraft, R!log, R!history
<1>3. ReviewTypes'
  BY <1>2, CountsKept DEF ReviewInv, ReviewTypes, R!Keys, R!Targets, R!Words, R!Null, OfItem, OfFinding,
     Consent, R!Item, R!Verdict
<1>4. file.findings \in Seq(Finding) /\ (i \in Issue => file.findings = <<>>)
  <2>1. CASE i \in Pulled
    <3>1. file.findings \in R!BoundedSeq(Finding, 2)
      BY <1>1, <2>1 DEF R!Files, R!PullFiles
    <3>2. PICK n \in 0..2 : file.findings \in [1..n -> Finding]
      <4> DEFINE list == file.findings
      <4>1. list \in UNION {[1..n -> Finding] : n \in 0..2}
        BY <3>1 DEF R!BoundedSeq, R!SeqOf
      <4> HIDE DEF list
      <4>2. \E n \in 0..2 : list \in [1..n -> Finding]
        BY <4>1
      <4> QED BY <4>2 DEF list
    <3>3. i \notin Issue
      BY <2>1 DEF R!Bounds
    <3>4. file.findings \in Seq(Finding)
      <4> DEFINE list == file.findings
      <4>1. n \in Nat /\ list \in [1..n -> Finding]
        BY <3>2
      <4> HIDE DEF list
      <4>2. list \in Seq(Finding)
        BY <4>1
      <4> QED BY <4>2 DEF list
    <3> QED BY <3>3, <3>4
  <2>2. CASE i \notin Pulled
    <3>1. file \in R!IssueFiles
      BY <1>1, <2>2 DEF R!Files
    <3>2. file.findings \in {<<>>}
      <4> DEFINE none == {<<>>}
      <4>1. none = {<<>>}
        OBVIOUS
      <4> HIDE DEF none
      <4>2. R!IssueFiles = [verdict : {""}, comment : BOOLEAN, findings : none, add : SUBSET Label,
                          remove : SUBSET Label, close : {"none", "duplicate", "duplicateOfNothing"}]
        BY <4>1, Zenon DEF R!IssueFiles
      <4>3. file.findings \in none
        BY <3>1, <4>2
      <4> QED BY <4>1, <4>3
    <3>3. file.findings = <<>>
      BY <3>2, Zenon
    <3>4. <<>> \in Seq(Finding)
      OBVIOUS
    <3> QED BY <3>3, <3>4, Zenon
  <2> QED BY <2>1, <2>2
<1>5. Drafted'
  <2>1. DOMAIN draft' = R!Item
    BY <1>1 DEF ReviewInv, Drafted
  <2> SUFFICES ASSUME NEW j \in R!Item
               PROVE  /\ draft'[j].n \in 1..MaxDrafts /\ R!Parses(draft'[j].file)
                      /\ draft'[j].file.findings \in Seq(Finding)
                      /\ j \in Issue => draft'[j].file.findings = <<>>
    BY <2>1 DEF Drafted
  <2>2. CASE j = i
    <3>1. draft'[i] = R!Parsed(file, draft[i].n + 1)
      BY <1>1 DEF ReviewInv, Drafted
    <3>2. draft[i].n + 1 \in 1..MaxDrafts
      BY <1>2, WordsApart DEF ReviewInv, Drafted
    <3> QED BY <1>1, <1>4, <2>2, <3>1, <3>2 DEF R!Parsed
  <2>3. CASE j # i
    <3>1. draft'[j] = draft[j]
      BY <1>1, <2>3 DEF ReviewInv, Drafted
    <3> QED BY <3>1 DEF ReviewInv, Drafted
  <2> QED BY <2>2, <2>3
<1>6. WholeAgreed' /\ FindingsAgreed' /\ OwnAgreed'
  BY <1>2 DEF ReviewInv, WholeAgreed, FindingsAgreed, OwnAgreed
<1> QED BY <1>3, <1>5, <1>6 DEF ReviewInv

\* The verdict that is sent.
LEMMA VerdictIs ==
  ASSUME R!Bounds, ReviewInv, NEW i \in Pulled
  PROVE  R!VerdictFor(i) \in R!Verdict /\ R!EventAgreed(i, R!VerdictFor(i))
<1>1. i \in R!Item
  BY DEF R!Item
<1>2. /\ pulls[i].verdict \in R!Verdict \cup {""} /\ (chosen[i] # "sent" => pulls[i].verdict = chosen[i])
      /\ chosen[i] \in R!Verdict \cup {"", "sent"}
  BY <1>1, ItemIs DEF WholeIs, OfItem, WholeFits
<1>3. draft[i].file.verdict \in R!Verdict \cup {""}
  BY <1>1 DEF ReviewInv, Drafted, R!Parses
<1>4. "COMMENT" \in R!Verdict /\ "" \notin R!Verdict /\ "sent" \notin R!Verdict
  BY DEF R!Verdict
<1>5. R!VerdictFor(i) \in R!Verdict
  BY <1>2, <1>3, <1>4 DEF R!VerdictFor
<1>6. R!EventAgreed(i, R!VerdictFor(i))
  BY <1>2, <1>3, <1>4 DEF R!VerdictFor, R!EventAgreed
<1> QED BY <1>5, <1>6

LEMMA ReviewStep == ASSUME R!Bounds, ReviewInv, R!Next PROVE ReviewInv'
<1>1. ASSUME NEW i \in R!Item, NEW f \in Finding \cup Remark,
             \/ R!Toggle(i, f) \/ R!EditFinding(i, f) \/ R!ResetFinding(i, f) \/ R!EditSuggestion(i, f)
             \/ R!ResetSuggestion(i, f) \/ R!AddFinding(i, f) \/ R!RemoveFinding(i, f) \/ R!PostFinding(i, f)
      PROVE  ReviewInv'
  BY <1>1, ToggleKeeps, EditFindingKeeps, ResetFindingKeeps, EditSuggestionKeeps, ResetSuggestionKeeps,
     AddFindingKeeps, RemoveFindingKeeps, PostFindingKeeps
<1>2. ASSUME NEW i \in R!Item, R!EditComment(i) \/ R!ToggleSummary(i) \/ R!ToggleLabels(i) \/ R!ToggleClose(i)
      PROVE  ReviewInv'
  BY <1>2, EditCommentKeeps, ToggleSummaryKeeps, ToggleLabelsKeeps, ToggleCloseKeeps
<1>3. ASSUME NEW i \in R!Item, NEW event \in R!Verdict, R!ChooseVerdict(i, event) PROVE ReviewInv'
  BY <1>3, ChooseVerdictKeeps
<1>4. ASSUME NEW i \in R!Item, R!PostReview(i) PROVE ReviewInv'
  <2>1. i \in Pulled /\ R!Record(i, R!VerdictFor(i))
    BY <1>4 DEF R!PostReview
  <2>2. R!VerdictFor(i) \in R!Verdict \cup {""}
    BY <2>1, VerdictIs
  <2> QED BY <2>1, <2>2, RecordKeeps
<1>5. ASSUME NEW i \in R!Item, R!PostTriage(i) PROVE ReviewInv'
  <2>1. R!Record(i, "")
    BY <1>5 DEF R!PostTriage
  <2> QED BY <2>1, RecordKeeps
<1>6. ASSUME NEW i \in R!Item, R!AskAgain(i) \/ R!Redraft(i) PROVE ReviewInv'
  BY <1>6, AskAgainKeeps, RedraftKeeps
<1>7. ASSUME R!SetReading PROVE ReviewInv'
  BY <1>7, SetReadingKeeps
<1> QED BY <1>1, <1>2, <1>3, <1>4, <1>5, <1>6, <1>7 DEF R!Next

LEMMA ReviewStutter == ASSUME ReviewInv, UNCHANGED R!vars PROVE ReviewInv'
BY DEF R!vars, R!log, R!history, ReviewInv, ReviewTypes, R!Keys, R!Targets, R!Words, R!Null, OfItem, OfFinding,
   Consent, R!Item, R!Verdict,
   Drafted, WholeAgreed, FindingsAgreed, OwnAgreed

LEMMA ReviewMeans == ASSUME R!Bounds, ReviewInv PROVE R!TypeOK
<1>1. DOMAIN pulls = R!Item /\ DOMAIN findings = R!Keys
  BY DEF ReviewInv, ReviewTypes
<1>2. \A i \in R!Item : R!Parses(draft[i].file) /\ draft[i].n \in 1..MaxDrafts
  BY DEF ReviewInv, Drafted
<1> QED BY <1>1, <1>2 DEF ReviewInv, ReviewTypes, R!TypeOK

-----------------------------------------------------------------------------
\* The comments of a request: the findings that were agreed to, each once.
LEMMA PostedOnce ==
  ASSUME R!Bounds, ReviewInv, NEW i \in R!Item
  PROVE  LET list == R!FindingsToPost(i)
             shown == ShownTo(i)
             yes == {n \in DOMAIN shown : R!Merged(i, shown[n]).included /\ ~R!Merged(i, shown[n]).posted}
         IN  /\ Len(list) \in Nat /\ DOMAIN list = 1..Len(list)
             /\ \A k \in DOMAIN list : \E n \in yes : list[k] = R!Merged(i, shown[n])
             /\ \A n \in yes : \E k \in DOMAIN list : list[k] = R!Merged(i, shown[n])
             /\ \A j, k \in DOMAIN list : j # k => list[j].id # list[k].id
<1> DEFINE list == R!FindingsToPost(i)
           all == R!FindingsForPull(i)
           shown == ShownTo(i)
           yes == {n \in DOMAIN shown : R!Merged(i, shown[n]).included /\ ~R!Merged(i, shown[n]).posted}
           c == Cardinality(yes)
<1>1. /\ shown \in Seq(Finding \cup Remark) /\ all = [n \in DOMAIN shown |-> R!Merged(i, shown[n])]
      /\ \A m, n \in DOMAIN shown : shown[m] = shown[n] => m = n
  BY ShownOnce
<1>2. DOMAIN shown = 1..Len(shown) /\ Len(shown) \in Nat
  BY <1>1
<1>3. yes = {n \in DOMAIN all : all[n].included /\ ~all[n].posted}
  BY <1>1
<1>4. list = R!Picked(all, yes)
  BY <1>3 DEF R!FindingsToPost
<1>5. yes \in SUBSET (1..Len(shown))
  BY <1>2
<1>6. \A n \in yes : n \in DOMAIN shown /\ all[n] = R!Merged(i, shown[n])
  BY <1>1
<1> HIDE DEF list, all, yes, shown
<1>7. /\ DOMAIN list = 1..c /\ c \in Nat
      /\ \E place : Places(yes, place) /\ \A k \in 1..c : list[k] = all[place[k]]
  <2> DEFINE N == Len(shown)
  <2>1. N \in Nat /\ yes \in SUBSET (1..N)
    BY <1>2, <1>5
  <2> HIDE DEF N
  <2>2. /\ DOMAIN R!Picked(all, yes) = 1..Cardinality(yes) /\ Cardinality(yes) \in Nat
        /\ \E place : Places(yes, place) /\ \A k \in 1..Cardinality(yes) : R!Picked(all, yes)[k] = all[place[k]]
    BY <2>1, PickedIs, Zenon
  <2> QED BY <1>4, <2>2
<1>8. PICK place : Places(yes, place) /\ \A k \in 1..c : list[k] = all[place[k]]
  BY <1>7
<1> HIDE DEF c
<1>9. /\ place \in [1..c -> yes] /\ \A j, k \in 1..c : place[j] = place[k] => j = k
      /\ \A n \in yes : \E k \in 1..c : place[k] = n
  BY <1>8 DEF Places, c
<1>10. Len(list) = c
  <2>1. list = [k \in 1..c |-> all[place[k]]]
    BY <1>4, <1>7, <1>8 DEF R!Picked, c
  <2> QED BY <1>7, <2>1
<1>11. ASSUME NEW k \in 1..c
       PROVE  place[k] \in yes /\ list[k] = R!Merged(i, shown[place[k]]) /\ list[k].id = shown[place[k]]
  <2>1. place[k] \in yes /\ list[k] = R!Merged(i, shown[place[k]])
    BY <1>6, <1>8, <1>9
  <2> QED BY <2>1 DEF R!Merged
<1>12. ASSUME NEW j \in 1..c, NEW k \in 1..c, list[j].id = list[k].id PROVE j = k
  BY <1>1, <1>6, <1>9, <1>11, <1>12
<1>13. \A n \in yes : \E k \in 1..c : list[k] = R!Merged(i, shown[n])
  BY <1>9, <1>11
<1> QED BY <1>7, <1>10, <1>11, <1>12, <1>13 DEF list, yes, shown

\* A comment that is to be posted was agreed to, in the words it has.
LEMMA CommentAgreed ==
  ASSUME R!Bounds, ReviewInv, NEW i \in Pulled, NEW n \in DOMAIN ShownTo(i),
         R!Merged(i, ShownTo(i)[n]).included, ~R!Merged(i, ShownTo(i)[n]).posted
  PROVE  LET f == ShownTo(i)[n]
             c == R!BodyToPost(R!Merged(i, f))
             a == agreed[<<i, f>>]
         IN  \/ f \in reverted
             \/ /\ a.yes /\ c.body = R!Expected(a.body, draft[i].n) /\ c.fix = R!Expected(a.fix, draft[i].n)
                /\ c.led = (reading.prefix /\ c.body \in 1..MaxDrafts)
<1> DEFINE f == ShownTo(i)[n]
           m == R!Merged(i, f)
           o == findings[R!Key(i, f)]
           a == agreed[<<i, f>>]
           c == R!BodyToPost(m)
<1>1. f \in Finding \cup Remark /\ (f \in Remark => own[f] = i) /\ i \in R!Item
  BY ShownOnce DEF R!Item
<1>2. draft[i].n \in 1..MaxDrafts /\ Finding \cap Remark = {} /\ reading.prefix \in BOOLEAN
  BY <1>1 DEF ReviewInv, Drafted, ReviewTypes, R!Bounds
<1>3. R!NoWords \notin 1..MaxDrafts /\ R!Null \notin 1..MaxDrafts /\ R!NoWords # R!Null
  BY WordsApart
<1>4. c.id = f /\ c.body = m.body /\ c.fix = m.fix /\ c.led = R!Prefixed(m.body, m.edited \/ f \in Remark)
  BY DEF R!BodyToPost, R!Merged
<1>5. m.included = o.included /\ m.posted = o.posted /\ m.edited = o.edited
  BY DEF R!Merged
<1>6. CASE f \in Finding
  <2>1. R!Key(i, f) = <<i, f>> /\ f \notin Remark
    BY <1>2, <1>6, KeysApart
  <2>2. FindingFits(o, a)
    BY <1>6, <2>1 DEF ReviewInv, FindingsAgreed
  <2>3. /\ m.body = IF o.body = R!Null THEN draft[i].n ELSE o.body
        /\ m.fix = IF o.fix = R!Null THEN draft[i].n ELSE o.fix
    BY <2>1 DEF R!Merged
  <2>4. a.yes
    BY <1>5, <2>2 DEF FindingFits
  <2>5. m.body = R!Expected(a.body, draft[i].n) /\ m.fix = R!Expected(a.fix, draft[i].n)
    BY <2>2, <2>3, <2>4 DEF FindingFits, Stands, R!Expected
  <2>6. c.led = (reading.prefix /\ m.body \in 1..MaxDrafts)
    <3>1. o.edited = (o.body # R!Null) /\ o.body \notin 1..MaxDrafts
      BY <2>2 DEF FindingFits
    <3>2. CASE o.body = R!Null
      BY <1>2, <1>3, <1>4, <1>5, <2>1, <2>3, <3>1, <3>2 DEF R!Prefixed
    <3>3. CASE o.body # R!Null
      BY <1>2, <1>3, <1>4, <1>5, <2>1, <2>3, <3>1, <3>3 DEF R!Prefixed
    <3> QED BY <3>2, <3>3
  <2> QED BY <1>4, <2>4, <2>5, <2>6
<1>7. CASE f \in Remark /\ f \notin reverted
  <2>1. R!Key(i, f) = <<"own", f>> /\ own[f] = i
    <3>1. \A g : g \in Remark => R!Key(i, g) = <<"own", g>>
      BY KeysApart
    <3>2. f \in Remark
      BY <1>7
    <3> HIDE DEF f, m, o, a, c
    <3> QED BY <1>1, <3>1, <3>2
  <2>2. OwnFits(o, a, f \in reverted)
    BY <1>7, <2>1 DEF ReviewInv, OwnAgreed
  <2>3. /\ a.yes /\ a.body = o.body /\ a.fix = R!NoWords /\ o.fix = R!NoWords /\ o.body # R!Null
        /\ o.body \notin 1..MaxDrafts
    BY <1>5, <1>7, <2>2 DEF OwnFits
  <2>4. m.body = o.body /\ m.fix = R!NoWords
    BY <1>3, <2>3 DEF R!Merged
  <2>5. m.body = R!Expected(a.body, draft[i].n) /\ m.fix = R!Expected(a.fix, draft[i].n)
    BY <1>3, <2>3, <2>4 DEF R!Expected
  <2>6. c.led = (reading.prefix /\ m.body \in 1..MaxDrafts)
    BY <1>4, <1>7, <2>3, <2>4 DEF R!Prefixed
  <2> QED BY <1>4, <2>3, <2>5, <2>6
<1> QED BY <1>1, <1>6, <1>7

\* Yes is what has not been posted.
LEMMA YesIsToPost ==
  ASSUME R!Bounds, ReviewInv, NEW i \in Pulled, NEW n \in DOMAIN ShownTo(i)
  PROVE  agreed[<<i, ShownTo(i)[n]>>].yes =>
           R!Merged(i, ShownTo(i)[n]).included /\ ~R!Merged(i, ShownTo(i)[n]).posted
<1> DEFINE f == ShownTo(i)[n]
           o == findings[R!Key(i, f)]
<1>1. f \in Finding \cup Remark /\ (f \in Remark => own[f] = i)
  BY ShownOnce DEF R!Item
<1>2. CASE f \in Finding
  <2>1. R!Key(i, f) = <<i, f>>
    BY <1>2, KeysApart
  <2>2. FindingFits(o, agreed[<<i, f>>])
    BY <1>2, <2>1 DEF ReviewInv, FindingsAgreed
  <2> QED BY <2>2 DEF FindingFits, R!Merged
<1>3. CASE f \in Remark
  <2>1. R!Key(i, f) = <<"own", f>> /\ own[f] = i
    BY <1>1, <1>3, KeysApart
  <2>2. OwnFits(o, agreed[<<i, f>>], f \in reverted)
    BY <1>3, <2>1 DEF ReviewInv, OwnAgreed
  <2> QED BY <2>2 DEF OwnFits, R!Merged
<1> QED BY <1>1, <1>2, <1>3

\* A summary is sent as it was agreed to, and nobody else's words are led.
LEMMA SummaryAgreed ==
  ASSUME R!Bounds, ReviewInv, NEW i \in R!Item
  PROVE  LET a == agreed[<<i, "summary">>]
             now == IF draft[i].file.comment THEN draft[i].n ELSE R!NoWords
         IN  /\ R!CommentToPost(i) = IF a.yes THEN R!Expected(a.body, now) ELSE R!NoWords
             /\ R!Prefixed(R!CommentToPost(i), R!IsCommentEdited(i)) => ~R!Readers(R!CommentToPost(i))
             /\ R!Prefixed(R!CommentFor(i), R!IsCommentEdited(i)) => ~R!Readers(R!CommentFor(i))
<1> DEFINE p == pulls[i]
           a == agreed[<<i, "summary">>]
           now == IF draft[i].file.comment THEN draft[i].n ELSE R!NoWords
<1>1. WholeFits(p, a, chosen[i]) /\ draft[i].n \in 1..MaxDrafts
  BY ItemIs DEF WholeIs
<1>2. R!CommentFor(i) = IF p.comment # R!Null THEN p.comment ELSE now
  BY DEF R!CommentFor
<1>3. R!CommentToPost(i) = IF a.yes THEN R!CommentFor(i) ELSE R!NoWords
  BY <1>1 DEF R!CommentToPost, WholeFits
<1>4. a.yes => R!CommentFor(i) = R!Expected(a.body, now)
  BY <1>1, <1>2 DEF WholeFits, Stands, R!Expected
<1>5. ~R!IsCommentEdited(i) => ~R!Readers(R!CommentFor(i)) /\ ~R!Readers(R!NoWords)
  <2>1. now \in 0..MaxDrafts /\ R!NoWords \in 0..MaxDrafts /\ MaxDrafts \in Nat
    BY <1>1, WordsApart DEF R!NoWords
  <2> HIDE DEF now
  <2> QED BY <1>2, <2>1 DEF R!IsCommentEdited, R!Readers
<1> QED BY <1>3, <1>4, <1>5 DEF R!Prefixed
\* What a review carries is what was agreed to.
LEMMA ReviewAgreed ==
  ASSUME R!Bounds, ReviewInv, NEW i \in Pulled, R!PostReview(i)
  PROVE  R!SendsWhatWasAgreed
<1> DEFINE list == R!FindingsToPost(i)
           comments == [n \in DOMAIN list |-> R!BodyToPost(list[n])]
           shown == ShownTo(i)
           yes == {n \in DOMAIN shown : R!Merged(i, shown[n]).included /\ ~R!Merged(i, shown[n]).posted}
           summary == agreed[<<i, "summary">>]
           now == IF draft[i].file.comment THEN draft[i].n ELSE R!NoWords
<1>1. /\ request'.what = "review" /\ request'.to = i /\ request'.body = R!CommentToPost(i)
      /\ request'.comments = comments
      /\ request'.led = R!Prefixed(R!CommentToPost(i), R!IsCommentEdited(i)) /\ request'.event = R!VerdictFor(i)
  BY DEF R!PostReview, R!ReviewPayload, R!Request
<1>2. i \in R!Item
  BY DEF R!Item
<1>3. /\ \A k \in DOMAIN list : \E n \in yes : list[k] = R!Merged(i, shown[n])
      /\ \A n \in yes : \E k \in DOMAIN list : list[k] = R!Merged(i, shown[n])
      /\ \A j, k \in DOMAIN list : j # k => list[j].id # list[k].id
  BY <1>2, PostedOnce
<1>4. DOMAIN comments = DOMAIN list /\ \A k \in DOMAIN list : comments[k] = R!BodyToPost(list[k])
  OBVIOUS
<1> HIDE DEF list, comments, shown, yes
<1>5. R!CommentsAgreed(i, comments)
  <2>1. \A m, n \in DOMAIN comments : m # n => comments[m].id # comments[n].id
    BY <1>3, <1>4 DEF R!BodyToPost
  <2>2. ASSUME NEW k \in DOMAIN comments
        PROVE  LET c == comments[k]
                   a == agreed[<<i, c.id>>]
               IN  c.id \in reverted \/ (/\ a.yes
                                         /\ c.body = R!Expected(a.body, draft[i].n)
                                         /\ c.fix = R!Expected(a.fix, draft[i].n)
                                         /\ c.led = (reading.prefix /\ c.body \in 1..MaxDrafts))
    <3>1. PICK n \in yes : comments[k] = R!BodyToPost(R!Merged(i, shown[n]))
      BY <1>3, <1>4
    <3>2. /\ n \in DOMAIN ShownTo(i) /\ R!Merged(i, ShownTo(i)[n]).included
          /\ ~R!Merged(i, ShownTo(i)[n]).posted
          /\ comments[k] = R!BodyToPost(R!Merged(i, ShownTo(i)[n]))
      BY <3>1 DEF yes, shown
    <3>3. comments[k].id = ShownTo(i)[n]
      BY <3>2 DEF R!BodyToPost, R!Merged
    <3> QED BY <3>2, <3>3, CommentAgreed
  <2> QED BY <2>1, <2>2 DEF R!CommentsAgreed
<1>6. R!NothingForgotten(i, comments)
  <2>1. R!FindingsForPull(i) = [n \in DOMAIN shown |-> R!Merged(i, shown[n])]
    BY <1>2, ShownOnce DEF shown
  <2>2. DOMAIN R!FindingsForPull(i) = DOMAIN shown
    BY <2>1
  <2> SUFFICES ASSUME NEW n \in DOMAIN shown, agreed[<<i, R!FindingsForPull(i)[n].id>>].yes
               PROVE  \E m \in DOMAIN comments : comments[m].id = R!FindingsForPull(i)[n].id
    BY <2>2 DEF R!NothingForgotten
  <2>3. R!FindingsForPull(i)[n].id = shown[n]
    BY <2>1 DEF R!Merged
  <2>4. n \in yes
    BY <2>3, YesIsToPost DEF yes, shown
  <2>5. PICK k \in DOMAIN list : list[k] = R!Merged(i, shown[n])
    BY <1>3, <2>4
  <2>6. k \in DOMAIN comments /\ comments[k].id = shown[n]
    BY <1>4, <2>5 DEF R!BodyToPost, R!Merged
  <2> QED BY <2>3, <2>6
<1>7. /\ R!CommentToPost(i) = IF summary.yes THEN R!Expected(summary.body, now) ELSE R!NoWords
      /\ R!Prefixed(R!CommentToPost(i), R!IsCommentEdited(i)) => ~R!Readers(R!CommentToPost(i))
  BY <1>2, SummaryAgreed
<1>8. R!EventAgreed(i, R!VerdictFor(i))
  BY VerdictIs
<1> QED BY <1>1, <1>5, <1>6, <1>7, <1>8 DEF R!SendsWhatWasAgreed

LEMMA TriageAgreed ==
  ASSUME R!Bounds, ReviewInv, NEW i \in R!Item, R!PostTriage(i)
  PROVE  R!SendsWhatWasAgreed
<1> DEFINE labels == IF pulls[i].labelsDropped THEN [add |-> {}, remove |-> {}] ELSE R!LabelsToPost(i)
<1>1. labels.add \cap labels.remove = {}
  BY DEF R!LabelsToPost
<1>2. /\ request'.what = "triage" /\ request'.body = R!CommentFor(i) /\ request'.add = labels.add
      /\ request'.remove = labels.remove /\ request'.led = R!Prefixed(R!CommentFor(i), R!IsCommentEdited(i))
  BY DEF R!PostTriage, R!Triage, R!Request
<1>3. R!Prefixed(R!CommentFor(i), R!IsCommentEdited(i)) => ~R!Readers(R!CommentFor(i))
  BY SummaryAgreed
<1> HIDE DEF labels
<1> QED BY <1>1, <1>2, <1>3 DEF R!SendsWhatWasAgreed

\* Every other step is silent.
LEMMA SendsAgreed == ASSUME R!Bounds, ReviewInv, R!Next PROVE R!SendsWhatWasAgreed
<1>1. ASSUME R!Decide PROVE R!SendsWhatWasAgreed
  BY <1>1 DEF R!Decide, R!Silence, R!SendsWhatWasAgreed
<1>2. ASSUME NEW i \in R!Item, NEW f, R!Card(i, f) PROVE R!Decide
  BY <1>2 DEF R!Card
<1>3. ASSUME NEW i \in R!Item, NEW f \in Finding \cup Remark,
             \/ R!Toggle(i, f) \/ R!EditFinding(i, f) \/ R!ResetFinding(i, f) \/ R!EditSuggestion(i, f)
             \/ R!ResetSuggestion(i, f) \/ R!AddFinding(i, f) \/ R!RemoveFinding(i, f) \/ R!PostFinding(i, f)
      PROVE  R!Decide
  <2>1. CASE R!Toggle(i, f)
    BY <1>2, <2>1 DEF R!Toggle
  <2>2. CASE R!EditFinding(i, f)
    BY <1>2, <2>2 DEF R!EditFinding
  <2>3. CASE R!ResetFinding(i, f)
    BY <1>2, <2>3 DEF R!ResetFinding
  <2>4. CASE R!EditSuggestion(i, f)
    BY <1>2, <2>4 DEF R!EditSuggestion
  <2>5. CASE R!ResetSuggestion(i, f)
    BY <1>2, <2>5 DEF R!ResetSuggestion
  <2>6. CASE R!AddFinding(i, f)
    BY <2>6 DEF R!AddFinding
  <2>7. CASE R!RemoveFinding(i, f)
    BY <1>2, <2>7 DEF R!RemoveFinding
  <2>8. CASE R!PostFinding(i, f)
    BY <1>2, <2>8 DEF R!PostFinding
  <2> QED BY <1>3, <2>1, <2>2, <2>3, <2>4, <2>5, <2>6, <2>7, <2>8
<1>4. ASSUME NEW i \in R!Item, R!EditComment(i) \/ R!ToggleSummary(i) \/ R!ToggleLabels(i) \/ R!ToggleClose(i)
      PROVE  R!Decide
  BY <1>4 DEF R!EditComment, R!ToggleSummary, R!ToggleLabels, R!ToggleClose, R!Whole
<1>5. ASSUME NEW i \in R!Item, NEW event \in R!Verdict, R!ChooseVerdict(i, event) PROVE R!Decide
  BY <1>5 DEF R!ChooseVerdict, R!Whole
<1>6. ASSUME NEW i \in R!Item, R!AskAgain(i) \/ R!Redraft(i) PROVE R!Decide
  BY <1>6 DEF R!AskAgain, R!Redraft
<1>7. ASSUME R!SetReading PROVE R!Decide
  BY <1>7 DEF R!SetReading
<1>8. ASSUME NEW i \in R!Item, R!PostReview(i) PROVE R!SendsWhatWasAgreed
  <2>1. i \in Pulled
    BY <1>8 DEF R!PostReview
  <2> QED BY <1>8, <2>1, ReviewAgreed
<1>9. ASSUME NEW i \in R!Item, R!PostTriage(i) PROVE R!SendsWhatWasAgreed
  BY <1>9, TriageAgreed
<1> QED BY <1>1, <1>3, <1>4, <1>5, <1>6, <1>7, <1>8, <1>9 DEF R!Next

\* Whatever is decided, drafted again and sent in whatever order, a review
\* carries what its reader said yes to (domain/review.js, reviewPayload).
THEOREM ReviewsSayWhatWasAgreed == ASSUME R!Bounds PROVE R!Spec => []R!TypeOK /\ [][R!SendsWhatWasAgreed]_R!vars
<1>1. R!Init => ReviewInv
  BY ReviewInit
<1>2. ReviewInv /\ [R!Next]_R!vars => ReviewInv'
  BY ReviewStep, ReviewStutter
<1>3. ReviewInv => R!TypeOK
  BY ReviewMeans
<1>4. ReviewInv /\ [R!Next]_R!vars => [R!SendsWhatWasAgreed]_R!vars
  BY SendsAgreed
<1> QED BY <1>1, <1>2, <1>3, <1>4, PTL DEF R!Spec
===============================================================================
