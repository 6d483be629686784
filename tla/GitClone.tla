------------------------------- MODULE GitClone -------------------------------
(* A git source: one clone, the calls the app makes through it at once, and  *)
(* the remote the agent pushes to as well. On the desktop every command runs *)
(* alone; in a browser a write and a pull are awaited steps over one index   *)
(* and one working copy.                                                     *)
EXTENDS Naturals, FiniteSets

CONSTANTS
  Task,        \* adapter calls under way at once
  MaxCommits,  \* commits anyone makes, the agent's first among them
  MaxFaults    \* requests that fail, answers that are lost, pages that close

Bounds == MaxCommits \in Nat \ {0} /\ MaxFaults \in Nat

VARIABLES
  browser,  \* whether git is the one a page carries
  remote,   \* the branch on the host
  head,     \* the branch in the clone
  origin,   \* the host's branch as last fetched
  index, work,
  torn,     \* a merge moved the branch and no checkout has followed
  task,     \* the calls under way
  commits, faults,
  ended,    \* what was answered well (history)
  beaten,   \* a call failed though the network held, nothing conflicted and it was beaten once (history)
  crossed,  \* in a page's clone, a commit was made across a pull (history)
  cut       \* a page closed in the middle of a commit (history)

clone == <<head, origin, index, work, torn>>
history == <<ended, beaten, crossed, cut>>
vars == <<browser, remote, clone, task, commits, faults, history>>

Path == {"log", "draft"}     \* the log is this device's alone, the draft the agent's
Id == 0..MaxCommits

\* What a file holds: the commit that wrote or removed it, and what that one saw.
File == [by : Id, there : BOOLEAN, over : Id]
Branch == [tree : [Path -> File], has : SUBSET Id]

Op == {"none", "write", "remove", "poll"}
Step == {"idle", "place", "add", "commit", "push", "fetch", "merge", "checkout"}
Call == [op : Op, pc : Step, id : Id, again : BOOLEAN, hurt : BOOLEAN, moved : BOOLEAN, file : File]

Nothing == [by |-> 0, there |-> FALSE, over |-> 0]
First == [by |-> 1, there |-> TRUE, over |-> 0]
Idle == [op |-> "none", pc |-> "idle", id |-> 0, again |-> FALSE, hurt |-> FALSE, moved |-> FALSE, file |-> Nothing]

Init ==
  /\ browser \in BOOLEAN
  /\ remote = [tree |-> [p \in Path |-> IF p = "draft" THEN First ELSE Nothing], has |-> {0, 1}]
  /\ head = remote /\ origin = remote /\ index = remote.tree /\ work = remote.tree
  /\ torn = FALSE
  /\ task = [t \in Task |-> Idle]
  /\ commits = 1 /\ faults = 0
  /\ ended = {} /\ beaten = FALSE /\ crossed = FALSE /\ cut = FALSE

-----------------------------------------------------------------------------
(* Branches.                                                                 *)

Ahead(a, b) == b.has \subseteq a.has

Committed(branch, tree, id) ==
  [tree |-> tree, has |-> branch.has \cup {id} \cup {tree[p].by : p \in Path}]

Conflict(mine, theirs) == \E p \in Path :
  /\ mine.tree[p].by \notin theirs.has
  /\ theirs.tree[p].by \notin mine.has
  /\ mine.tree[p].there \/ theirs.tree[p].there

\* Mutant: the clone keeps its own files.
MineKept(mine, theirs) ==
  IF Ahead(mine, theirs) THEN mine ELSE [tree |-> mine.tree, has |-> mine.has \cup theirs.has \cup {commits + 1}]

Merged(mine, theirs) ==
  IF Ahead(mine, theirs) THEN mine
  ELSE IF Ahead(theirs, mine) THEN theirs
  ELSE [tree |-> [p \in Path |-> IF theirs.tree[p].by \in mine.has THEN mine.tree[p] ELSE theirs.tree[p]],
        has  |-> mine.has \cup theirs.has \cup {commits + 1}]

Parted(mine, theirs) == ~Ahead(mine, theirs) /\ ~Ahead(theirs, mine)

-----------------------------------------------------------------------------
(* Calls.                                                                    *)

Become(t, c) == task' = [task EXCEPT ![t] = c]
Go(t, pc) == Become(t, [task[t] EXCEPT !.pc = pc])
Where(c) == IF c.op = "write" THEN "log" ELSE "draft"

\* Two writes of the log at once are DeviceSync's matter.
Begin(t, op) ==
  /\ task[t].op = "none"
  /\ op = "poll" \/ \A u \in Task : task[u].op # op
  /\ op # "poll" => commits < MaxCommits
  /\ commits' = commits + (IF op = "poll" THEN 0 ELSE 1)
  /\ Become(t, [Idle EXCEPT !.op = op, !.pc = IF op = "poll" THEN "fetch" ELSE "place", !.id = commits'])
  /\ UNCHANGED <<browser, remote, clone, faults, history>>

\* The version a call replaces is the one that could be read.
Seen(p) == IF work[p].there THEN work[p].by ELSE head.tree[p].by
New(c) == [by |-> c.id, there |-> c.op = "write", over |-> Seen(Where(c))]

\* A path that was never in the tree is already gone.
AlreadyGone(c) == c.op = "remove" /\ ~head.tree["draft"].there /\ ~work["draft"].there

\* Desktop: the file is written or removed, staged and committed in one command.
CommitAlone(t) ==
  LET c == task[t]  p == Where(c) IN
  /\ ~browser /\ c.pc = "place"
  /\ IF AlreadyGone(c) THEN Become(t, Idle) /\ UNCHANGED clone
     ELSE /\ work' = [work EXCEPT ![p] = New(c)]
          /\ index' = [index EXCEPT ![p] = New(c)]
          /\ head' = Committed(head, [head.tree EXCEPT ![p] = New(c)], c.id)
          /\ Become(t, [c EXCEPT !.pc = "push", !.file = New(c)])
          /\ UNCHANGED <<origin, torn>>
  /\ UNCHANGED <<browser, remote, commits, faults, history>>

\* Browser: the working copy first, ...
Place(t) ==
  LET c == task[t]  p == Where(c) IN
  /\ browser /\ c.pc = "place"
  /\ IF AlreadyGone(c) THEN Become(t, Idle) /\ UNCHANGED work
     ELSE /\ work' = [work EXCEPT ![p] = New(c)]
          /\ Become(t, [c EXCEPT !.pc = IF c.op = "remove" /\ ~head.tree[p].there THEN "commit" ELSE "add",
                                 !.file = New(c)])
  /\ UNCHANGED <<browser, remote, head, origin, index, torn, commits, faults, history>>

\* ... then the index, from whatever the working copy holds by now, ...
Add(t) ==
  LET c == task[t]  p == Where(c) IN
  /\ c.pc = "add"
  /\ IF c.op = "write" /\ ~work[p].there THEN Become(t, Idle) /\ UNCHANGED index
     ELSE /\ index' = [index EXCEPT ![p] = IF c.op = "write" THEN work[p] ELSE c.file]
          /\ Go(t, "commit")
  /\ UNCHANGED <<browser, remote, head, origin, work, torn, commits, faults, history>>

\* ... and a commit of the whole index on top of the branch.
CommitIndex(t) ==
  /\ task[t].pc = "commit"
  /\ head' = Committed(head, index, task[t].id)
  /\ crossed' = (crossed \/ torn)
  /\ Go(t, "push")
  /\ UNCHANGED <<browser, remote, origin, index, work, torn, commits, faults, ended, beaten, cut>>

Succeed(t) ==
  /\ Become(t, Idle)
  /\ ended' = ended \cup {task[t].file}

\* The first refusal takes the host's work and offers again, the second is told.
Refused(t, hurt) ==
  LET c == task[t] IN
  /\ Become(t, IF c.again THEN Idle ELSE [c EXCEPT !.again = TRUE, !.pc = "fetch", !.hurt = c.hurt \/ hurt])
  /\ beaten' = (beaten \/ (c.again /\ ~c.hurt /\ ~hurt /\ ~c.moved))
  /\ UNCHANGED ended

Push(t) ==
  /\ task[t].pc = "push"
  /\ \/ Ahead(head, remote) /\ remote' = head /\ Succeed(t) /\ UNCHANGED beaten
     \/ ~Ahead(head, remote) /\ Refused(t, FALSE) /\ UNCHANGED remote
  /\ UNCHANGED <<browser, clone, commits, faults, crossed, cut>>

-----------------------------------------------------------------------------
(* Pulling, for a poll and for a push that was refused.                      *)

Give(t) ==     \* a pull that fails: a poll is best effort, a write is told
  /\ Become(t, Idle)

AfterPull(t) == IF task[t].op = "poll" THEN Become(t, Idle) ELSE Go(t, "push")

PullAlone(t) ==
  /\ ~browser /\ task[t].pc = "fetch"
  /\ origin' = remote
  /\ IF Conflict(head, remote) THEN Give(t) /\ UNCHANGED <<head, index, work, commits>>
     ELSE /\ Parted(head, remote) => commits < MaxCommits
          /\ commits' = commits + (IF Parted(head, remote) THEN 1 ELSE 0)
          /\ head' = Merged(head, remote) /\ index' = head'.tree /\ work' = head'.tree
          /\ Become(t, IF task[t].op = "poll" THEN Idle ELSE [task[t] EXCEPT !.pc = "push", !.moved = FALSE])
  /\ UNCHANGED <<browser, remote, torn, faults, history>>

\* Mutant: what was fetched before.
FetchedBefore == origin
Fetched == remote

Fetch(t) ==
  /\ browser /\ task[t].pc = "fetch"
  /\ origin' = Fetched
  /\ Become(t, [task[t] EXCEPT !.pc = "merge", !.moved = FALSE])
  /\ UNCHANGED <<browser, remote, head, index, work, torn, commits, faults, history>>

\* The branch moves, and neither the index nor the working copy with it.
Merge(t) ==
  /\ task[t].pc = "merge"
  /\ IF Conflict(head, origin) THEN Give(t) /\ UNCHANGED <<head, torn, commits>>
     ELSE /\ Parted(head, origin) => commits < MaxCommits
          /\ commits' = commits + (IF Parted(head, origin) THEN 1 ELSE 0)
          /\ head' = Merged(head, origin)
          /\ torn' = (torn \/ head' # head)
          /\ Go(t, "checkout")
  /\ UNCHANGED <<browser, remote, origin, index, work, faults, history>>

\* Forced: what is not committed is overwritten, but for a file git never knew.
CheckedOut(p) == IF head.tree[p].there \/ index[p].there THEN head.tree[p] ELSE work[p]

Committing(c) == c.pc \in {"add", "commit"}

Checkout(t) ==
  /\ task[t].pc = "checkout"
  /\ index' = head.tree
  /\ work' = [p \in Path |-> CheckedOut(p)]
  /\ torn' = FALSE
  /\ crossed' = (crossed \/ \E u \in Task : Committing(task[u]))
  /\ AfterPull(t)
  /\ UNCHANGED <<browser, remote, head, origin, commits, faults, ended, beaten, cut>>

-----------------------------------------------------------------------------
(* What goes wrong, and everyone else.                                       *)

Unreached(t) ==
  /\ task[t].pc \in {"push", "fetch"} /\ faults < MaxFaults
  /\ faults' = faults + 1
  /\ \/ task[t].pc = "push" /\ Refused(t, TRUE) /\ UNCHANGED remote
     \/ task[t].pc = "push" /\ Ahead(head, remote) /\ remote' = head /\ Refused(t, TRUE)
     \/ task[t].pc = "fetch" /\ Give(t) /\ UNCHANGED <<remote, ended, beaten>>
  /\ UNCHANGED <<browser, clone, commits, crossed, cut>>

\* The page goes away; the clone stays as it is, and is opened again as it is.
Close ==
  /\ faults < MaxFaults
  /\ faults' = faults + 1
  /\ cut' = (cut \/ \E t \in Task : Committing(task[t]))
  /\ task' = [t \in Task |-> Idle]
  /\ UNCHANGED <<browser, remote, clone, commits, ended, beaten, crossed>>

\* The agent writes its draft again, from a clone of its own.
Elsewhere ==
  /\ commits < MaxCommits
  /\ commits' = commits + 1
  /\ LET file == [by |-> commits + 1, there |-> TRUE, over |-> remote.tree["draft"].by]
     IN  remote' = Committed(remote, [remote.tree EXCEPT !["draft"] = file], commits + 1)
  /\ task' = [t \in Task |-> [task[t] EXCEPT !.moved = TRUE]]
  /\ UNCHANGED <<browser, clone, faults, history>>

Next ==
  \/ \E t \in Task :
       \/ \E op \in Op \ {"none"} : Begin(t, op)
       \/ CommitAlone(t) \/ Place(t) \/ Add(t) \/ CommitIndex(t) \/ Push(t)
       \/ PullAlone(t) \/ Fetch(t) \/ Merge(t) \/ Checkout(t) \/ Unreached(t)
  \/ Close \/ Elsewhere

Spec == Init /\ [][Next]_vars

-----------------------------------------------------------------------------
(* What must hold.                                                           *)

TypeOK ==
  /\ browser \in BOOLEAN /\ {remote, head, origin} \subseteq Branch
  /\ {index, work} \subseteq [Path -> File] /\ torn \in BOOLEAN
  /\ task \in [Task -> Call] /\ commits \in Id /\ faults \in 0..MaxFaults
  /\ ended \subseteq File /\ {beaten, crossed, cut} \subseteq BOOLEAN

\* A write or a removal that was answered well is on the host: what was
\* written, or something this device wrote later; and the draft that was
\* removed is not. In a page's clone this holds unless a commit and a pull
\* crossed (git.js write, remove and _send).
AnsweredMeansLanded ==
  ~crossed => \A f \in ended :
    IF f.there THEN remote.tree["log"].by >= f.by ELSE remote.tree["draft"].by # f.over

\* A push changes the draft on the host only by removing the very version the
\* reader cleared: the agent's newer one is merged, or conflicts, and is never
\* lost to a removal of the older (git.js, "refused rather than lost").
ReplacesWhatWasSeen ==
  ~crossed /\ remote.tree["draft"].there /\ remote'.tree["draft"] # remote.tree["draft"]
    => remote'.tree["draft"].over = remote.tree["draft"].by
OnlyWhatWasSeen == [][ReplacesWhatWasSeen]_vars

\* A send that was beaten once gets through: it only fails when the network
\* did, the two versions conflict, or it was beaten again (git.js _send).
BeatenOnceLands == ~beaten
===============================================================================
