------------------------------- MODULE Backends -------------------------------
(* The storages behind the adapter: how each answers a listing, a read, a    *)
(* write and a removal, in the requests it makes for it, while another       *)
(* writer uses the same storage and any answer may be lost. The git clone is *)
(* GitClone.                                                                 *)
EXTENDS Naturals, FiniteSetsExt

CONSTANTS
  Path,       \* numbers, in the order a listing gives them
  Seeded,     \* paths that hold something at first
  Large,      \* paths whose contents GitHub does not inline
  Task,       \* calls at once
  PageSize,   \* keys in a page of a bucket's listing
  TreeLimit,  \* files in a tree GitHub answers whole
  MaxWrites, MaxRemovals, MaxCalls, MaxFaults

Bounds ==
  /\ Path \subseteq Nat \ {0} /\ Seeded \cup Large \subseteq Path
  /\ {PageSize, TreeLimit} \subseteq Nat \ {0} /\ {MaxWrites, MaxRemovals, MaxCalls, MaxFaults} \subseteq Nat

VARIABLES
  kind,       \* the storage
  store,      \* by path, what is there; of the demo, what was put over its seed
  call,       \* by task, the call under way
  told,       \* the answer given in this step
  writes, removals, calls, faults

vars == <<kind, store, call, told, writes, removals, calls, faults>>
counts == <<writes, removals, calls>>

Kind == {"s3", "github", "folder", "shell", "demo", "memory"}
Alone == {"demo", "memory"}    \* storages of this page only

Nothing == 0
Hollow == 1                    \* a file made and not filled yet
Seed == 2
Fresh == writes + 3            \* the bytes written next
Unwritten == MaxWrites + 3     \* the demo's seed shows through

-----------------------------------------------------------------------------
(* What is there.                                                            *)

\* A removed sample stays removed: its tombstone hides the seed.
\* Mutant: the overlay forgets the path instead.
Forgotten == IF kind = "demo" THEN Unwritten ELSE Nothing
Tombstone == Nothing

At(p) == IF store[p] # Unwritten THEN store[p] ELSE IF p \in Seeded THEN Seed ELSE Nothing
View == [p \in Path |-> At(p)]
Named == {p \in Path : At(p) # Nothing}

\* No call, and one under way: how far it is, and all it may have seen.
Idle == [what |-> "none"]
Call(what, p, bytes) ==
  [what |-> what, path |-> p, bytes |-> bytes, phase |-> "first", saw |-> Nothing, at |-> 0, found |-> {}, was |-> {View}]
Busy(t) == call[t] # Idle
Doing(t, what, phase) == Busy(t) /\ call[t].what = what /\ call[t].phase = phase

Silence == [what |-> "none"]

Init ==
  /\ kind \in Kind
  /\ store = [p \in Path |-> IF kind = "demo" THEN Unwritten ELSE IF p \in Seeded THEN Seed ELSE Nothing]
  /\ call = [t \in Task |-> Idle] /\ told = Silence
  /\ writes = 0 /\ removals = 0 /\ calls = 0 /\ faults = 0

\* Each call under way watches the storage change.
Watched(c) == [t \in Task |-> IF c[t] = Idle THEN Idle ELSE [c[t] EXCEPT !.was = @ \cup {View'}]]

\* The call goes on, is answered, or is not.
Goes(t, new) == call' = Watched([call EXCEPT ![t] = new]) /\ told' = Silence
Answer(t, ok, found, bytes) ==
  /\ call' = Watched([call EXCEPT ![t] = Idle])
  /\ told' = [what |-> call[t].what, ok |-> ok, task |-> t, found |-> found, bytes |-> bytes]
Done(t) == Answer(t, TRUE, {}, Nothing)
Fails(t) == Answer(t, FALSE, {}, Nothing)

Puts(p, bytes) == store' = [store EXCEPT ![p] = bytes]

-----------------------------------------------------------------------------
(* Calls begin.                                                              *)

Begin(t, what, p, bytes) ==
  /\ ~Busy(t) /\ calls < MaxCalls /\ calls' = calls + 1
  /\ UNCHANGED <<kind, store, removals, faults>>
  /\ Goes(t, Call(what, p, bytes))

List(t) == Begin(t, "list", 0, Nothing) /\ UNCHANGED writes
Read(t, p) == Begin(t, "read", p, Nothing) /\ UNCHANGED writes
Remove(t, p) == Begin(t, "remove", p, Nothing) /\ UNCHANGED writes
Write(t, p) == writes < MaxWrites /\ Begin(t, "write", p, Fresh) /\ writes' = writes + 1

-----------------------------------------------------------------------------
(* Listings.                                                                 *)

Listing(t) == Doing(t, "list", "first") /\ UNCHANGED <<kind, store, counts, faults>>
After(t) == {p \in Named : p > call[t].at}

\* A bucket answers a page at a time, after the last key of the one before.
\* Mutant: as many keys further on as were found.
ByCount(t) == {p \in Named : Cardinality({q \in Named : q <= p}) > Cardinality(call[t].found)}
Continued(t) == After(t)

ListPage(t) ==
  LET rest == Continued(t)
      page == {p \in rest : Cardinality({q \in rest : q <= p}) <= PageSize}
      found == call[t].found \cup page
  IN  /\ kind = "s3" /\ Listing(t)
      /\ IF page = rest THEN Answer(t, TRUE, found, Nothing)
         ELSE Goes(t, [call[t] EXCEPT !.found = found, !.at = Max(page)])

\* One tree, which GitHub may cut off and say so.
ListTree(t) ==
  /\ kind = "github" /\ Listing(t)
  /\ IF Cardinality(Named) > TreeLimit THEN Fails(t) ELSE Answer(t, TRUE, Named, Nothing)

\* A walk, entry by entry: each is met, and then looked at.
Meet(t) ==
  /\ kind \in {"folder", "shell"} /\ Listing(t)
  /\ IF After(t) = {} THEN Answer(t, TRUE, call[t].found, Nothing)
     ELSE Goes(t, [call[t] EXCEPT !.at = Min(After(t)), !.phase = "look"])

\* What went in between is skipped by the shell and ends the page's walk.
LookAt(t) ==
  /\ Doing(t, "list", "look") /\ UNCHANGED <<kind, store, counts, faults>>
  /\ IF call[t].at \in Named
     THEN Goes(t, [call[t] EXCEPT !.found = @ \cup {call[t].at}, !.phase = "first"])
     ELSE IF kind = "shell" THEN Goes(t, [call[t] EXCEPT !.phase = "first"]) ELSE Fails(t)

ListAtOnce(t) == kind \in Alone /\ Listing(t) /\ Answer(t, TRUE, Named, Nothing)

-----------------------------------------------------------------------------
(* Reads.                                                                    *)

Wanted(t) == call[t].path
Reading(t, phase) == Doing(t, "read", phase) /\ UNCHANGED <<kind, store, counts, faults>>
Holds(t, bytes) == Answer(t, TRUE, {}, bytes)
Looks(t) == Goes(t, [call[t] EXCEPT !.saw = At(Wanted(t)), !.phase = "second"])

GetObject(t) == kind = "s3" /\ Reading(t, "first") /\ Holds(t, At(Wanted(t)))
Recall(t) == kind \in Alone /\ Reading(t, "first") /\ Holds(t, At(Wanted(t)))

\* GitHub hands over the id of a large one, which names its bytes for good.
GetContents(t) ==
  /\ kind = "github" /\ Reading(t, "first")
  /\ IF Wanted(t) \in Large /\ At(Wanted(t)) # Nothing THEN Looks(t) ELSE Holds(t, At(Wanted(t)))
GetBlob(t) == kind = "github" /\ Reading(t, "second") /\ Holds(t, call[t].saw)

\* A file is found and then read; one that went since is a failure.
Find(t) == Reading(t, "first") /\ IF At(Wanted(t)) = Nothing THEN Holds(t, Nothing) ELSE Looks(t)
Take(t) == Reading(t, "second") /\ IF At(Wanted(t)) = Nothing THEN Fails(t) ELSE Holds(t, At(Wanted(t)))

FindFile(t) == kind = "folder" /\ Find(t)
TakeFile(t) == kind = "folder" /\ Take(t)
ShellReads(t) == kind = "shell" /\ (Find(t) \/ Take(t))

-----------------------------------------------------------------------------
(* Writes and removals.                                                      *)

Changing(t, what, phase) == Doing(t, what, phase) /\ UNCHANGED <<kind, counts, faults>>
Lands(t) == Puts(Wanted(t), call[t].bytes) /\ Done(t)
Drops(t) == Puts(Wanted(t), Tombstone) /\ Done(t)

PutObject(t) == kind = "s3" /\ Changing(t, "write", "first") /\ Lands(t)
DeleteObject(t) == kind = "s3" /\ Changing(t, "remove", "first") /\ Drops(t)

\* Over a temporary file, in one rename.
Rename(t) == kind = "shell" /\ Changing(t, "write", "first") /\ Lands(t)
Unlink(t) == kind = "shell" /\ Changing(t, "remove", "first") /\ Drops(t)

Retain(t) == kind \in Alone /\ Changing(t, "write", "first") /\ Lands(t)
Discard(t) == kind \in Alone /\ Changing(t, "remove", "first") /\ Drops(t)

\* A page makes the file, empty, and then fills it. One removed under its
\* writer may come back or not, as the browser has it.
MakeFile(t) ==
  /\ kind = "folder" /\ Changing(t, "write", "first")
  /\ Puts(Wanted(t), IF At(Wanted(t)) = Nothing THEN Hollow ELSE store[Wanted(t)]) /\ Looks(t)
FillFile(t) ==
  /\ kind = "folder" /\ Changing(t, "write", "second")
  /\ Lands(t) \/ (At(Wanted(t)) = Nothing /\ UNCHANGED store /\ Fails(t))
RemoveEntry(t) == kind = "folder" /\ Changing(t, "remove", "first") /\ Drops(t)

\* GitHub is asked what is there, and refuses a version that is not there any
\* more; a path gone since is refused as one that changed is.
AskSha(t) ==
  /\ kind = "github" /\ UNCHANGED store
  /\ \/ Changing(t, "write", "first") /\ Looks(t)
     \/ Changing(t, "remove", "first") /\ IF At(Wanted(t)) = Nothing THEN Done(t) ELSE Looks(t)

\* Mutant: whatever is there is replaced.
Unchecked(t) == TRUE
Accepts(t) == At(Wanted(t)) = call[t].saw
Refused(t) == ~Accepts(t) /\ UNCHANGED store /\ Fails(t)

PutContents(t) == kind = "github" /\ Changing(t, "write", "second") /\ ((Accepts(t) /\ Lands(t)) \/ Refused(t))
DeleteContents(t) == kind = "github" /\ Changing(t, "remove", "second") /\ ((Accepts(t) /\ Drops(t)) \/ Refused(t))

-----------------------------------------------------------------------------
(* The other writer, and answers that do not come.                           *)

Others == kind \notin Alone /\ told' = Silence /\ call' = Watched(call) /\ UNCHANGED <<kind, calls, faults>>

AgentWrites(p) == writes < MaxWrites /\ writes' = writes + 1 /\ Puts(p, Fresh) /\ UNCHANGED removals /\ Others
AgentRemoves(p) ==
  /\ removals < MaxRemovals /\ removals' = removals + 1 /\ p \in Named
  /\ Puts(p, Nothing) /\ UNCHANGED writes /\ Others

\* A request that does not arrive, wherever the call is.
Unreachable(t) ==
  /\ Busy(t) /\ kind \notin Alone /\ faults < MaxFaults /\ faults' = faults + 1
  /\ UNCHANGED <<kind, store, counts>> /\ Fails(t)

\* Only the answer is lost: of what the last request of a write or a removal did.
LandsUnheard(t) ==
  /\ kind \in {"s3", "github"} /\ faults < MaxFaults /\ faults' = faults + 1
  /\ \E what \in {"write", "remove"} :
       /\ Doing(t, what, IF kind = "s3" THEN "first" ELSE "second")
       /\ Puts(Wanted(t), IF what = "write" THEN call[t].bytes ELSE Nothing)
  /\ kind = "github" => Accepts(t)
  /\ Fails(t) /\ UNCHANGED <<kind, counts>>

Next ==
  \/ \E t \in Task :
       \/ List(t) \/ ListPage(t) \/ ListTree(t) \/ Meet(t) \/ LookAt(t) \/ ListAtOnce(t)
       \/ GetObject(t) \/ Recall(t) \/ GetContents(t) \/ GetBlob(t) \/ FindFile(t) \/ TakeFile(t) \/ ShellReads(t)
       \/ PutObject(t) \/ Rename(t) \/ Retain(t) \/ MakeFile(t) \/ FillFile(t) \/ AskSha(t) \/ PutContents(t)
       \/ DeleteObject(t) \/ Unlink(t) \/ Discard(t) \/ RemoveEntry(t) \/ DeleteContents(t)
       \/ Unreachable(t) \/ LandsUnheard(t)
       \/ \E p \in Path : Read(t, p) \/ Write(t, p) \/ Remove(t, p)
  \/ \E p \in Path : AgentWrites(p) \/ AgentRemoves(p)

Spec == Init /\ [][Next]_vars

-----------------------------------------------------------------------------
(* What must hold.                                                           *)

Content == 0..(MaxWrites + 3)

TypeOK ==
  /\ kind \in Kind /\ store \in [Path -> Content] /\ (\E p \in Path : store[p] = Unwritten) => kind = "demo"
  /\ \A t \in Task : Busy(t) => /\ call[t].phase \in {"first", "look", "second"} /\ View \in call[t].was
                                /\ call[t].saw = Hollow => kind = "folder"
  /\ writes \in 0..MaxWrites /\ removals \in 0..MaxRemovals /\ calls \in 0..MaxCalls /\ faults \in 0..MaxFaults

\* A listing that answers names every path that was there all along and none
\* that never was (s3.js list, "a listing that stopped at the first would
\* quietly report the rest as deleted"; github.js list, "the one mistake a
\* watcher must never make"). A read answers what was there at one moment of it,
\* a write that is answered was there, a removed path was gone, and on GitHub
\* nothing is replaced or removed but what was looked at.
AnswersHold == told'.what # "none" =>
  LET c == call[told'.task]
      p == c.path
      was == c.was \cup {View'}
  IN  /\ told'.ok =>
           CASE c.what = "list" -> \A q \in Path :
                  /\ (\A v \in was : v[q] # Nothing) => q \in told'.found
                  /\ q \in told'.found => \E v \in was : v[q] # Nothing
             [] c.what = "read" -> /\ \E v \in was : v[p] = told'.bytes
                                   /\ told'.bytes = Hollow => kind = "folder"
             [] c.what = "write" -> \E v \in was : v[p] = c.bytes
             [] c.what = "remove" -> \E v \in was : v[p] = Nothing
      /\ kind = "github" /\ c.what \in {"write", "remove"} /\ View'[p] # View[p] => c.saw = View[p]
===============================================================================
