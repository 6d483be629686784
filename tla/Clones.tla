-------------------------------- MODULE Clones --------------------------------
(* One folder git sources are read through: made by whichever reader opens   *)
(* such a source first, shared by every reader and source of that repository *)
(* and branch, and taken away with a source. In a page a clone is a chain of *)
(* awaited steps that a closed page or a second reader can cut; the desktop  *)
(* opens a repository in one command. What is in the clone is GitClone.      *)
EXTENDS Naturals, Sequences

CONSTANTS
  Source,   \* git sources whose url and branch name the folder, now or once corrected
  Reader,   \* adapters at once: the open one, those of a sweep, one that is tried
  MaxAsks, MaxOutages, MaxFaults

Bounds == {MaxAsks, MaxOutages, MaxFaults} \subseteq Nat

VARIABLES
  browser,
  source,    \* each source: tried, attached and naming the folder, being removed, or not (any more)
  disk,      \* the folder
  online,    \* whether the host answers
  reader,
  told,      \* the answer given in this step
  asks, outages, faults,
  cut,       \* the page closed on a clone being made, or another reader met it (history)
  taken,     \* it was forgotten under a source or reader that used it (history)
  left       \* it was only tried, was corrected away, or could not be forgotten (history)

bounds == <<asks, outages, faults>>
history == <<cut, taken, left>>
vars == <<browser, source, disk, online, reader, told, bounds, history>>

\* How far a folder is, which is how far the step of a clone that is named
\* beside it has got. "dir" holds no repository; "scraps" is what is left where
\* something is written into nothing.
Made == <<"made", "named", "fetched", "branched", "filled", "whole">>
Step == <<"init", "remote", "fetch", "ref", "files", "head">>
Stage == {"none", "dir", "scraps"} \cup {Made[n] : n \in DOMAIN Made}
Rank(stage) == IF \E n \in DOMAIN Made : Made[n] = stage THEN CHOOSE n \in DOMAIN Made : Made[n] = stage ELSE 0

\* Stray: the branch that is checked out has a commit and nothing of the host's.
Nowhere == [stage |-> "none", stray |-> FALSE]

Unused == [used |-> FALSE]
Built(s) == [used |-> TRUE, of |-> s, opened |-> FALSE, pc |-> "idle", what |-> "none"]
Silence == [what |-> "none"]

Init ==
  /\ browser \in BOOLEAN
  /\ source \in [Source -> {"new", "on"}]
  /\ disk = Nowhere /\ online = TRUE
  /\ reader = [r \in Reader |-> Unused] /\ told = Silence
  /\ asks = 0 /\ outages = 0 /\ faults = 0
  /\ cut = FALSE /\ taken = FALSE /\ left = FALSE

Is(r, pc) == reader[r].used /\ reader[r].pc = pc
Becomes(r, to) == reader' = [reader EXCEPT ![r] = to]
Go(r, pc) == Becomes(r, [reader[r] EXCEPT !.pc = pc])
Rests(r) == Becomes(r, [reader[r] EXCEPT !.pc = "idle", !.what = "none"])
Used == {r \in Reader : reader[r].used}
Making == {r \in Used : \E n \in DOMAIN Step : reader[r].pc = Step[n]}
Tried == {r \in Used : source[reader[r].of] = "new"}
Names == {s \in Source : source[s] \in {"on", "leaving"}}

-----------------------------------------------------------------------------
(* Readers. Any number are built for one source: to read it, to look at its  *)
(* health, to try its configuration before it is saved.                      *)

Begins(what) == IF what = "poll" THEN "pull" ELSE "work"

\* Every call opens first, once for the reader.
Ask(r, s, what) ==
  LET now == IF reader[r].used THEN reader[r] ELSE Built(s) IN
  /\ asks < MaxAsks /\ (reader[r].used \/ source[s] # "gone")
  /\ now.of = s /\ now.pc = "idle"
  /\ asks' = asks + 1
  /\ Becomes(r, [now EXCEPT !.what = what,
                 !.pc = IF now.opened THEN Begins(what) ELSE IF browser THEN "look" ELSE "root"])
  /\ taken' = (taken \/ source[s] \in {"leaving", "gone"})
  /\ told' = Silence
  /\ UNCHANGED <<browser, source, disk, online, outages, faults, cut, left>>

Drop(r) ==
  /\ Is(r, "idle")
  /\ Becomes(r, Unused)
  /\ left' = (left \/ r \in Tried)
  /\ told' = Silence
  /\ UNCHANGED <<browser, source, disk, online, bounds, cut, taken>>

Opened(r) == Becomes(r, [reader[r] EXCEPT !.opened = TRUE, !.pc = Begins(reader[r].what)])

\* A failed opening is not remembered.
OpeningFails(r) == Rests(r)

-----------------------------------------------------------------------------
(* Opening in a page: isomorphic-git's clone, unless there is a .git.        *)

Look(r) ==
  /\ Is(r, "look")
  /\ IF disk.stage # "none" THEN Opened(r) ELSE Go(r, "init")
  /\ cut' = (cut \/ Making # {})
  /\ told' = Silence
  /\ UNCHANGED <<browser, source, disk, online, bounds, taken, left>>

\* A step takes what the ones before it made, wherever that is by now; only the
\* remote may not be there yet.
Can(n) ==
  LET have == Rank(disk.stage) IN
  /\ n = 2 => have < 2
  /\ n = 3 => online
  /\ n \in 3..5 => have >= n - 1

After(n, stage) ==
  CASE n = 6 /\ Rank(stage) = 0       -> "scraps"
    [] n = 6 /\ Rank(stage) \in 1..4  -> stage
    [] OTHER -> Made[IF Rank(stage) > n THEN Rank(stage) ELSE n]

CloneStep(r) == \E n \in DOMAIN Step :
  /\ Is(r, Step[n]) /\ Can(n)
  /\ disk' = [stage |-> After(n, disk.stage), stray |-> disk.stray /\ n < Len(Step)]
  /\ IF n = Len(Step) THEN Opened(r) ELSE Go(r, Step[n + 1])
  /\ told' = Silence
  /\ UNCHANGED <<browser, source, online, bounds, history>>

\* What was made of the clone goes with the failure.
\* Mutant: it stays.
Kept == disk
CleanedUp == Nowhere

CloneFails(r) == \E n \in DOMAIN Step :
  /\ Is(r, Step[n]) /\ ~Can(n)
  /\ disk' = CleanedUp
  /\ OpeningFails(r)
  /\ told' = Silence
  /\ UNCHANGED <<browser, source, online, bounds, history>>

-----------------------------------------------------------------------------
(* Opening on the desktop: git_root makes the folder, git_open a repository  *)
(* in it, and pulls.                                                         *)

GitRoot(r) ==
  /\ Is(r, "root")
  /\ disk' = IF disk.stage = "none" THEN [disk EXCEPT !.stage = "dir"] ELSE disk
  /\ Go(r, "open")
  /\ told' = Silence
  /\ UNCHANGED <<browser, source, online, bounds, history>>

\* The host's branch is taken whole where there is no commit, merged where
\* there is one; of a stray one there is nothing to merge with.
Takes(d) == online /\ ~d.stray

GitOpen(r) ==
  /\ Is(r, "open")
  /\ IF Takes(disk)
     THEN disk' = [disk EXCEPT !.stage = "whole"] /\ Opened(r)
     ELSE /\ disk' = IF disk.stage \in {"none", "dir"} THEN [disk EXCEPT !.stage = "made"] ELSE disk
          /\ OpeningFails(r)
  /\ told' = Silence
  /\ UNCHANGED <<browser, source, online, bounds, history>>

-----------------------------------------------------------------------------
(* Reading and writing through it.                                           *)

\* In a page only a branch there is can be merged into, which also puts what is
\* checked out right; on the desktop see Takes.
PulledInPage(d) ==
  CASE d.stage = "named" -> [d EXCEPT !.stage = "fetched"]
    [] d.stage \in {"branched", "filled"} -> [stage |-> "whole", stray |-> FALSE]
    [] OTHER -> d

Pulled(d) ==
  IF ~online THEN d
  ELSE IF browser THEN PulledInPage(d)
  ELSE IF d.stage = "made" /\ Takes(d) THEN [d EXCEPT !.stage = "whole"] ELSE d

\* A poll pulls, as well as it can, and lists.
Pull(r) ==
  /\ Is(r, "pull")
  /\ disk' = Pulled(disk)
  /\ Go(r, "work")
  /\ told' = Silence
  /\ UNCHANGED <<browser, source, online, bounds, history>>

Answers(r, right) ==
  /\ told' = [what |-> reader[r].what, right |-> right]
  /\ Rests(r)
  /\ UNCHANGED <<browser, source, online, bounds, history>>
Throws(r) ==
  /\ told' = Silence
  /\ Rests(r)
  /\ UNCHANGED <<browser, source, online, bounds, history>>

Doing(r, whats) == Is(r, "work") /\ reader[r].what \in whats

\* tree(): right is everything the host has. The desktop takes a folder with no
\* commit, for whatever reason, for a repository nobody has committed to.
List(r) ==
  /\ Doing(r, {"list", "poll"})
  /\ IF disk.stage = "whole" \/ disk.stray \/ (~browser /\ disk.stage \in {"dir", "made"})
     THEN Answers(r, disk.stage = "whole") ELSE Throws(r)
  /\ UNCHANGED disk

\* readFile(): out of the working copy, where what is not there is nothing.
Read(r) ==
  /\ Doing(r, {"read"})
  /\ IF browser \/ disk.stage # "none" THEN Answers(r, disk.stage \in {"filled", "whole"}) ELSE Throws(r)
  /\ UNCHANGED disk

\* commitFile() and the push. Right is that the host has it. The branch that is
\* pushed is the one configured, which need not be the one checked out.
Write(r) ==
  /\ Doing(r, {"write"})
  /\ disk' = CASE disk.stage = "none" /\ browser -> [disk EXCEPT !.stage = "scraps"]
               [] Rank(disk.stage) \in 1..5      -> [disk EXCEPT !.stray = TRUE]
               [] OTHER -> disk
  /\ IF online /\ (disk.stage = "whole" \/ (browser /\ disk.stage \in {"branched", "filled"}))
     THEN Answers(r, disk.stage = "whole") ELSE Throws(r)

-----------------------------------------------------------------------------
(* Sources: corrected, and removed with their clone.                         *)

\* A configuration is saved once a reader built from it answered.
Save(r) ==
  /\ Is(r, "idle") /\ reader[r].opened /\ r \in Tried /\ online
  /\ source' = [source EXCEPT ![reader[r].of] = "on"]
  /\ Becomes(r, Unused)
  /\ told' = Silence
  /\ UNCHANGED <<browser, disk, online, bounds, history>>

\* The folder of the configuration before stays.
Correct(s) ==
  /\ source[s] = "on"
  /\ source' = [source EXCEPT ![s] = "gone"]
  /\ left' = TRUE
  /\ told' = Silence
  /\ UNCHANGED <<browser, disk, online, reader, bounds, cut, taken>>

\* The transport is asked directly, so a source that does not open is forgotten too.
Forgotten == Nowhere

Forget(s) ==
  /\ source[s] = "on"
  /\ source' = [source EXCEPT ![s] = "leaving"]
  /\ disk' = Forgotten
  /\ taken' = (taken \/ Names # {s} \/ \E r \in Used : reader[r].of # s \/ reader[r].pc # "idle")
  /\ told' = Silence
  /\ UNCHANGED <<browser, online, reader, bounds, cut, left>>

\* Not clearing what is kept here does not stop a removal.
ForgetFails(s) ==
  /\ source[s] = "on" /\ faults < MaxFaults
  /\ faults' = faults + 1
  /\ source' = [source EXCEPT ![s] = "leaving"]
  /\ left' = TRUE
  /\ told' = Silence
  /\ UNCHANGED <<browser, disk, online, reader, asks, outages, cut, taken>>

Detach(s) ==
  /\ source[s] = "leaving"
  /\ source' = [source EXCEPT ![s] = "gone"]
  /\ told' = Silence
  /\ UNCHANGED <<browser, disk, online, reader, bounds, history>>

-----------------------------------------------------------------------------
(* The host, and the page.                                                   *)

StopOrStart ==
  /\ outages < MaxOutages
  /\ outages' = outages + 1 /\ online' = ~online
  /\ told' = Silence
  /\ UNCHANGED <<browser, source, disk, reader, asks, faults, history>>

\* A removal that was not recorded has not happened.
Close ==
  /\ faults < MaxFaults
  /\ faults' = faults + 1
  /\ cut' = (cut \/ Making # {})
  /\ left' = (left \/ Tried # {})
  /\ source' = [s \in Source |-> IF source[s] = "leaving" THEN "on" ELSE source[s]]
  /\ reader' = [r \in Reader |-> Unused]
  /\ told' = Silence
  /\ UNCHANGED <<browser, disk, online, asks, outages, taken>>

Next ==
  \/ \E r \in Reader :
       \/ \E s \in Source, what \in {"list", "poll", "read", "write"} : Ask(r, s, what)
       \/ Drop(r) \/ Look(r) \/ CloneStep(r) \/ CloneFails(r) \/ GitRoot(r) \/ GitOpen(r)
       \/ Pull(r) \/ List(r) \/ Read(r) \/ Write(r) \/ Save(r)
  \/ \E s \in Source : Correct(s) \/ Forget(s) \/ ForgetFails(s) \/ Detach(s)
  \/ StopOrStart \/ Close

Spec == Init /\ [][Next]_vars

-----------------------------------------------------------------------------
(* What must hold.                                                           *)

TypeOK ==
  /\ source \in [Source -> {"new", "on", "leaving", "gone"}]
  /\ disk.stage \in Stage /\ (disk.stray => Rank(disk.stage) \in 1..5) /\ (disk.stage = "dir" => ~browser)
  /\ asks \in 0..MaxAsks /\ outages \in 0..MaxOutages /\ faults \in 0..MaxFaults

\* What is answered through a clone is the repository's: a listing is of all of
\* it, a file that is there is read, and a write that is answered is on the
\* host, through failed openings, outages and any number of readers; unless the
\* clone was being made when the page closed or another reader came, or was
\* forgotten under somebody (git.js _open, git-isomorphic.js _clone, git.rs
\* git_open).
AnswersAreWhole == told.what # "none" => told.right \/ cut \/ taken

\* No copy of a repository outlives the sources it was made for: unless a
\* reader was at work on it when it was forgotten or after, its forgetting
\* failed, or it was of a configuration tried or corrected away (adapter.js
\* forget, "a delete that did not delete").
NothingLeftBehind == disk # Nowhere => Names # {} \/ Tried # {} \/ taken \/ left
===============================================================================
