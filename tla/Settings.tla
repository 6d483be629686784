------------------------------- MODULE Settings -------------------------------
(* The settings panel: sources added, corrected and forgotten, each call a   *)
(* chain of awaits over the app's own log, the credentials kept apart from   *)
(* it, the open reader and a sweep of every source's health. Nothing keeps   *)
(* two calls from overlapping (web/src/app/header.js, app.js, commands,      *)
(* state/health.js).                                                         *)
EXTENDS Naturals, FiniteSets

CONSTANTS
  Source,     \* storages the reader may attach
  Call,       \* what the reader set going at once
  MaxAsks,    \* additions, corrections, removals and switches
  MaxFaults   \* credential writes that are refused

Bounds == "none" \notin Source /\ {MaxAsks, MaxFaults} \subseteq Nat

VARIABLES
  attached, gone,  \* the sources in the app's log, and those it forgot
  place,           \* by source, the storage it is configured for
  secret,          \* by source, the credential stored for it
  open, reader,    \* the source being read, and what its reader was built from
  health,          \* by source, what the last sweep found
  call,            \* what is under way
  sweeps, landed,  \* sweeps begun, and the youngest that ended
  asks, faults,
  unproven,        \* sources nobody tried as they are (history)
  failed,          \* sources a call changed and then failed over (history)
  outrun,          \* a sweep ended after a younger one (history)
  mixed            \* sources a sweep may have looked at through a reader that was not
                   \* theirs: it took them for open and another was opened, or was
                   \* being, by the look; all, once an opening met another (history)

stored == <<attached, gone, place, secret>>
reading == <<open, reader>>
history == <<unproven, failed, outrun, mixed>>
vars == <<stored, reading, health, call, sweeps, landed, asks, faults, history>>

\* A credential is two keys, each of one place's, or left out.
Place == {1, 2}
Key == {"accessKeyId", "secretAccessKey"}
Nothing == [k \in Key |-> 0]
Secret == [Key -> {0} \cup Place]
Typings == [Key -> {0, 1}] \cup [Key -> {0, 2}]

Works(p, s) == s = [k \in Key |-> p]
Found(r) == IF Works(r.place, r.secret) THEN "ok" ELSE "broken"
NoReader == [place |-> 0, secret |-> Nothing]
Stored(s) == [place |-> place[s], secret |-> secret[s]]

\* What is typed over what is stored: a box left empty leaves the key alone.
\* Once for the candidate (editSource), once for the store (mergeSecret).
\* Mutant: what was typed, alone.
TypedAlone(kept, typed) == typed
Candidate(kept, typed) == [k \in Key |-> IF typed[k] = 0 THEN kept[k] ELSE typed[k]]
Merged(kept, typed) == [k \in Key |-> IF typed[k] = 0 THEN kept[k] ELSE typed[k]]

Idle == [kind |-> "none", pc |-> "idle", of |-> "none", place |-> 0, typed |-> Nothing, seen |-> Nothing,
         wasOpen |-> FALSE, alone |-> TRUE, sweep |-> 0, got |-> [s \in Source |-> "skip"]]

Init ==
  /\ attached \in SUBSET Source /\ gone = {}
  /\ place = [s \in Source |-> 1]
  /\ secret = [s \in Source |-> IF s \in attached THEN [k \in Key |-> 1] ELSE Nothing]
  /\ open \in IF attached = {} THEN {"none"} ELSE attached
  /\ reader = IF open = "none" THEN NoReader ELSE Stored(open)
  /\ health = [s \in Source |-> IF s \in attached THEN "ok" ELSE "unknown"]
  /\ call = [c \in Call |-> Idle] /\ sweeps = 0 /\ landed = 0 /\ asks = 0 /\ faults = 0
  /\ unproven = {} /\ failed = {} /\ outrun = FALSE /\ mixed = {}

-----------------------------------------------------------------------------
(* Beginnings, ends, and the sweep every change is followed by.              *)

On(s) == {c \in Call : call[c].of = s /\ call[c].kind # "switch"}
Become(c, r) == call' = [call EXCEPT ![c] = r]
Go(c, pc) == Become(c, [call[c] EXCEPT !.pc = pc])

\* Another call on the same source is no longer alone either.
Begin(c, new) ==
  /\ call[c] = Idle /\ asks < MaxAsks /\ asks' = asks + 1
  /\ LET met == IF new.kind = "switch" THEN {} ELSE On(new.of)
     IN  /\ call' = [d \in Call |-> IF d = c THEN [new EXCEPT !.alone = met = {}]
                                    ELSE IF d \in met THEN [call[d] EXCEPT !.alone = FALSE] ELSE call[d]]
         /\ unproven' = IF met = {} THEN unproven ELSE unproven \cup {new.of}

Ended(c) == Become(c, Idle)

\* Every source there is as the sweep begins; which of them is open is asked then
\* too, before anything is awaited.
Sweeping(c) ==
  /\ sweeps' = sweeps + 1
  /\ Become(c, [call[c] EXCEPT !.pc = "probing", !.sweep = sweeps + 1,
                               !.got = [s \in Source |-> IF s \notin attached THEN "skip"
                                                        ELSE IF s = open THEN "open" ELSE "todo"]])

Opening(c) == call[c].pc = "building"
Meeting == IF \E c \in Call : Opening(c) THEN Source ELSE mixed
Building(c) ==
  Become(c, [call[c] EXCEPT !.pc = "building", !.seen = IF open' = "none" THEN Nothing ELSE secret'[open']])

\* A source that was open as the sweep began by the reader there is by now,
\* whatever source that is of; any other by one built for it.
Look(c, s) ==
  /\ call[c].pc = "probing" /\ call[c].got[s] \in {"todo", "open"}
  /\ LET byReader == call[c].got[s] = "open" /\ reader # NoReader
     IN  /\ Become(c, [call[c] EXCEPT !.got = [@ EXCEPT ![s] = Found(IF byReader THEN reader ELSE Stored(s))]])
         /\ mixed' = IF byReader /\ (open # s \/ \E d \in Call : Opening(d)) THEN mixed \cup {s} ELSE mixed
  /\ UNCHANGED <<stored, reading, health, sweeps, landed, asks, faults, unproven, failed, outrun>>

\* What every source was found to be replaces what was known.
Land(c) ==
  /\ call[c].pc = "probing" /\ \A s \in Source : call[c].got[s] \notin {"todo", "open"}
  /\ health' = [s \in Source |-> IF call[c].got[s] = "skip" THEN "unknown" ELSE call[c].got[s]]
  /\ outrun' = (call[c].sweep < landed)
  /\ landed' = IF call[c].sweep < landed THEN landed ELSE call[c].sweep
  /\ Ended(c)
  /\ UNCHANGED <<stored, reading, sweeps, asks, faults, unproven, failed, mixed>>

-----------------------------------------------------------------------------
(* Reading another source.                                                   *)

Switch(c, s) ==
  /\ s \in attached /\ open # s
  /\ Begin(c, [Idle EXCEPT !.kind = "switch", !.pc = "opening", !.of = s])
  /\ UNCHANGED <<stored, reading, health, sweeps, landed, faults, failed, outrun, mixed>>

\* The choice is kept, and the source is set before its reader is built.
\* A removal opens any that is left, or stays with the one open by now.
Open(c) ==
  /\ call[c].pc = "opening"
  /\ \E s \in IF call[c].of \in attached THEN {call[c].of} ELSE IF attached = {} THEN {"none"} ELSE attached :
       IF call[c].kind = "remove" /\ s = open /\ s # "none"
       THEN Sweeping(c) /\ UNCHANGED <<open, mixed>>
       ELSE /\ open' = s /\ UNCHANGED secret
            /\ Building(c)
            /\ mixed' = Meeting
            /\ UNCHANGED sweeps
  /\ UNCHANGED <<stored, reader, health, landed, asks, faults, unproven, failed, outrun>>

Build(c) ==
  /\ call[c].pc = "building"
  /\ reader' = IF open = "none" THEN NoReader ELSE [place |-> place[open], secret |-> call[c].seen]
  /\ IF call[c].kind = "switch" THEN Ended(c) /\ UNCHANGED sweeps ELSE Sweeping(c)
  /\ UNCHANGED <<stored, open, health, landed, asks, faults, history>>

-----------------------------------------------------------------------------
(* A new source: recorded, its credential stored, then read.                 *)

Add(c, s, p, typed) ==
  /\ s \notin attached \cup gone
  /\ attached' = attached \cup {s} /\ place' = [place EXCEPT ![s] = p]
  /\ Begin(c, [Idle EXCEPT !.kind = "add", !.pc = "storing", !.of = s, !.seen = typed])
  /\ UNCHANGED <<gone, secret, reading, health, sweeps, landed, faults, failed, outrun, mixed>>

\* A correction, also in the form a save brings back of a source forgotten
\* meanwhile: refused unless what is typed over what is stored works.
Edit(c, s, p, typed) ==
  /\ s \in attached \cup (gone \cap unproven) /\ (p # place[s] \/ typed # Nothing)
  /\ Begin(c, [Idle EXCEPT !.kind = "edit", !.pc = "reading", !.of = s, !.place = p, !.typed = typed])
  /\ UNCHANGED <<stored, reading, health, sweeps, landed, faults, failed, outrun, mixed>>

Read(c) ==
  /\ call[c].pc = "reading"
  /\ Become(c, [call[c] EXCEPT !.pc = "proving", !.seen = Candidate(secret[call[c].of], call[c].typed)])
  /\ UNCHANGED <<stored, reading, health, sweeps, landed, asks, faults, history>>

Refuse(c) ==
  /\ call[c].pc = "proving" /\ ~Works(call[c].place, call[c].seen)
  /\ Ended(c)
  /\ UNCHANGED <<stored, reading, health, sweeps, landed, asks, faults, history>>

\* An edit of what is being read builds its reader anew.
Reopens(s) == open = s

Changed(c) ==
  LET s == call[c].of
      sure == call[c].alone /\ s \in attached
  IN  /\ unproven' = IF sure THEN unproven \ {s} ELSE unproven
      /\ failed' = IF sure THEN failed \ {s} ELSE failed
      /\ IF Reopens(s)
         THEN /\ UNCHANGED <<open, sweeps>>
              /\ Building(c) /\ mixed' = Meeting
         ELSE Sweeping(c) /\ UNCHANGED <<open, mixed>>

\* The configuration is recorded; a credential that was typed is merged next.
Configure(c) ==
  /\ call[c].pc = "proving" /\ Works(call[c].place, call[c].seen)
  /\ place' = [place EXCEPT ![call[c].of] = call[c].place]
  /\ UNCHANGED secret
  /\ IF call[c].typed = Nothing THEN Changed(c)
     ELSE Go(c, "merging") /\ UNCHANGED <<open, sweeps, unproven, failed, mixed>>
  /\ UNCHANGED <<attached, gone, reader, health, landed, asks, faults, outrun>>

Merge(c) ==
  /\ call[c].pc = "merging"
  /\ Become(c, [call[c] EXCEPT !.pc = "storing", !.seen = Merged(secret[call[c].of], call[c].typed)])
  /\ UNCHANGED <<stored, reading, health, sweeps, landed, asks, faults, history>>

Store(c) ==
  /\ call[c].pc = "storing"
  /\ secret' = [secret EXCEPT ![call[c].of] = call[c].seen]
  /\ IF call[c].kind = "edit" THEN Changed(c)
     ELSE /\ Go(c, "opening")
          /\ unproven' = IF Works(place[call[c].of], call[c].seen) THEN unproven ELSE unproven \cup {call[c].of}
          /\ UNCHANGED <<open, sweeps, failed, mixed>>
  /\ UNCHANGED <<attached, gone, place, reader, health, landed, asks, faults, outrun>>

-----------------------------------------------------------------------------
(* A source forgotten: what this machine keeps of it, its record, its        *)
(* credential, its log.                                                      *)

Remove(c, s) ==
  /\ s \in attached
  /\ Begin(c, [Idle EXCEPT !.kind = "remove", !.pc = "forgetting", !.of = s, !.wasOpen = open = s])
  /\ UNCHANGED <<stored, reading, health, sweeps, landed, faults, failed, outrun, mixed>>

Delete(c) ==
  /\ call[c].pc = "forgetting"
  /\ attached' = attached \ {call[c].of} /\ gone' = gone \cup {call[c].of}
  /\ Go(c, "deleting")
  /\ UNCHANGED <<place, secret, reading, health, sweeps, landed, asks, faults, history>>

Forget(c) ==
  /\ call[c].pc = "deleting"
  /\ secret' = [secret EXCEPT ![call[c].of] = Nothing]
  /\ IF call[c].wasOpen THEN Go(c, "opening") /\ UNCHANGED sweeps ELSE Sweeping(c)
  /\ UNCHANGED <<attached, gone, place, reading, health, landed, asks, faults, history>>

\* The store refuses, and the call ends where it is.
Fail(c) ==
  /\ call[c].pc \in {"storing", "deleting"} /\ faults < MaxFaults
  /\ faults' = faults + 1 /\ failed' = failed \cup {call[c].of}
  /\ Ended(c)
  /\ UNCHANGED <<stored, reading, health, sweeps, landed, asks, unproven, outrun, mixed>>

Next ==
  \E c \in Call :
    \/ \E s \in Source : Switch(c, s) \/ Remove(c, s) \/ Look(c, s)
    \/ call[c] = Idle /\ asks < MaxAsks /\ \E s \in Source, p \in Place, typed \in Typings : Add(c, s, p, typed) \/ Edit(c, s, p, typed)
    \/ Open(c) \/ Build(c) \/ Read(c) \/ Refuse(c) \/ Configure(c) \/ Merge(c) \/ Store(c)
    \/ Delete(c) \/ Forget(c) \/ Fail(c) \/ Land(c)

Spec == Init /\ [][Next]_vars

-----------------------------------------------------------------------------
(* What must hold.                                                           *)

TypeOK ==
  /\ attached \cup gone \subseteq Source /\ attached \cap gone = {}
  /\ place \in [Source -> Place] /\ secret \in [Source -> Secret]
  /\ open \in Source \cup {"none"} /\ reader \in [place : {0} \cup Place, secret : Secret]
  /\ health \in [Source -> {"unknown", "ok", "broken"}]
  /\ \A c \in Call : call[c].pc \in {"idle", "opening", "building", "probing", "storing", "reading", "proving",
                                     "merging", "forgetting", "deleting"}
  /\ {sweeps, landed, asks} \subseteq 0..MaxAsks /\ faults \in 0..MaxFaults
  /\ unproven \cup failed \cup mixed \subseteq Source /\ outrun \in BOOLEAN

\* Whatever else was under way: a source nobody touched twice at once and whose
\* writes went through holds a storage and a credential that were shown to work
\* together, or is gone with its credential (app.js editSource, "Nothing is
\* saved until the new configuration has been shown to work"; removeSource).
SourceHoldsTogether ==
  \A s \in Source \ (unproven \cup failed) :
    On(s) = {} => /\ s \in attached => Works(place[s], secret[s])
                  /\ s \in gone => secret[s] = Nothing

\* With nothing under way, every row says how its source is (app.js
\* probeSources, "every moment the answer can have changed"), unless a sweep
\* ended after a younger one or a call failed halfway over it.  What a switch
\* during a sweep excuses is the row of the source that was open as the sweep
\* began, and no other's: a reader of another source may have answered for it,
\* and no sweep follows a switch.
HealthIsCurrent ==
  (\A c \in Call : call[c] = Idle) /\ ~outrun =>
    \A s \in attached \ (failed \cup mixed) : health[s] = Found(Stored(s))
===============================================================================
