------------------------------- MODULE Accounts -------------------------------
(* Who a review is posted as: the destinations, their tokens, and the one    *)
(* that is open. An opening sets out clean, then waits for the stored token  *)
(* and for the host to say whose it is; additions, corrections and removals  *)
(* end in an opening of their own, and all of them may overlap.              *)
EXTENDS Naturals

CONSTANTS
  Destination,
  Account,    \* accounts at the host, each with one token
  Call,       \* what the reader asked for and is under way
  MaxAsks, MaxFaults

Bounds ==
  /\ {MaxAsks, MaxFaults} \subseteq Nat
  /\ "none" \notin Destination /\ {"none", "bad"} \cap Account = {}

VARIABLES
  listed, gone,     \* the destinations there are, and those that were removed
  token,            \* what is kept beside the log: whose token each holds
  preference,       \* the destination to open at the next start
  destinationId, destination, login, problem,
  call, asks, faults,
  overlapped,       \* two openings ran at once since one last set out alone (history)
  failed,           \* a call ended before its last write (history)
  mixed,            \* a destination was removed under another call for it (history)
  orphaned          \* the open destination was removed when it had been refused (history)

memory == <<destinationId, destination, login, problem>>
bounds == <<asks, faults>>
history == <<overlapped, failed, mixed, orphaned>>
vars == <<listed, gone, token, preference, memory, call, bounds, history>>

None == "none"
Token == Account \cup {None, "bad"}    \* none of the host's: "bad"
Idle == [pc |-> "idle"]
NoBuilt == [of |-> None]

Typed == Token \ {None}
Starting == {[c \in Call |-> IF c = one THEN [pc |-> "boot"] ELSE Idle] : one \in Call}

Is(c, pc) == call[c].pc = pc
Becomes(c, to) == call' = [call EXCEPT ![c] = to]
Go(c, pc) == Becomes(c, [call[c] EXCEPT !.pc = pc])
Under(c) == {o \in Call \ {c} : call[o].pc \notin {"idle", "boot"}}
Opening(c) == {o \in Under(c) : call[o].pc \in {"secret", "identify"}}
Booting == \E c \in Call : call[c].pc = "boot" \/ (call[c].pc \in {"secret", "identify"} /\ call[c].first)

Init ==
  /\ listed \in SUBSET Destination /\ gone = {}
  /\ token \in {t \in [Destination -> Token] : \A d \in Destination : d \notin listed <=> t[d] = None}
  /\ preference \in IF listed = {} THEN {None} ELSE listed
  /\ destinationId = None /\ destination = NoBuilt /\ login = None /\ problem = FALSE
  /\ call \in Starting
  /\ asks = 0 /\ faults = 0
  /\ overlapped = FALSE /\ failed = FALSE /\ mixed = FALSE /\ orphaned = FALSE

-----------------------------------------------------------------------------
(* Opening one. All of them write the same four fields.                      *)

\* One that is named and gone is none; with none named it is the first there is.
Found(d) == IF d # None THEN {d} \cap listed ELSE listed

SetsOut(c, d) ==
  /\ \/ \E found \in Found(d) :
          /\ destinationId' = found /\ orphaned' = FALSE
          /\ Becomes(c, [pc |-> "secret", of |-> found, first |-> Is(c, "boot")])
     \/ Found(d) = {} /\ destinationId' = None /\ Becomes(c, Idle) /\ UNCHANGED orphaned
  /\ destination' = NoBuilt /\ login' = None /\ problem' = FALSE
  /\ overlapped' = (Opening(c) # {})

Boot(c) ==
  /\ Is(c, "boot")
  /\ SetsOut(c, preference)
  /\ UNCHANGED <<listed, gone, token, preference, bounds, failed, mixed>>

Prefer(c) ==
  /\ Is(c, "preference")
  /\ preference' = call[c].of
  /\ SetsOut(c, call[c].of)
  /\ UNCHANGED <<listed, gone, token, bounds, failed, mixed>>

Build(c) ==
  /\ Is(c, "secret")
  /\ LET built == [of |-> call[c].of, token |-> token[call[c].of]] IN
     /\ destination' = built
     /\ Becomes(c, [pc |-> "identify", of |-> built.of, token |-> built.token, first |-> call[c].first])
  /\ UNCHANGED <<listed, gone, token, preference, destinationId, login, problem, bounds, history>>

\* It is the one this call built that is asked who it is.
Identify(c) ==
  /\ Is(c, "identify") /\ call[c].token \in Account
  /\ login' = call[c].token
  /\ Becomes(c, Idle)
  /\ UNCHANGED <<listed, gone, token, preference, destinationId, destination, problem, bounds, history>>

\* A token that cannot be read or is not taken leaves nothing to post through.
Refused(c) ==
  /\ \/ Is(c, "identify") /\ call[c].token \notin Account /\ UNCHANGED faults
     \/ call[c].pc \in {"secret", "identify"} /\ faults < MaxFaults /\ faults' = faults + 1
  /\ problem' = TRUE /\ destination' = NoBuilt
  /\ Becomes(c, Idle)
  /\ UNCHANGED <<listed, gone, token, preference, destinationId, login, asks, history>>

-----------------------------------------------------------------------------
(* What the reader asks for.                                                 *)

Starts(c, to) ==
  /\ ~Booting /\ call[c].pc = "idle" /\ asks < MaxAsks
  /\ asks' = asks + 1
  /\ Becomes(c, to)

\* Remembered before it is opened.
Switch(c, d) ==
  /\ d \in listed
  /\ Starts(c, [pc |-> "preference", of |-> d])
  /\ UNCHANGED <<listed, gone, token, preference, memory, faults, history>>

\* Recorded at once and never tried: a token that is no good shows when it opens.
Add(c, d, t) ==
  /\ d \notin listed \cup gone
  /\ listed' = listed \cup {d}
  /\ Starts(c, [pc |-> "store", of |-> d, token |-> t])
  /\ UNCHANGED <<gone, token, preference, memory, faults, history>>

Store(c) ==
  /\ Is(c, "store")
  /\ token' = [token EXCEPT ![call[c].of] = call[c].token]
  /\ Becomes(c, [pc |-> "preference", of |-> call[c].of])
  /\ UNCHANGED <<listed, gone, preference, memory, bounds, history>>

\* Another token is tried before it is kept.
Edit(c, d, t) ==
  /\ d \in listed
  /\ Starts(c, [pc |-> "try", of |-> d, token |-> t])
  /\ UNCHANGED <<listed, gone, token, preference, memory, faults, history>>

Try(c) ==
  /\ Is(c, "try")
  /\ IF call[c].token \in Account THEN Becomes(c, [call[c] EXCEPT !.pc = "merge"]) ELSE Becomes(c, Idle)
  /\ UNCHANGED <<listed, gone, token, preference, memory, bounds, history>>

\* A correction of the open one opens it again.
\* Mutant: it is left as it is.
LeftAsIs(d) == FALSE
Reopens(d) == destinationId = d

Merge(c) ==
  /\ Is(c, "merge")
  /\ token' = [token EXCEPT ![call[c].of] = call[c].token]
  /\ IF Reopens(call[c].of) THEN SetsOut(c, call[c].of)
     ELSE Becomes(c, Idle) /\ UNCHANGED <<memory, overlapped, orphaned>>
  /\ UNCHANGED <<listed, gone, preference, bounds, failed, mixed>>

Rename(c, d) ==
  /\ d \in listed /\ Reopens(d)
  /\ ~Booting /\ call[c].pc = "idle" /\ asks < MaxAsks
  /\ asks' = asks + 1
  /\ SetsOut(c, d)
  /\ UNCHANGED <<listed, gone, token, preference, faults, failed, mixed>>

\* The open one is one that could be opened.
WasOpen(d) == destination # NoBuilt /\ destinationId = d

Remove(c, d) ==
  /\ d \in listed
  /\ listed' = listed \ {d} /\ gone' = gone \cup {d}
  /\ orphaned' = (orphaned \/ (destinationId = d /\ ~WasOpen(d)))
  /\ mixed' = (mixed \/ \E o \in Under(c) : call[o].of = d)
  /\ Starts(c, [pc |-> "forget", of |-> d, open |-> WasOpen(d)])
  /\ UNCHANGED <<token, preference, memory, faults, overlapped, failed>>

SignOut(c) == destination # NoBuilt /\ destinationId \in listed /\ Remove(c, destinationId)

Forget(c) ==
  /\ Is(c, "forget")
  /\ token' = [token EXCEPT ![call[c].of] = None]
  /\ \/ ~call[c].open /\ Becomes(c, Idle)
     \/ call[c].open /\ listed = {} /\ Becomes(c, [pc |-> "preference", of |-> None])
     \/ call[c].open /\ \E next \in listed : Becomes(c, [pc |-> "preference", of |-> next])
  /\ UNCHANGED <<listed, gone, preference, memory, bounds, history>>

\* A write or a trial that is refused ends the call where it is.
Fail(c) ==
  /\ faults < MaxFaults /\ faults' = faults + 1
  /\ call[c].pc \in {"preference", "store", "try", "merge", "forget"}
  /\ failed' = (failed \/ call[c].pc # "try")
  /\ Becomes(c, Idle)
  /\ UNCHANGED <<listed, gone, token, preference, memory, asks, overlapped, mixed, orphaned>>

Restart ==
  /\ faults < MaxFaults /\ faults' = faults + 1
  /\ failed' = (failed \/ \E c \in Call : call[c].pc \in {"preference", "store", "forget"})
  /\ destinationId' = None /\ destination' = NoBuilt /\ login' = None /\ problem' = FALSE
  /\ overlapped' = FALSE
  /\ call' \in Starting
  /\ UNCHANGED <<listed, gone, token, preference, asks, mixed, orphaned>>

Next ==
  \/ \E c \in Call :
       \/ Boot(c) \/ Prefer(c) \/ Build(c) \/ Identify(c) \/ Refused(c)
       \/ Store(c) \/ Try(c) \/ Merge(c) \/ Forget(c) \/ Fail(c) \/ SignOut(c)
       \/ \E d \in Destination :
            \/ Switch(c, d) \/ Rename(c, d) \/ Remove(c, d)
            \/ \E t \in Typed : Add(c, d, t) \/ Edit(c, d, t)
  \/ Restart

Spec == Init /\ [][Next]_vars

-----------------------------------------------------------------------------
(* What must hold.                                                           *)

AtRest == \A c \in Call : call[c].pc = "idle"

TypeOK ==
  /\ listed \subseteq Destination /\ gone \subseteq Destination \ listed
  /\ token \in [Destination -> Token] /\ preference \in Destination \cup {None}
  /\ destinationId \in Destination \cup {None} /\ login \in Account \cup {None}
  /\ asks \in 0..MaxAsks /\ faults \in 0..MaxFaults

\* What a review would be posted through is the destination that is marked as
\* open, and who it is posted as is who the panel says is signed in, unless two
\* openings overlapped (app.js _openDestination, header.js destinationRow).
PostsAsShown ==
  destination # NoBuilt =>
    \/ overlapped
    \/ destination.of = destinationId /\ login \in {None, destination.token}

\* At rest the open destination is one there is, with the token that is kept for
\* it; one that is refused says so and posts nothing; and with one to open, one
\* is: unless openings overlapped, a write failed, or one was removed under
\* another call or when it had been refused (app.js removeDestination).
OpenIsKept ==
  AtRest =>
    \/ overlapped \/ failed \/ mixed \/ orphaned
    \/ /\ IF listed = {} THEN destinationId = None ELSE destinationId \in listed
       /\ preference \in {destinationId, None}
       /\ IF destination = NoBuilt THEN login = None /\ (problem <=> destinationId # None)
          ELSE ~problem /\ login = destination.token /\ token[destinationId] = login

\* A token goes with its destination, unless its forgetting failed or another
\* call was writing it (commands/index.js removeDestination).
TokensForgotten ==
  \A d \in gone : token[d] = None \/ failed \/ mixed \/ \E c \in Call : Is(c, "forget") /\ call[c].of = d
===============================================================================
