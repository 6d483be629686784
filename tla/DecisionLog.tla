----------------------------- MODULE DecisionLog -----------------------------
(***************************************************************************)
(* What keeping one decision log per device promises, with the files, the  *)
(* timers and the marks abstracted away: a reader's decision is made once, *)
(* on one device; a device shows a decision made elsewhere only after that *)
(* decision was published to the source's storage; and a decision that     *)
(* reached a device's own database is back after every restart.            *)
(* DeviceSync is shown to implement this specification.                    *)
(***************************************************************************)

CONSTANTS Device,    \* the reader's browsers and apps on one source
          Decision,  \* everything a reader may decide
          Author     \* Author[e] is the device decision e is made on

VARIABLES decided,    \* the decisions made so far, on any device
          published,  \* the decisions that ever were in a file of the source
          held,       \* held[d]: what device d shows
          kept        \* kept[d]: what a restart of device d would bring back

vars == <<decided, published, held, kept>>

Init == /\ decided = {}
        /\ published = {}
        /\ held = [d \in Device |-> {}]
        /\ kept = [d \in Device |-> {}]

\* The reader decides something on device d.
Decide(d) ==
  \E e \in Decision \ decided :
     /\ Author[e] = d
     /\ decided' = decided \cup {e}
     /\ held' = [held EXCEPT ![d] = @ \cup {e}]
     /\ UNCHANGED <<published, kept>>

\* Device d writes some of what it holds to the source.
Publish(d) ==
  \E S \in SUBSET (held[d] \ published) :
     /\ published' = published \cup S
     /\ UNCHANGED <<decided, held, kept>>

\* Device d takes in published decisions, keeps some of what it holds, or both.
Advance(d) ==
  \E S \in SUBSET (published \ held[d]), K \in SUBSET (held[d] \ kept[d]) :
     /\ held' = [held EXCEPT ![d] = @ \cup S]
     /\ kept' = [kept EXCEPT ![d] = @ \cup K]
     /\ UNCHANGED <<decided, published>>

\* Device d goes away; what it kept is what is left of it.
Restart(d) ==
  /\ held' = [held EXCEPT ![d] = kept[d]]
  /\ UNCHANGED <<decided, published, kept>>

Next == \E d \in Device : Decide(d) \/ Publish(d) \/ Advance(d) \/ Restart(d)

Spec == Init /\ [][Next]_vars
=============================================================================
