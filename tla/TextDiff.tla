------------------------------- MODULE TextDiff -------------------------------
(* The rewrite of a body, hunk by hunk (web/src/domain/text-diff.js): the    *)
(* live text and the proposed one are compared line by line, changes near    *)
(* each other share a hunk, the reader turns hunks down by what they change, *)
(* and the text that is sent is put together from the rest.                  *)
EXTENDS Naturals, Sequences, FiniteSets

CONSTANTS
  Line,       \* the lines a body may have
  MaxLines,   \* bound: lines of both bodies together
  Context     \* unchanged lines drawn around a change

Bounds == MaxLines \in Nat /\ Context \in Nat \ {0}

VARIABLES
  live,       \* the body on the ticket
  proposed,   \* the body the agent proposes
  hunks,      \* the difference as it was last drawn
  rejected,   \* ids of the hunks turned down, as the log keeps them
  refused,    \* which hunks those were, counted from the top (history)
  shifted     \* a line was put above both bodies, or above the live one (history)

vars == <<live, proposed, hunks, rejected, refused, shifted>>

\* An empty body has no lines, so one empty line reads back as none.
Joined(lines) == IF lines = <<"">> THEN <<>> ELSE lines

Texts == {t \in UNION {[1..n -> Line] : n \in 0..MaxLines} : t # <<"">>}

-----------------------------------------------------------------------------
(* editScript: the longest common subsequence, removals before additions.    *)

Op(kind, at, text) == [kind |-> kind, old |-> at, text |-> text]     \* old: 0 is nowhere

\* Places p: before line p[1] of the old and line p[2] of the new.
Places(old, new) == (1..(Len(old) + 1)) \X (1..(Len(new) + 1))
Common(old, new, p) == p[1] <= Len(old) /\ p[2] <= Len(new) /\ old[p[1]] = new[p[2]]
Down(p) == <<p[1] + 1, p[2]>>
Right(p) == <<p[1], p[2] + 1>>
Both(p) == <<p[1] + 1, p[2] + 1>>

\* How many lines what is left of both has in common.
Lcs(old, new) ==
  LET lcs[p \in Places(old, new)] ==
        IF p[1] > Len(old) \/ p[2] > Len(new) THEN 0
        ELSE IF Common(old, new, p) THEN lcs[Both(p)] + 1
        ELSE IF lcs[Down(p)] >= lcs[Right(p)] THEN lcs[Down(p)] ELSE lcs[Right(p)]
  IN  lcs

EditScript(old, new) ==
  LET lcs == Lcs(old, new)
      DeleteFirst(p) == p[2] > Len(new) \/ (p[1] <= Len(old) /\ lcs[Down(p)] >= lcs[Right(p)])
      from[p \in Places(old, new)] ==
        IF p[1] > Len(old) /\ p[2] > Len(new) THEN <<>>
        ELSE IF Common(old, new, p) THEN <<Op("context", p[1], old[p[1]])>> \o from[Both(p)]
        ELSE IF DeleteFirst(p) THEN <<Op("del", p[1], old[p[1]])>> \o from[Down(p)]
        ELSE <<Op("add", 0, new[p[2]])>> \o from[Right(p)]
  IN  from[<<1, 1>>]

-----------------------------------------------------------------------------
(* diffText.                                                                 *)

IsChange(op) == op.kind # "context"

\* Two changes share a hunk when the lines around them would touch.
Near(span, i) == i - span.to - 1 <= 2 * Context

Taken(spans, i) ==
  IF spans # <<>> /\ Near(spans[Len(spans)], i) THEN [spans EXCEPT ![Len(spans)].to = i]
  ELSE Append(spans, [from |-> i, to |-> i])

Spans(ops) ==
  LET upTo[i \in 0..Len(ops)] ==
        IF i = 0 THEN <<>>
        ELSE IF IsChange(ops[i]) THEN Taken(upTo[i - 1], i) ELSE upTo[i - 1]
  IN  upTo[Len(ops)]

Top(span) == IF span.from > Context THEN span.from - Context ELSE 1
Bottom(ops, span) == IF span.to + Context < Len(ops) THEN span.to + Context ELSE Len(ops)
Around(ops, span) == SubSeq(ops, Top(span), Bottom(ops, span))

\* The members of a list at the places I, in their order.
Picked(list, I) ==
  LET upTo[k \in 0..Len(list)] ==
        IF k = 0 THEN <<>> ELSE IF k \in I THEN Append(upTo[k - 1], list[k]) ELSE upTo[k - 1]
  IN  upTo[Len(list)]

Altered(lines) == {n \in DOMAIN lines : IsChange(lines[n])}

\* Mutant: where, too.
SaidWhere(lines) == Picked(lines, Altered(lines))

\* What a hunk changes, and not where; equal ones are numbered.
Said(lines) == Picked([n \in DOMAIN lines |-> <<lines[n].kind, lines[n].text>>], Altered(lines))

\* Mutant: they are not.
Unnumbered(said, n) == 0
Nth(said, n) == Cardinality({k \in 1..(n - 1) : said[k] = said[n]})

DiffText(old, new) ==
  LET ops == EditScript(old, new)
      spans == Spans(ops)
      said == [n \in DOMAIN spans |-> Said(Around(ops, spans[n]))]
  IN  [n \in DOMAIN spans |->
         [id |-> [changes |-> said[n], nth |-> Nth(said, n)], lines |-> Around(ops, spans[n])]]

-----------------------------------------------------------------------------
(* applyHunks: the live lines copied up to each hunk that is kept.           *)

Copied(old, done, to) ==
  [out |-> done.out \o SubSeq(old, done.cursor + 1, to),
   cursor |-> IF done.cursor < to THEN to ELSE done.cursor]

\* Where a hunk starts: at its first line that is in the live text.
Start(done, lines) ==
  LET at == {n \in DOMAIN lines : lines[n].old # 0}
  IN  IF at = {} THEN done.cursor ELSE lines[CHOOSE n \in at : \A k \in at : n <= k].old - 1

One(old, done, op) ==
  CASE op.kind = "add" -> [done EXCEPT !.out = Append(@, op.text)]
    [] op.kind = "del" -> [done EXCEPT !.cursor = @ + 1]
    [] OTHER -> [out |-> Append(done.out, old[done.cursor + 1]), cursor |-> done.cursor + 1]

Whole(old, done, lines) ==
  LET upTo[n \in 0..Len(lines)] ==
        IF n = 0 THEN Copied(old, done, Start(done, lines)) ELSE One(old, upTo[n - 1], lines[n])
  IN  upTo[Len(lines)]

ApplyHunks(old, drawn, turnedDown) ==
  LET upTo[n \in 0..Len(drawn)] ==
        IF n = 0 THEN [out |-> <<>>, cursor |-> 0]
        ELSE IF drawn[n].id \in turnedDown THEN upTo[n - 1]
        ELSE Whole(old, upTo[n - 1], drawn[n].lines)
  IN  Copied(old, upTo[Len(drawn)], Len(old)).out

\* What the pane shows and the press sends.
Body == Joined(ApplyHunks(live, hunks, rejected))

-----------------------------------------------------------------------------
(* The reader, and the text above.                                           *)

Init ==
  /\ live \in Texts /\ proposed \in Texts
  /\ Len(live) + Len(proposed) <= MaxLines
  /\ hunks = DiffText(live, proposed)
  /\ rejected = {} /\ refused = {} /\ shifted = FALSE

Reject(n) ==
  /\ hunks[n].id \notin rejected
  /\ rejected' = rejected \cup {hunks[n].id} /\ refused' = refused \cup {n}
  /\ UNCHANGED <<live, proposed, hunks, shifted>>

Keep(n) ==
  /\ hunks[n].id \in rejected
  /\ rejected' = rejected \ {hunks[n].id} /\ refused' = refused \ {n}
  /\ UNCHANGED <<live, proposed, hunks, shifted>>

\* Somebody adds a line at the top, and the draft is brought up to date.
Shift == \E line \in Line :
  /\ ~shifted /\ live # <<>> /\ proposed # <<>>
  /\ shifted' = TRUE
  /\ live' = <<line>> \o live /\ proposed' = <<line>> \o proposed
  /\ hunks' = DiffText(live', proposed')
  /\ UNCHANGED <<rejected, refused>>

\* The line is a hunk of its own, and no other changes what it changes.
Apart(drawn) ==
  /\ Len(drawn) = Len(hunks) + 1
  /\ \A n \in DOMAIN hunks :
       /\ drawn[n + 1].id.changes = hunks[n].id.changes
       /\ drawn[1].id.changes # hunks[n].id.changes

\* Somebody adds a line at the top, and the draft says nothing of it: it would be
\* taken out again. What was turned down stays so, one hunk further down; where
\* the line joins a hunk, or changes what another does, it goes by the ids alone.
Drift == \E line \in Line :
  /\ ~shifted /\ live # <<>>
  /\ shifted' = TRUE
  /\ live' = <<line>> \o live
  /\ hunks' = DiffText(live', proposed)
  /\ refused' = IF Apart(hunks') THEN {n + 1 : n \in refused}
                 ELSE {n \in DOMAIN hunks' : hunks'[n].id \in rejected}
  /\ UNCHANGED <<proposed, rejected>>

Next == (\E n \in DOMAIN hunks : Reject(n) \/ Keep(n)) \/ Shift \/ Drift

Spec == Init /\ [][Next]_vars

-----------------------------------------------------------------------------
(* What must hold.                                                           *)

TypeOK ==
  /\ {live, proposed} \subseteq Seq(Line) /\ shifted \in BOOLEAN
  /\ refused = {n \in DOMAIN hunks : hunks[n].id \in rejected}

\* Every change is made or left out as the hunk it is drawn in was kept or not.
Refused(spans, i) == \E n \in refused : i \in spans[n].from..spans[n].to
Stays(ops, i) ==
  \/ ops[i].kind = "context"
  \/ ops[i].kind = "del" /\ Refused(Spans(ops), i)
  \/ ops[i].kind = "add" /\ ~Refused(Spans(ops), i)

Mixed ==
  LET ops == EditScript(live, proposed)
  IN  Picked([i \in DOMAIN ops |-> ops[i].text], {i \in DOMAIN ops : Stays(ops, i)})

\* What is sent is what the pane says: the changes of the hunks the reader kept
\* and no others, also after a line was put above both bodies, or above the live
\* one alone as a change of its own; with everything kept it is the proposal, with
\* nothing kept the body as it was (text-diff.js applyHunks and diffText).
SentAsShown ==
  /\ Body = Joined(Mixed)
  /\ refused = {} => Body = proposed
  /\ refused = DOMAIN hunks => Body = live
===============================================================================
