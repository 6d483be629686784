------------------------------ MODULE ChatProofs ------------------------------
(* What four parts guarantee. Of AgentChat: one run is under way and how it   *)
(* ended is told once. Of Clones: one reader makes the folder at a time, and  *)
(* who has opened has all of it. Of OfflineShell: what is kept is the last    *)
(* that came, so a page starts without a network and is as young as it was    *)
(* asked to be. Of TextDiff: the hunks of two texts lie apart, so those that  *)
(* are kept are written whole and the live text between them.                 *)
EXTENDS AgentChat, SequenceTheorems, FiniteSetTheorems, WellFoundedInduction, TLAPS

CONSTANTS Source, Reader, MaxAsks, MaxOutages, MaxFalters
VARIABLES browser, source, disk, online, reader, told, asks, outages, falters, cut, taken, left
F == INSTANCE Clones WITH MaxFaults <- MaxFalters, faults <- falters

CONSTANTS Page, MaxChanges, MaxLoads
VARIABLES site, up, held, worker, caches, page, puts, loads, losses, last, overtaken, stored, aside
O == INSTANCE OfflineShell WITH outages <- losses

CONSTANTS TextLine, MaxLines, Context
VARIABLES live, proposed, hunks, rejected, refused, shifted
D == INSTANCE TextDiff WITH Line <- TextLine

-----------------------------------------------------------------------------
(* A chat with the agent (AgentChat).                                        *)

\* The line that names the session of the run there is.
Named == [Event("session") EXCEPT !.id = run.session]

\* The lines still to be heard of a run that is under way, ...
UnderWay == IF run.said THEN {<<>>, <<Named>>} ELSE {<<>>}

\* ... and of one that is over: its last line and what is before it,
Last == {<<Event("error")>>, <<Named, Event("error")>>, <<Event("missing")>>,
         <<Event("result")>>, <<Named, Event("result")>>, <<Named, Named, Event("result")>>}

\* or only what came before.
NoLast == {<<>>, <<Named>>}

\* A run that was reported has its exit behind them.
Closing(lines) ==
  IF run.state = "none" THEN {Append(l, [Event("exit") EXCEPT !.code = run.code]) : l \in lines}
                        ELSE lines

Untold == replies = 0 /\ ~chat.ended /\ ~chat.elsewhere

\* The reader is told by the last line, by the exit when there was none, and by
\* one of them.
Told ==
  /\ ~chat.busy => run.state = "none" /\ events = <<>> /\ (sends > 0 => replies = 1)
  /\ chat.busy /\ run.state \in {"starting", "running"} => Untold /\ events \in UnderWay
  /\ chat.busy /\ run.state \in {"ended", "none"} =>
       \/ Untold /\ events \in Closing(Last)
       \/ Untold /\ events \in Closing(NoLast) /\ run.code # "ok"
       \/ replies = 1 /\ (chat.ended \/ chat.elsewhere) /\ events \in Closing(NoLast)

\* The log remembers an agent's fork by the agent's own session, and a run is of
\* the agent the draft on screen was by.
Remembered ==
  /\ fork.from.n = 0 /\ fork.session.agent = fork.from.agent /\ fork.from.agent <= chat.draft
  /\ fork.session = NoSession \/ fork.session.n > 0
  /\ chat.draft <= draft
  /\ chat.busy => run.session.agent = chat.draft
  /\ chat.busy /\ ~chat.forked => fork.from # Session(chat.draft, 0)
  /\ chat.busy /\ run.state = "starting" => ~run.said
  /\ chat.busy /\ ~run.said => (run.session.n = 0 <=> ~chat.forked)
  /\ chat.busy /\ run.said => run.session.n > 0
  /\ chat.busy /\ run.said /\ ~chat.forked => events # <<>> /\ Head(events) = Named

\* The fork of a has a name that the page has not heard.
Unheard(a) == chat.busy /\ chat.draft = a /\ run.said /\ ~chat.forked

\* An agent is forked once, and once more for each fork whose name was lost.
Forked ==
  \A a \in Agent :
    /\ forks[a] <= 1 + lost[a]
    /\ a >= chat.draft /\ fork.from # Session(a, 0) /\ ~Unheard(a) => forks[a] <= lost[a]
    /\ forks[a] <= sends /\ (chat.busy /\ ~run.said => forks[a] < sends)
    /\ lost[a] <= forks[a] /\ (Unheard(a) => lost[a] < forks[a])

ChatInv == TypeOK /\ ~crossed /\ Told /\ Remembered /\ Forked

-------------------------------------------------------------------------------
(* Types.                                                                    *)

Lines == [kind : {"session", "result", "error", "missing", "exit"}, id : Sessions,
          code : {"none", "ok", "failed", "stopped"}]

\* Sessions and lines are what they are made of.
LEMMA Made ==
  ASSUME Bounds
  PROVE  /\ \A a \in 0..MaxDrafts, n \in 0..MaxSends : /\ Session(a, n) \in Sessions
                                                     /\ Session(a, n).agent = a
                                                     /\ Session(a, n).n = n
         /\ \A s \in Sessions : /\ s.agent \in 0..MaxDrafts /\ s.n \in 0..MaxSends
                                /\ s = Session(s.agent, s.n)
         /\ NoSession \in Sessions /\ NoSession.agent = 0 /\ NoSession.n = 0
         /\ NoFork.from = NoSession /\ NoFork.session = NoSession
         /\ NoFork \in [from : Sessions, session : Sessions]
         /\ \A k \in {"session", "result", "error", "missing", "exit"} :
              Event(k) \in Lines /\ Event(k).kind = k
         /\ \A s \in Sessions : /\ [Event("session") EXCEPT !.id = s] \in Lines
                                /\ [Event("session") EXCEPT !.id = s].kind = "session"
                                /\ [Event("session") EXCEPT !.id = s].id = s
         /\ \A c \in {"none", "ok", "failed", "stopped"} :
              /\ [Event("exit") EXCEPT !.code = c] \in Lines
              /\ [Event("exit") EXCEPT !.code = c].kind = "exit"
              /\ [Event("exit") EXCEPT !.code = c].code = c
<1>1. 0 \in 0..MaxDrafts /\ 0 \in 0..MaxSends
  BY DEF Bounds
<1>2. \A a \in 0..MaxDrafts, n \in 0..MaxSends : /\ Session(a, n) \in Sessions
                                               /\ Session(a, n).agent = a
                                               /\ Session(a, n).n = n
  BY DEF Session, Sessions
<1>3. \A s \in Sessions : /\ s.agent \in 0..MaxDrafts /\ s.n \in 0..MaxSends
                          /\ s = Session(s.agent, s.n)
  BY DEF Session, Sessions
<1>4. NoSession \in Sessions /\ NoSession.agent = 0 /\ NoSession.n = 0
  BY <1>1, <1>2 DEF NoSession
<1>5. /\ NoFork.from = NoSession /\ NoFork.session = NoSession
      /\ NoFork \in [from : Sessions, session : Sessions]
  BY <1>4 DEF NoFork
<1>6. \A k \in {"session", "result", "error", "missing", "exit"} :
        Event(k) \in Lines /\ Event(k).kind = k
  BY <1>4 DEF Event, Lines
<1>7. \A s \in Sessions : /\ [Event("session") EXCEPT !.id = s] \in Lines
                          /\ [Event("session") EXCEPT !.id = s].kind = "session"
                          /\ [Event("session") EXCEPT !.id = s].id = s
  BY <1>4 DEF Event, Lines
<1>8. \A c \in {"none", "ok", "failed", "stopped"} :
        /\ [Event("exit") EXCEPT !.code = c] \in Lines
        /\ [Event("exit") EXCEPT !.code = c].kind = "exit"
        /\ [Event("exit") EXCEPT !.code = c].code = c
  BY <1>4 DEF Event, Lines
<1> QED BY <1>2, <1>3, <1>4, <1>5, <1>6, <1>7, <1>8

Chatting == [busy : BOOLEAN, elsewhere : BOOLEAN, ended : BOOLEAN, forked : BOOLEAN, draft : Agent]

Runs == [state : {"none", "starting", "running", "ended"}, held : BOOLEAN, session : Sessions,
         said : BOOLEAN, code : {"none", "ok", "failed", "stopped"}]

\* The session a message goes to, and what it says of the reader's agent.
LEMMA Chosen ==
  ASSUME Bounds, TypeOK, Remembered
  PROVE  LET s == IF AgentFork = NoSession THEN Session(draft, 0) ELSE AgentFork IN
         /\ s \in Sessions /\ s.agent = draft
         /\ AgentFork = NoSession => s.n = 0 /\ fork.from # Session(draft, 0)
         /\ AgentFork # NoSession => s.n > 0 /\ fork.from = Session(draft, 0)
<1>1. draft \in 1..MaxDrafts /\ draft \in 0..MaxDrafts /\ 0 \in 0..MaxSends /\ draft # 0
  BY DEF TypeOK, Agent, Bounds
<1>2. Session(draft, 0) \in Sessions /\ Session(draft, 0).agent = draft /\ Session(draft, 0).n = 0
  BY <1>1, Made
<1>3. fork.session \in Sessions /\ NoSession.agent = 0
  BY Made DEF TypeOK
<1>4. fork.from = Session(draft, 0) => /\ fork.session.agent = draft
                                        /\ fork.session # NoSession /\ fork.session.n > 0
  BY <1>1, <1>2, <1>3 DEF Remembered
<1> QED BY <1>2, <1>3, <1>4 DEF AgentFork

-------------------------------------------------------------------------------
(* The lines of a run.                                                       *)

\* Short sequences, put together and taken apart.
LEMMA Short ==
  ASSUME NEW a, NEW b, NEW c
  PROVE  /\ Head(<<a>>) = a /\ Head(<<a, b>>) = a /\ Head(<<a, b, c>>) = a
         /\ Tail(<<a>>) = <<>> /\ Tail(<<a, b>>) = <<b>> /\ Tail(<<a, b, c>>) = <<b, c>>
         /\ <<a>> # <<>> /\ <<a, b>> # <<>> /\ <<a, b, c>> # <<>>
         /\ Append(<<>>, a) = <<a>>
         /\ <<>> \o <<>> = <<>> /\ <<>> \o <<a>> = <<a>> /\ <<>> \o <<a, b>> = <<a, b>>
         /\ <<a>> \o <<>> = <<a>> /\ <<a>> \o <<b>> = <<a, b>> /\ <<a>> \o <<b, c>> = <<a, b, c>>
<1>1. Head(<<a>>) = a /\ Head(<<a, b>>) = a /\ Head(<<a, b, c>>) = a
  OBVIOUS
<1>2. Tail(<<a>>) = <<>> /\ Tail(<<a, b>>) = <<b>> /\ Tail(<<a, b, c>>) = <<b, c>>
  OBVIOUS
<1>3. <<a>> # <<>> /\ <<a, b>> # <<>> /\ <<a, b, c>> # <<>>
  OBVIOUS
<1>4. Append(<<>>, a) = <<a>>
  OBVIOUS
<1>5. <<>> \o <<>> = <<>> /\ <<>> \o <<a>> = <<a>> /\ <<>> \o <<a, b>> = <<a, b>>
  OBVIOUS
<1>6. <<a>> \in Seq({a, b, c}) /\ <<b, c>> \in Seq({a, b, c})
  OBVIOUS
<1>7. <<a>> \o <<>> = <<a>>
  BY <1>6, ConcatEmptySeq
<1>8. <<a>> \o <<b>> = <<a, b>>
  <2>1. /\ <<a>> \o <<b>> \in Seq({a, b}) /\ Len(<<a>> \o <<b>>) = 2
        /\ (<<a>> \o <<b>>)[1] = a /\ (<<a>> \o <<b>>)[2] = b
    OBVIOUS
  <2>3. <<a, b>> \in Seq({a, b}) /\ Len(<<a, b>>) = 2
    OBVIOUS
  <2>4. \A i \in 1..2 : (<<a>> \o <<b>>)[i] = <<a, b>>[i]
    BY <2>1
  <2> QED BY <2>1, <2>3, <2>4, SeqEqual
<1>9. <<a>> \o <<b, c>> = <<a, b, c>>
  <2>1. <<a, b, c>> \in Seq({a, b, c}) /\ Len(<<a, b, c>>) = 3
    OBVIOUS
  <2>2. Len(<<a>> \o <<b, c>>) = 3 /\ <<a>> \o <<b, c>> \in Seq({a, b, c})
    BY <1>6
  <2>3. (<<a>> \o <<b, c>>)[1] = a /\ (<<a>> \o <<b, c>>)[2] = b /\ (<<a>> \o <<b, c>>)[3] = c
    BY <1>6
  <2>4. \A i \in 1..3 : (<<a>> \o <<b, c>>)[i] = <<a, b, c>>[i]
    BY <2>3
  <2> QED BY <2>1, <2>2, <2>4, SeqEqual
<1> QED BY <1>1, <1>2, <1>3, <1>4, <1>5, <1>7, <1>8, <1>9

\* What is put at the end of lines leaves their first in place.
LEMMA Behind ==
  ASSUME NEW S, NEW l \in Seq(S), NEW x \in S
  PROVE  /\ Append(l, x) \in Seq(S) /\ Append(l, x) # <<>>
         /\ l # <<>> => /\ Head(Append(l, x)) = Head(l) /\ Tail(Append(l, x)) = Append(Tail(l), x)
                        /\ Head(l) \in S /\ Tail(l) \in Seq(S)
         /\ l = <<>> => Head(Append(l, x)) = x /\ Tail(Append(l, x)) = <<>>
<1>1. Append(l, x) \in Seq(S) /\ Append(l, x) # <<>>
  <2>1. Append(l, x) \in Seq(S) /\ Len(Append(l, x)) = Len(l) + 1 /\ Len(l) \in Nat
    OBVIOUS
  <2> QED BY <2>1
<1>2. ASSUME l # <<>>
      PROVE  /\ Head(Append(l, x)) = Head(l) /\ Tail(Append(l, x)) = Append(Tail(l), x)
             /\ Head(l) \in S /\ Tail(l) \in Seq(S)
  BY <1>2
<1>3. l = <<>> => Head(Append(l, x)) = x /\ Tail(Append(l, x)) = <<>>
  OBVIOUS
<1> QED BY <1>1, <1>2, <1>3

Ends == {Event("error"), Event("missing"), Event("result")}

\* The shapes the lines of a run have: the name once more, or its last line.
LEMMA Shapes ==
  ASSUME Bounds, TypeOK
  PROVE  /\ Named \in Lines /\ Named.kind = "session" /\ Named.id = run.session
         /\ \A e \in Ends : e \in Lines /\ e.kind \in {"error", "missing", "result"}
         /\ Last \subseteq Seq(Lines) /\ NoLast \subseteq Seq(Lines)
         /\ \A l \in Last : /\ l # <<>>
                             /\ \/ Head(l) \in Ends /\ Tail(l) = <<>>
                                \/ Head(l) = Named /\ Tail(l) \in Last
         /\ \A l \in NoLast : l # <<>> => Head(l) = Named /\ Tail(l) = <<>>
<1>1. Named \in Lines /\ Named.kind = "session" /\ Named.id = run.session
  BY Made DEF Named, TypeOK
<1>2. \A e \in Ends : e \in Lines /\ e.kind \in {"error", "missing", "result"}
  BY Made DEF Ends
<1> DEFINE n == Named  e == Event("error")  m == Event("missing")  r == Event("result")
<1>3. n \in Lines /\ e \in Lines /\ m \in Lines /\ r \in Lines
  BY <1>1, <1>2 DEF Ends
<1>4. n = Named /\ Last = {<<e>>, <<n, e>>, <<m>>, <<r>>, <<n, r>>, <<n, n, r>>} /\ NoLast = {<<>>, <<n>>}
      /\ Ends = {e, m, r}
  BY DEF Last, NoLast, Ends
<1> HIDE DEF n, e, m, r
<1>5. Last \subseteq Seq(Lines)
  BY <1>3, <1>4
<1>6. NoLast \subseteq Seq(Lines)
  BY <1>3, <1>4
<1>7. ASSUME NEW l \in Last
      PROVE  /\ l # <<>>
             /\ \/ Head(l) \in Ends /\ Tail(l) = <<>>
                \/ Head(l) = Named /\ Tail(l) \in Last
  <2>1. CASE l = <<e>>  BY <2>1, <1>4, Short
  <2>2. CASE l = <<n, e>>  BY <2>2, <1>4, Short
  <2>3. CASE l = <<m>>  BY <2>3, <1>4, Short
  <2>4. CASE l = <<r>>  BY <2>4, <1>4, Short
  <2>5. CASE l = <<n, r>>  BY <2>5, <1>4, Short
  <2>6. CASE l = <<n, n, r>>  BY <2>6, <1>4, Short
  <2> QED BY <1>4, <2>1, <2>2, <2>3, <2>4, <2>5, <2>6
<1>8. \A l \in NoLast : l # <<>> => Head(l) = Named /\ Tail(l) = <<>>
  BY <1>4, Short
<1> QED BY <1>1, <1>2, <1>5, <1>6, <1>7, <1>8

\* A run whose session stays has the same lines.
LEMMA SameLines ==
  ASSUME run'.session = run.session
  PROVE  Named' = Named /\ Last' = Last /\ NoLast' = NoLast
<1>1. Named' = Named
  BY DEF Named, Event
<1> QED BY <1>1 DEF Last, NoLast, Event

-------------------------------------------------------------------------------
(* The invariant, from the first state on.                                   *)

\* A chat begins with nothing said, nothing forked and nothing under way.
LEMMA ChatInvInit == ASSUME Bounds, Init PROVE ChatInv
<1>1. TypeOK
  <2>1. chat \in Chatting /\ run \in Runs /\ events \in Seq(Lines) /\ draft \in Agent
    BY Made DEF Init, Chatting, Runs, Agent, Bounds
  <2>2. fork \in [from : Sessions, session : Sessions]
    BY Made DEF Init
  <2>3. /\ sends \in 0..MaxSends /\ faults \in 0..MaxFaults
        /\ replies \in Nat /\ crossed \in BOOLEAN
    <3>1. sends = 0 /\ faults = 0 /\ replies = 0 /\ crossed = FALSE
      BY DEF Init
    <3>2. crossed \in BOOLEAN
      BY <3>1, Zenon
    <3> QED BY <3>1, <3>2 DEF Bounds
  <2>4. [a \in Agent |-> 0] \in [Agent -> 0..MaxSends]
    BY DEF Bounds
  <2>5. forks \in [Agent -> 0..MaxSends] /\ lost \in [Agent -> 0..MaxSends]
    BY <2>4 DEF Init
  <2> QED BY <2>1, <2>2, <2>3, <2>5 DEF TypeOK, Chatting, Runs, Lines
<1>2. ~crossed /\ Told
  BY DEF Init, Told
<1>3. Remembered
  <2>1. fork.from = NoSession /\ fork.session = NoSession /\ NoSession.agent = 0 /\ NoSession.n = 0
    BY Made DEF Init
  <2> QED BY <2>1 DEF Init, Remembered
<1>4. Forked
  BY DEF Init, Forked, Unheard
<1> QED BY <1>1, <1>2, <1>3, <1>4 DEF ChatInv

\* The types of the state, one by one.
LEMMA Rest ==
  ASSUME TypeOK
  PROVE  /\ chat \in Chatting /\ run \in Runs /\ events \in Seq(Lines) /\ draft \in Agent
         /\ fork \in [from : Sessions, session : Sessions]
         /\ fork.from \in Sessions /\ fork.session \in Sessions /\ run.session \in Sessions
         /\ chat.draft \in Agent
BY DEF TypeOK, Chatting, Runs, Lines

-------------------------------------------------------------------------------
(* A message.                                                                *)

\* A message begins a run of the agent on screen: nothing is told of it yet, and it
\* resumes the fork that is known, or will make one.
LEMMA SendStep == ASSUME Bounds, ChatInv, Send PROVE ChatInv'
<1> DEFINE to == IF AgentFork = NoSession THEN Session(draft, 0) ELSE AgentFork
<1>1. /\ to \in Sessions /\ to.agent = draft
      /\ AgentFork = NoSession => to.n = 0 /\ fork.from # Session(draft, 0)
      /\ AgentFork # NoSession => to.n > 0 /\ fork.from = Session(draft, 0)
  BY Chosen DEF ChatInv
<1>2. run' = [state |-> "starting", held |-> FALSE, said |-> FALSE, code |-> "none", session |-> to]
  BY DEF Send
<1> HIDE DEF to
<1>3. /\ run' \in Runs /\ run'.state = "starting" /\ ~run'.said /\ run'.session = to
  BY <1>1, <1>2 DEF Runs
<1>4. /\ chat' \in Chatting /\ chat'.busy /\ ~chat'.ended /\ chat'.elsewhere = chat.elsewhere
      /\ chat'.draft = draft
  BY Rest DEF ChatInv, Send, Chatting
<1>5. chat'.forked <=> AgentFork # NoSession
  BY Rest DEF ChatInv, Send, Chatting
<1>6. /\ ~chat.busy /\ ~chat.elsewhere /\ sends' = sends + 1 /\ sends < MaxSends /\ replies' = 0
      /\ draft' = draft /\ fork' = fork /\ events' = events /\ faults' = faults
      /\ forks' = forks /\ lost' = lost
  BY DEF Send
<1>7. TypeOK'
  <2>1. sends' \in 0..MaxSends /\ replies' \in Nat /\ crossed' \in BOOLEAN
    BY <1>6 DEF ChatInv, TypeOK, Send, Bounds
  <2> QED BY <1>3, <1>4, <1>6, <2>1 DEF ChatInv, TypeOK, Chatting, Runs, Lines, Sessions
<1>8. ~crossed'
  BY <1>1, <1>3 DEF Send, ChatInv
<1>9. Told'
  BY <1>3, <1>4, <1>6 DEF ChatInv, Told, Untold, UnderWay
<1>10. Remembered'
  <2>1. chat.draft \in 1..MaxDrafts /\ draft \in 1..MaxDrafts /\ fork.from.agent \in 0..MaxDrafts
    BY Rest, Made DEF ChatInv, Agent
  <2>2. fork'.from.agent <= chat'.draft /\ chat'.draft <= draft'
    BY <1>4, <1>6, <2>1, Bounds DEF ChatInv, Remembered, Bounds
  <2>3. /\ fork'.from.n = 0 /\ fork'.session.agent = fork'.from.agent
        /\ fork'.session = NoSession' \/ fork'.session.n > 0
    BY <1>6 DEF ChatInv, Remembered, NoSession, Session
  <2>4. ~chat'.forked => fork'.from # Session(chat'.draft, 0)
    BY <1>1, <1>4, <1>5, <1>6
  <2>5. run'.session.agent = chat'.draft
    BY <1>1, <1>3, <1>4
  <2>6. run'.session.n = 0 <=> ~chat'.forked
    BY <1>1, <1>3, <1>5, Made
  <2> QED BY <1>3, <2>2, <2>3, <2>4, <2>5, <2>6 DEF Remembered, Session
<1>11. Forked'
  <2>1. chat.draft <= draft /\ chat.draft \in 1..MaxDrafts /\ draft \in 1..MaxDrafts
    BY Rest DEF ChatInv, Remembered, Agent
  <2>2. ASSUME NEW a \in Agent
        PROVE  /\ forks'[a] <= 1 + lost'[a]
               /\ a >= chat'.draft /\ fork'.from # Session(a, 0) => forks'[a] <= lost'[a]
               /\ forks'[a] < sends' /\ lost'[a] <= forks'[a]
    <3>1. ~Unheard(a)
      BY <1>6 DEF Unheard
    <3>2. forks[a] \in Nat /\ lost[a] \in Nat /\ a \in Nat /\ sends \in Nat
      BY DEF ChatInv, TypeOK, Agent, Bounds
    <3> QED BY <1>4, <1>6, <2>1, <3>1, <3>2, Bounds DEF ChatInv, Forked, Bounds
  <2>3. \A a \in Agent : ~Unheard(a)'
    BY <1>3 DEF Unheard
  <2>4. \A a \in Agent : forks'[a] <= sends'
    BY <2>2, <1>6 DEF ChatInv, TypeOK, Bounds
  <2> QED BY <2>2, <2>3, <2>4 DEF Forked, Session
<1> QED BY <1>7, <1>8, <1>9, <1>10, <1>11 DEF ChatInv

\* A message with no agent to run here is told at once, and no run begins.
LEMMA RefusedStep == ASSUME Bounds, ChatInv, Refused PROVE ChatInv'
<1>1. /\ run' \in Runs /\ run'.state = "none" /\ run'.said = run.said /\ run'.session = run.session
  BY Rest DEF ChatInv, Refused, Runs
<1>2. /\ chat' \in Chatting /\ ~chat'.busy /\ chat'.draft = chat.draft
  BY Rest DEF ChatInv, Refused, Chatting
<1>3. /\ run.state = "starting" /\ replies' = replies + 1 /\ faults' = faults + 1 /\ faults < MaxFaults
      /\ draft' = draft /\ fork' = fork /\ events' = events /\ sends' = sends
      /\ forks' = forks /\ lost' = lost /\ crossed' = crossed
  BY DEF Refused
<1>4. chat.busy /\ ~run.said /\ replies = 0 /\ events = <<>>
  BY <1>3 DEF ChatInv, Told, Untold, UnderWay, Remembered
<1>5. TypeOK'
  <2>1. replies' \in Nat /\ faults' \in 0..MaxFaults
    BY <1>3 DEF ChatInv, TypeOK, Bounds
  <2> QED BY <1>1, <1>2, <1>3, <2>1 DEF ChatInv, TypeOK, Chatting, Runs, Lines, Sessions
<1>6. ~crossed' /\ Told'
  BY <1>1, <1>2, <1>3, <1>4 DEF ChatInv, Told
<1>7. Remembered'
  BY <1>2, <1>3 DEF ChatInv, Remembered
<1>8. Forked'
  BY <1>1, <1>2, <1>3, <1>4 DEF ChatInv, Forked, Unheard, Session
<1> QED BY <1>5, <1>6, <1>7, <1>8 DEF ChatInv

\* A cancel ends the run there is, or does nothing; its exit will tell.
LEMMA CancelStep == ASSUME Bounds, ChatInv, Cancel PROVE ChatInv'
<1>1. /\ run.state = "running" /\ run' = [run EXCEPT !.state = "ended", !.code = "stopped"]
      /\ chat.busy /\ UNCHANGED <<draft, fork, chat, events, bounds, history>>
  BY DEF Cancel
<1>2. /\ run' \in Runs /\ run'.state = "ended" /\ run'.code = "stopped"
      /\ run'.said = run.said /\ run'.session = run.session
  BY <1>1, Rest DEF ChatInv, Runs
<1>3. /\ draft' = draft /\ fork' = fork /\ chat' = chat /\ events' = events /\ sends' = sends
      /\ faults' = faults /\ forks' = forks /\ lost' = lost /\ replies' = replies /\ crossed' = crossed
  BY <1>1 DEF bounds, history
<1>4. TypeOK'
  BY <1>2, <1>3 DEF ChatInv, TypeOK, Runs, Lines, Sessions
<1>5. Untold /\ events \in NoLast
  BY <1>1 DEF ChatInv, Told, UnderWay, NoLast
<1>6. Told'
  <2>1. Untold' /\ events' \in Closing(NoLast)'
    BY <1>2, <1>3, <1>5, SameLines DEF Untold, Closing
  <2> QED BY <1>1, <1>2, <1>3, <2>1 DEF Told
<1>7. Remembered'
  <2>1. Named' = Named
    BY <1>2, SameLines
  <2> QED BY <1>1, <1>2, <1>3, <2>1 DEF ChatInv, Remembered, Session
<1>8. Forked'
  BY <1>2, <1>3 DEF ChatInv, Forked, Unheard, Session
<1> QED BY <1>3, <1>4, <1>6, <1>7, <1>8 DEF ChatInv

-------------------------------------------------------------------------------
(* The shell and the agent's process.                                        *)

\* The process starts and names its session: a new fork is counted, its name at the
\* head of the lines until it is heard.
LEMMA SpawnStep == ASSUME Bounds, ChatInv, Spawn PROVE ChatInv'
<1>1. /\ run.state = "starting" /\ run' = [run EXCEPT !.state = "running", !.held = TRUE]
      /\ UNCHANGED <<draft, fork, chat, events, bounds, history>>
  BY DEF Spawn
<1>2. /\ run' \in Runs /\ run'.state = "running" /\ run'.said = run.said /\ run'.session = run.session
  BY <1>1, Rest DEF ChatInv, Runs
<1>3. /\ draft' = draft /\ fork' = fork /\ chat' = chat /\ events' = events /\ sends' = sends
      /\ faults' = faults /\ forks' = forks /\ lost' = lost /\ replies' = replies /\ crossed' = crossed
  BY <1>1 DEF bounds, history
<1>4. TypeOK'
  BY <1>2, <1>3 DEF ChatInv, TypeOK, Runs, Lines, Sessions
<1>5. chat.busy /\ Untold /\ events \in UnderWay
  BY <1>1 DEF ChatInv, Told
<1>6. Named' = Named
  BY <1>2, SameLines
<1>7. Told'
  BY <1>2, <1>3, <1>5, <1>6 DEF Told, Untold, UnderWay
<1>8. Remembered'
  BY <1>1, <1>2, <1>3, <1>6 DEF ChatInv, Remembered, Session
<1>9. Forked'
  BY <1>2, <1>3 DEF ChatInv, Forked, Unheard, Session
<1> QED BY <1>3, <1>4, <1>7, <1>8, <1>9 DEF ChatInv

\* An agent that has run is one whose draft was on screen.
LEMMA SaySessionStep == ASSUME Bounds, ChatInv, SaySession PROVE ChatInv'
<1> DEFINE a == run.session.agent
           new == IF run.session.n = 0 THEN Session(a, forks[a] + 1) ELSE run.session
           line == [Event("session") EXCEPT !.id = new]
<1>1. /\ run.state = "running" /\ ~run.said
      /\ draft' = draft /\ fork' = fork /\ chat' = chat /\ sends' = sends /\ faults' = faults
      /\ lost' = lost /\ replies' = replies /\ crossed' = crossed
  BY DEF SaySession, bounds
<1>2. chat.busy /\ Untold /\ events = <<>>
  BY <1>1 DEF ChatInv, Told, UnderWay
<1>3. a = chat.draft /\ a \in Agent /\ a \in 0..MaxDrafts /\ forks[a] \in Nat /\ forks[a] + 1 \in 0..MaxSends
  <2>1. a = chat.draft /\ a \in Agent
    BY <1>2, Rest DEF ChatInv, Remembered
  <2>2. forks[a] < sends /\ sends \in 0..MaxSends /\ forks[a] \in 0..MaxSends
    BY <1>1, <1>2, <2>1 DEF ChatInv, Forked, TypeOK
  <2> QED BY <2>1, <2>2 DEF Agent, Bounds
<1>4. new \in Sessions /\ new.agent = a /\ new.n > 0
  <2>1. run.session \in Sessions /\ run.session.n \in 0..MaxSends
    BY Rest, Made DEF ChatInv
  <2>2. CASE run.session.n = 0
    BY <1>3, <2>2, Made, Bounds DEF Bounds
  <2>3. CASE run.session.n # 0
    BY <2>1, <2>3, Bounds DEF Bounds
  <2> QED BY <2>2, <2>3
<1>5. run' = [run EXCEPT !.said = TRUE, !.session = new]
  BY DEF SaySession
<1>6. forks' = IF run.session.n = 0 THEN [forks EXCEPT ![a] = @ + 1] ELSE forks
  <2>1. run.session.n = 0 => new.agent = a
    BY <1>4
  <2> QED BY <2>1 DEF SaySession
<1>7. events' = Append(events, line)
  BY DEF SaySession
<1> HIDE DEF new
<1>8. run' \in Runs /\ run'.state = "running" /\ run'.said /\ run'.session = new /\ run'.code = run.code
  BY <1>1, <1>4, <1>5, Rest DEF ChatInv, Runs
<1>9. line = Named' /\ line \in Lines
  BY <1>4, <1>8, Made DEF Named, Event, NoSession, Session
<1> HIDE DEF line
<1>10. events' = <<Named'>> /\ events' # <<>> /\ Head(events') = Named' /\ events' \in Seq(Lines)
  BY <1>2, <1>7, <1>9, Short
<1>11. forks' \in [Agent -> 0..MaxSends]
  BY <1>3, <1>6 DEF ChatInv, TypeOK
<1>12. TypeOK'
  BY <1>1, <1>8, <1>10, <1>11 DEF ChatInv, TypeOK, Runs, Lines, Sessions
<1>13. Told'
  BY <1>1, <1>2, <1>8, <1>10 DEF Told, Untold, UnderWay
<1>14. Remembered'
  BY <1>1, <1>2, <1>3, <1>4, <1>8, <1>10 DEF ChatInv, Remembered, Session
<1>15. Forked'
  <2>1. run.session.n = 0 <=> ~chat.forked
    BY <1>1, <1>2 DEF ChatInv, Remembered
  <2>2. CASE chat.forked
    BY <1>1, <1>6, <1>8, <2>1, <2>2 DEF ChatInv, Forked, Unheard, Session
  <2>3. CASE ~chat.forked
    <3>1. fork.from # Session(a, 0)
      BY <1>2, <1>3, <2>3 DEF ChatInv, Remembered
    <3>2. forks[a] <= lost[a] /\ forks[a] < sends /\ lost[a] <= forks[a]
      BY <1>1, <1>2, <1>3, <3>1 DEF ChatInv, Forked, Unheard, Agent
    <3>3. /\ forks'[a] = forks[a] + 1
          /\ \A b \in Agent : b # a => forks'[b] = forks[b]
      BY <1>3, <1>6, <2>1, <2>3 DEF ChatInv, TypeOK
    <3>4. /\ \A b \in Agent : Unheard(b)' <=> b = a
          /\ \A b \in Agent : ~Unheard(b)
      BY <1>1, <1>2, <1>3, <1>8, <2>3 DEF Unheard
    <3>5. sends \in Nat /\ \A b \in Agent : forks[b] \in Nat /\ lost[b] \in Nat
      BY DEF ChatInv, TypeOK, Bounds
    <3>6. ASSUME NEW b \in Agent
          PROVE  /\ forks'[b] <= 1 + lost'[b]
                 /\ b >= chat'.draft /\ fork'.from # Session(b, 0) /\ ~Unheard(b)' => forks'[b] <= lost'[b]
                 /\ forks'[b] <= sends' /\ lost'[b] <= forks'[b]
                 /\ Unheard(b)' => lost'[b] < forks'[b]
      <4>1. CASE b = a
        BY <1>1, <1>3, <3>2, <3>3, <3>4, <3>5, <4>1
      <4>2. CASE b # a
        BY <1>1, <1>2, <1>3, <3>3, <3>4, <3>5, <4>2 DEF ChatInv, Forked
      <4> QED BY <4>1, <4>2
    <3> QED BY <1>8, <3>6 DEF Forked, Session
  <2> QED BY <2>2, <2>3
<1> QED BY <1>1, <1>12, <1>13, <1>14, <1>15 DEF ChatInv

\* The last line of a run that went well joins the lines, and the run is over.
LEMMA ResultStep == ASSUME Bounds, ChatInv, Result PROVE ChatInv'
<1>1. /\ run.state = "running" /\ run.said /\ run' = [run EXCEPT !.state = "ended", !.code = "ok"]
      /\ events' = events \o <<Named, Event("result")>>
      /\ UNCHANGED <<draft, fork, chat, bounds, history>>
  BY DEF Result, Named
<1>2. /\ run' \in Runs /\ run'.state = "ended" /\ run'.said = run.said /\ run'.session = run.session
  BY <1>1, Rest DEF ChatInv, Runs
<1>3. /\ draft' = draft /\ fork' = fork /\ chat' = chat /\ sends' = sends
      /\ faults' = faults /\ forks' = forks /\ lost' = lost /\ replies' = replies /\ crossed' = crossed
  BY <1>1 DEF bounds, history
<1>4. chat.busy /\ Untold /\ events \in {<<>>, <<Named>>}
  BY <1>1 DEF ChatInv, Told, UnderWay
<1>5. events' \in Last
  <2>1. CASE events = <<>>
    BY <1>1, <2>1, Short DEF Last
  <2>2. CASE events = <<Named>>
    <3>1. events' = <<Named, Named, Event("result")>>
      BY <1>1, <2>2, Short
    <3> QED BY <3>1 DEF Last
  <2> QED BY <1>4, <2>1, <2>2
<1>6. Named' = Named /\ Last' = Last
  BY <1>2, SameLines
<1>7. TypeOK'
  <2>1. events' \in Seq(Lines)
    BY <1>5, Shapes DEF ChatInv
  <2> QED BY <1>2, <1>3, <2>1 DEF ChatInv, TypeOK, Runs, Lines, Sessions
<1>8. Told'
  BY <1>2, <1>3, <1>4, <1>5, <1>6 DEF Told, Untold, Closing
<1>9. Remembered'
  <2>1. events' # <<>> /\ (~chat.forked => Head(events') = Named)
    <3>1. CASE events = <<>>
      BY <1>1, <1>4, <3>1 DEF ChatInv, Remembered
    <3>2. CASE events = <<Named>>
      <4>1. events' = <<Named, Named, Event("result")>>
        BY <1>1, <3>2, Short
      <4> QED BY <4>1, Short
    <3> QED BY <1>4, <1>5, <3>1, <3>2, Shapes DEF ChatInv
  <2> QED BY <1>1, <1>2, <1>3, <1>6, <2>1 DEF ChatInv, Remembered, Session
<1>10. Forked'
  BY <1>2, <1>3 DEF ChatInv, Forked, Unheard, Session
<1> QED BY <1>3, <1>7, <1>8, <1>9, <1>10 DEF ChatInv

\* A run that went badly is over, with a last line or without one.
LEMMA FailsStep == ASSUME Bounds, ChatInv, Fails PROVE ChatInv'
<1>1. PICK lines \in {<<>>, <<Event("error")>>, <<Event("missing")>>} :
        /\ run.state = "running" /\ faults < MaxFaults
        /\ lines = <<Event("missing")>> => ~run.said
        /\ faults' = faults + 1
        /\ run' = [run EXCEPT !.state = "ended", !.code = "failed"]
        /\ events' = events \o lines
        /\ UNCHANGED <<draft, fork, chat, sends, history>>
  BY DEF Fails
<1>2. /\ run' \in Runs /\ run'.state = "ended" /\ run'.code = "failed"
      /\ run'.said = run.said /\ run'.session = run.session
  BY <1>1, Rest DEF ChatInv, Runs
<1>3. /\ draft' = draft /\ fork' = fork /\ chat' = chat /\ sends' = sends
      /\ forks' = forks /\ lost' = lost /\ replies' = replies /\ crossed' = crossed
  BY <1>1 DEF history
<1>4. chat.busy /\ Untold /\ events \in {<<>>, <<Named>>} /\ (events = <<Named>> => run.said)
  BY <1>1, Short DEF ChatInv, Told, UnderWay
<1>5. events = <<>> => events' = lines
  BY <1>1, Short
<1>6. events = <<Named>> => /\ events' = <<Named>> \/ events' = <<Named, Event("error")>>
                            /\ lines = <<>> => events' = <<Named>>
  <2>1. events = <<Named>> => lines # <<Event("missing")>>
    BY <1>1, <1>4
  <2>2. lines = <<>> \/ lines = <<Event("error")>> \/ lines = <<Event("missing")>>
    BY <1>1
  <2>3. CASE events = <<Named>> /\ lines = <<>>
    <3>1. events' = <<Named>>
      BY <1>1, <2>3, Short
    <3> QED BY <3>1
  <2>4. CASE events = <<Named>> /\ lines = <<Event("error")>>
    <3>1. events' = <<Named, Event("error")>>
      BY <1>1, <2>4, Short
    <3>2. lines # <<>>
      BY <2>4, Short
    <3> QED BY <3>1, <3>2
  <2> QED BY <2>1, <2>2, <2>3, <2>4
<1>7. events' \in Last \/ events' \in NoLast
  <2>1. CASE events = <<>>  BY <1>1, <1>5, <2>1 DEF Last, NoLast
  <2>2. CASE events = <<Named>>  BY <1>6, <2>2 DEF Last, NoLast
  <2> QED BY <1>4, <2>1, <2>2
<1>8. Named' = Named /\ Last' = Last /\ NoLast' = NoLast
  BY <1>2, SameLines
<1>9. TypeOK'
  <2>1. events' \in Seq(Lines)
    BY <1>7, Shapes DEF ChatInv
  <2>2. faults' \in 0..MaxFaults
    BY <1>1 DEF ChatInv, TypeOK, Bounds
  <2> QED BY <1>2, <1>3, <2>1, <2>2 DEF ChatInv, TypeOK, Runs, Lines, Sessions
<1>10. Told'
  BY <1>2, <1>3, <1>4, <1>7, <1>8 DEF Told, Untold, Closing
<1>11. Remembered'
  <2>1. run.said /\ ~chat.forked => events = <<Named>>
    BY <1>4 DEF ChatInv, Remembered
  <2>2. events = <<Named>> => events' # <<>> /\ Head(events') = Named
    BY <1>6, Short
  <2> QED BY <1>1, <1>2, <1>3, <1>8, <2>1, <2>2 DEF ChatInv, Remembered, Session
<1>12. Forked'
  BY <1>2, <1>3 DEF ChatInv, Forked, Unheard, Session
<1> QED BY <1>3, <1>9, <1>10, <1>11, <1>12 DEF ChatInv

\* The exit is put behind the lines, and the run is let go of.
LEMMA ReportStep == ASSUME Bounds, ChatInv, Report PROVE ChatInv'
<1> DEFINE exit == [Event("exit") EXCEPT !.code = run.code]
<1>1. /\ run.state = "ended" /\ run' = [run EXCEPT !.state = "none", !.held = FALSE]
      /\ events' = Append(events, exit)
      /\ UNCHANGED <<draft, fork, chat, bounds, history>>
  BY DEF Report
<1>2. /\ run' \in Runs /\ run'.state = "none" /\ run'.code = run.code
      /\ run'.said = run.said /\ run'.session = run.session
  BY <1>1, Rest DEF ChatInv, Runs
<1>3. /\ draft' = draft /\ fork' = fork /\ chat' = chat /\ sends' = sends
      /\ faults' = faults /\ forks' = forks /\ lost' = lost /\ replies' = replies /\ crossed' = crossed
  BY <1>1 DEF bounds, history
<1>4. chat.busy
  BY <1>1 DEF ChatInv, Told
<1>5. run.code \in {"none", "ok", "failed", "stopped"}
  BY Rest DEF ChatInv, Runs
<1>6. exit \in Lines
  BY <1>5, Made
<1> HIDE DEF exit
<1>7. /\ events' \in Seq(Lines)
      /\ events # <<>> => events' # <<>> /\ Head(events') = Head(events)
  BY <1>1, <1>6, Behind, Rest DEF ChatInv
<1>8. Named' = Named /\ Last' = Last /\ NoLast' = NoLast
  BY <1>2, SameLines
<1>9. exit = [Event("exit") EXCEPT !.code = run'.code]
  BY <1>2 DEF exit
<1>10. TypeOK'
  BY <1>2, <1>3, <1>7 DEF ChatInv, TypeOK, Runs, Lines, Sessions
<1>11. /\ events \in Last => events' \in Closing(Last)'
       /\ events \in NoLast => events' \in Closing(NoLast)'
  BY <1>1, <1>2, <1>8, <1>9 DEF Closing, Event
<1>12. Told'
  <2>1. \/ Untold /\ events \in Last
        \/ Untold /\ events \in NoLast /\ run.code # "ok"
        \/ replies = 1 /\ (chat.ended \/ chat.elsewhere) /\ events \in NoLast
    BY <1>1, <1>4 DEF ChatInv, Told, Closing
  <2> QED BY <1>2, <1>3, <1>4, <1>11, <2>1 DEF Told, Untold
<1>13. Remembered'
  BY <1>1, <1>2, <1>3, <1>7, <1>8 DEF ChatInv, Remembered, Session
<1>14. Forked'
  BY <1>2, <1>3 DEF ChatInv, Forked, Unheard, Session
<1> QED BY <1>3, <1>10, <1>12, <1>13, <1>14 DEF ChatInv

\* Another agent drafts: what is under way stays of the draft it was begun for, and
\* the agent has no fork yet.
LEMMA RedraftStep == ASSUME Bounds, ChatInv, Redraft PROVE ChatInv'
<1>1. /\ draft' = draft + 1 /\ draft < MaxDrafts /\ fork' = fork /\ chat' = chat /\ run' = run
      /\ events' = events /\ sends' = sends /\ faults' = faults
      /\ forks' = forks /\ lost' = lost /\ replies' = replies /\ crossed' = crossed
  BY DEF Redraft, bounds, history
<1>2. draft \in 1..MaxDrafts /\ chat.draft \in 1..MaxDrafts
  BY Rest DEF ChatInv, Agent
<1>3. draft' \in Agent
  BY <1>1, <1>2, Bounds DEF Agent, Bounds
<1>4. TypeOK'
  BY <1>1, <1>3 DEF ChatInv, TypeOK, Sessions
<1>5. Named' = Named /\ Last' = Last /\ NoLast' = NoLast
  BY <1>1, SameLines
<1>6. Told'
  BY <1>1, <1>5 DEF ChatInv, Told, Untold, UnderWay, Closing, Event
<1>7. Remembered'
  <2>1. chat.draft <= draft'
    BY <1>1, <1>2, Bounds DEF ChatInv, Remembered, Bounds
  <2> QED BY <1>1, <1>5, <2>1 DEF ChatInv, Remembered, Session, NoSession
<1>8. Forked'
  BY <1>1 DEF ChatInv, Forked, Unheard, Session
<1> QED BY <1>1, <1>4, <1>6, <1>7, <1>8 DEF ChatInv

\* A name that was on its way when the app was closed was of a fork.
LEMMA QuitStep == ASSUME Bounds, ChatInv, Quit PROVE ChatInv'
<1> DEFINE a == run.session.agent
           missed == chat.busy /\ run.said /\ ~chat.forked
<1>1. /\ faults < MaxFaults /\ faults' = faults + 1 /\ events' = <<>> /\ replies' = 1
      /\ draft' = draft /\ fork' = fork /\ sends' = sends /\ forks' = forks /\ crossed' = crossed
  BY DEF Quit
<1>2. lost' = IF missed THEN [lost EXCEPT ![a] = @ + 1] ELSE lost
  BY DEF Quit
<1>3. /\ run' \in Runs /\ run'.state = "none"
      /\ chat' \in Chatting /\ ~chat'.busy /\ chat'.draft = chat.draft
  BY Rest DEF ChatInv, Quit, Runs, Chatting
<1>4. missed => a = chat.draft /\ a \in Agent /\ lost[a] < forks[a] /\ forks[a] <= 1 + lost[a]
  BY Rest DEF ChatInv, Remembered, Forked, Unheard
<1>5. \A b \in Agent : Unheard(b) <=> missed /\ b = a
  BY <1>4 DEF Unheard
<1> HIDE DEF missed
<1>6. /\ MaxSends \in Nat
      /\ \A b \in Agent : forks[b] \in 0..MaxSends /\ lost[b] \in 0..MaxSends
      /\ lost \in [Agent -> 0..MaxSends]
  BY DEF ChatInv, TypeOK, Bounds
<1>7. /\ \A b \in Agent : lost'[b] = IF missed /\ b = a THEN lost[b] + 1 ELSE lost[b]
      /\ lost' \in [Agent -> 0..MaxSends]
  <2>1. CASE missed
    BY <1>2, <1>4, <1>6, <2>1
  <2>2. CASE ~missed
    BY <1>2, <1>6, <2>2
  <2> QED BY <2>1, <2>2
<1>8. TypeOK'
  <2>1. events' \in Seq(Lines) /\ faults' \in 0..MaxFaults /\ replies' \in Nat
    BY <1>1 DEF ChatInv, TypeOK, Bounds
  <2> QED BY <1>1, <1>3, <1>7, <2>1 DEF ChatInv, TypeOK, Chatting, Runs, Lines, Sessions
<1>9. ~crossed' /\ Told'
  BY <1>1, <1>3 DEF ChatInv, Told
<1>10. Remembered'
  BY <1>1, <1>3 DEF ChatInv, Remembered
<1>11. Forked'
  <2>1. \A b \in Agent : ~Unheard(b)'
    BY <1>3 DEF Unheard
  <2>2. ASSUME NEW b \in Agent
        PROVE  /\ forks'[b] <= 1 + lost'[b]
               /\ b >= chat'.draft /\ fork'.from # Session(b, 0) => forks'[b] <= lost'[b]
               /\ forks'[b] <= sends' /\ lost'[b] <= forks'[b]
    <3>1. /\ forks[b] <= 1 + lost[b] /\ forks[b] <= sends /\ lost[b] <= forks[b]
          /\ b >= chat.draft /\ fork.from # Session(b, 0) /\ ~Unheard(b) => forks[b] <= lost[b]
      BY DEF ChatInv, Forked
    <3>2. CASE missed /\ b = a
      BY <1>1, <1>4, <1>6, <1>7, <3>1, <3>2
    <3>3. CASE ~(missed /\ b = a)
      BY <1>1, <1>3, <1>5, <1>6, <1>7, <3>1, <3>3
    <3> QED BY <3>2, <3>3
  <2> QED BY <1>3, <2>1, <2>2 DEF Forked, Session
<1> QED BY <1>8, <1>9, <1>10, <1>11 DEF ChatInv

-------------------------------------------------------------------------------
(* What the page hears.                                                      *)

\* The line at the head of the channel is of the run there is, and what is
\* behind it is again of one of the shapes.
LEMMA Heard ==
  ASSUME Bounds, ChatInv, events # <<>>
  PROVE  /\ chat.busy /\ run.state # "starting" /\ Tail(events) \in Seq(Lines)
         /\ \/ Head(events) = Named
            \/ Head(events) \in Ends
            \/ /\ Head(events) = [Event("exit") EXCEPT !.code = run.code]
               /\ run.state = "none" /\ Tail(events) = <<>>
               /\ \/ Untold /\ run.code # "ok"
                  \/ replies = 1 /\ (chat.ended \/ chat.elsewhere)
         /\ run.state = "running" => Untold /\ Head(events) = Named /\ Tail(events) = <<>>
         /\ run.state \in {"ended", "none"} /\ Head(events) \in Ends =>
              Untold /\ Tail(events) \in Closing(NoLast)
         /\ run.state \in {"ended", "none"} /\ Head(events) = Named =>
              \/ Untold /\ Tail(events) \in Closing(Last)
              \/ Untold /\ Tail(events) \in Closing(NoLast) /\ run.code # "ok"
              \/ replies = 1 /\ (chat.ended \/ chat.elsewhere) /\ Tail(events) \in Closing(NoLast)
<1> DEFINE exit == [Event("exit") EXCEPT !.code = run.code]
<1>1. chat.busy
  BY DEF ChatInv, Told
<1>2. run.state # "starting"
  BY <1>1 DEF ChatInv, Told, UnderWay, Remembered
<1>3. run.state \in {"running", "ended", "none"}
  BY <1>2, Rest DEF ChatInv, Runs
<1>4. Tail(events) \in Seq(Lines)
  BY Rest DEF ChatInv
<1>5. /\ Named \in Lines /\ Named.kind = "session"
      /\ \A e \in Ends : e \in Lines /\ e.kind \in {"error", "missing", "result"}
      /\ Last \subseteq Seq(Lines) /\ NoLast \subseteq Seq(Lines)
      /\ \A l \in Last : /\ l # <<>>
                          /\ \/ Head(l) \in Ends /\ Tail(l) = <<>>
                             \/ Head(l) = Named /\ Tail(l) \in Last
      /\ \A l \in NoLast : l # <<>> => Head(l) = Named /\ Tail(l) = <<>>
  BY Shapes DEF ChatInv
<1>6. exit \in Lines /\ exit.kind = "exit"
  BY Made, Rest DEF ChatInv, Runs
<1>7. <<>> \in NoLast
  BY DEF NoLast
<1>8. CASE run.state = "running"
  <2>1. Untold /\ events = <<Named>>
    BY <1>1, <1>8 DEF ChatInv, Told, UnderWay
  <2> QED BY <1>1, <1>4, <1>8, <2>1, Short
<1>9. CASE run.state \in {"ended", "none"}
  <2> DEFINE After(l) == IF run.state = "none" THEN Append(l, exit) ELSE l
  <2>1. ASSUME NEW L PROVE Closing(L) = {After(l) : l \in L}
    BY DEF Closing
  <2> HIDE DEF exit
  <2>2. ASSUME NEW l \in Seq(Lines), l # <<>>
        PROVE  Head(After(l)) = Head(l) /\ Tail(After(l)) = After(Tail(l))
    <3>1. Head(Append(l, exit)) = Head(l) /\ Tail(Append(l, exit)) = Append(Tail(l), exit)
      BY <1>6, <2>2, Behind
    <3> QED BY <3>1
  <2>3. run.state = "none" => Head(After(<<>>)) = exit /\ Tail(After(<<>>)) = <<>>
    BY <1>6, Short
  <2>4. run.state # "none" => After(<<>>) = <<>>
    OBVIOUS
  <2> HIDE DEF After
  <2>5. CASE Untold /\ events \in Closing(Last)
    <3>1. PICK l \in Last : events = After(l)
      BY <2>1, <2>5
    <3>2. Head(events) = Head(l) /\ Tail(events) = After(Tail(l))
      BY <1>5, <2>2, <3>1
    <3>3. CASE Head(l) \in Ends /\ Tail(l) = <<>>
      <4>1. Tail(events) \in Closing(NoLast) /\ Head(events) # Named /\ Head(events) \in Ends
        BY <1>5, <1>7, <2>1, <3>2, <3>3
      <4> QED BY <1>1, <1>4, <1>9, <2>5, <4>1
    <3>4. CASE Head(l) = Named /\ Tail(l) \in Last
      <4>1. Tail(events) \in Closing(Last) /\ Head(events) = Named /\ Head(events) \notin Ends
        BY <1>5, <2>1, <3>2, <3>4
      <4> QED BY <1>1, <1>4, <1>9, <2>5, <4>1
    <3> QED BY <1>5, <3>3, <3>4
  <2>6. CASE /\ events \in Closing(NoLast)
             /\ \/ Untold /\ run.code # "ok"
                \/ replies = 1 /\ (chat.ended \/ chat.elsewhere)
    <3>1. PICK l \in NoLast : events = After(l)
      BY <2>1, <2>6
    <3>2. CASE l = <<>>
      <4>1. run.state = "none" /\ Head(events) = exit /\ Tail(events) = <<>>
        BY <2>3, <2>4, <3>1, <3>2
      <4>2. Head(events) # Named /\ Head(events) \notin Ends
        BY <1>5, <1>6, <4>1
      <4> QED BY <1>1, <1>4, <2>6, <4>1, <4>2 DEF exit
    <3>3. CASE l # <<>>
      <4>1. Head(events) = Named /\ Tail(events) \in Closing(NoLast) /\ Head(events) \notin Ends
        <5>1. Head(l) = Named /\ Tail(l) = <<>> /\ l \in Seq(Lines)
          BY <1>5, <3>3
        <5>2. Head(events) = Named /\ Tail(events) = After(<<>>)
          BY <2>2, <3>1, <3>3, <5>1
        <5> QED BY <1>5, <1>7, <2>1, <5>2
      <4> QED BY <1>1, <1>4, <1>9, <2>6, <4>1
    <3> QED BY <3>2, <3>3
  <2> QED BY <1>1, <1>9, <2>5, <2>6 DEF ChatInv, Told
<1> QED BY <1>3, <1>8, <1>9

\* A line that is heard: a name is remembered as its fork, a last line tells the
\* reader, and no other follows it.
LEMMA LineStep == ASSUME Bounds, ChatInv, Line PROVE ChatInv'
<1> DEFINE e == Head(events)
           new == e.kind = "session" /\ ~chat.forked /\ e.id # ForkedFrom
<1>1. /\ events # <<>> /\ e.kind # "exit" /\ events' = Tail(events)
      /\ fork' = IF new THEN [from |-> ForkedFrom, session |-> e.id] ELSE fork
      /\ chat' = [chat EXCEPT !.forked = @ \/ new,
                              !.elsewhere = @ \/ e.kind = "missing",
                              !.ended = @ \/ e.kind \in {"result", "error"}]
      /\ replies' = replies + (IF e.kind = "session" THEN 0 ELSE 1)
      /\ draft' = draft /\ run' = run /\ sends' = sends /\ faults' = faults
      /\ forks' = forks /\ lost' = lost /\ crossed' = crossed
  BY DEF Line
<1>2. /\ chat.busy /\ run.state # "starting" /\ events' \in Seq(Lines)
      /\ \/ e = Named
         \/ e \in Ends
  <2>1. run.code \in {"none", "ok", "failed", "stopped"}
    BY Rest DEF ChatInv, Runs
  <2>2. [Event("exit") EXCEPT !.code = run.code].kind = "exit"
    BY <2>1, Made
  <2> QED BY <1>1, <2>2, Heard
<1>3. /\ Named.kind = "session" /\ Named.id = run.session
      /\ \A x \in Ends : x.kind \in {"error", "missing", "result"}
  BY Shapes DEF ChatInv
<1>4. e = Named <=> e.kind = "session"
  BY <1>2, <1>3
<1>5. /\ chat' \in Chatting /\ chat'.busy = chat.busy /\ chat'.draft = chat.draft
      /\ chat'.forked <=> chat.forked \/ new
      /\ chat'.elsewhere <=> chat.elsewhere \/ e.kind = "missing"
      /\ chat'.ended <=> chat.ended \/ e.kind \in {"result", "error"}
  <2>1. new \in BOOLEAN
    BY Zenon
  <2> HIDE DEF new
  <2> QED BY <1>1, <2>1, Rest DEF ChatInv, Chatting
<1>6. chat.draft \in Agent /\ ForkedFrom \in Sessions /\ ForkedFrom.agent = chat.draft /\ ForkedFrom.n = 0
  <2>1. chat.draft \in 0..MaxDrafts /\ 0 \in 0..MaxSends /\ chat.draft \in Agent
    BY Rest DEF ChatInv, Agent, Bounds
  <2> QED BY <2>1, Made DEF ForkedFrom
\* The fork is heard of when its name is said, by an agent that was not forked.
<1>7. run.session \in Sessions /\ run.session.agent = chat.draft
  BY <1>2, Rest DEF ChatInv, Remembered
<1>8. new => run.said /\ e = Named /\ e.id = run.session /\ run.session.n > 0
  <2>1. run.session.n = 0 => run.session = ForkedFrom
    BY <1>7, Made DEF ForkedFrom
  <2> QED BY <1>2, <1>3, <1>4, <2>1 DEF ChatInv, Remembered
<1>9. run.said /\ ~chat.forked => new
  <2>1. run.said /\ ~chat.forked => e = Named /\ run.session.n > 0
    BY <1>2 DEF ChatInv, Remembered
  <2> QED BY <1>3, <1>6, <2>1
<1> HIDE DEF new
<1>10. \/ ~new /\ fork' = fork
       \/ /\ new /\ fork' = [from |-> ForkedFrom, session |-> run.session]
          /\ fork'.from = ForkedFrom /\ fork'.session = run.session
  BY <1>1, <1>8
<1>11. TypeOK'
  <2>1. fork' \in [from : Sessions, session : Sessions]
    BY <1>6, <1>7, <1>10, Rest DEF ChatInv
  <2>2. replies' \in Nat
    BY <1>1 DEF ChatInv, TypeOK
  <2> QED BY <1>1, <1>2, <1>5, <2>1, <2>2 DEF ChatInv, TypeOK, Chatting, Runs, Lines, Sessions
<1>12. Named' = Named /\ Last' = Last /\ NoLast' = NoLast
  BY <1>1, SameLines
<1>13. Told'
  <2>1. Closing(Last)' = Closing(Last) /\ Closing(NoLast)' = Closing(NoLast)
    BY <1>1, <1>12 DEF Closing, Event
  <2>2. e = Named => /\ replies' = replies /\ chat'.ended = chat.ended /\ chat'.elsewhere = chat.elsewhere
    BY <1>1, <1>3, <1>5, Rest DEF ChatInv, TypeOK, Chatting
  <2>3. e \in Ends => replies' = replies + 1 /\ (chat'.ended \/ chat'.elsewhere)
    BY <1>1, <1>3, <1>5
  <2>4. CASE run.state = "running"
    <3>1. Untold /\ e = Named /\ events' = <<>>
      BY <1>1, <2>4, Heard
    <3>2. Untold'
      BY <2>2, <3>1 DEF Untold
    <3> QED BY <1>1, <1>2, <1>5, <2>4, <3>1, <3>2 DEF Told, UnderWay
  <2>5. CASE run.state \in {"ended", "none"} /\ e \in Ends
    <3>1. Untold /\ events' \in Closing(NoLast)
      BY <1>1, <2>5, Heard
    <3>2. replies' = 1 /\ (chat'.ended \/ chat'.elsewhere)
      BY <2>3, <2>5, <3>1 DEF Untold
    <3> QED BY <1>1, <1>2, <1>5, <2>1, <2>5, <3>1, <3>2 DEF Told
  <2>6. CASE run.state \in {"ended", "none"} /\ e = Named
    <3>1. \/ Untold /\ events' \in Closing(Last)
          \/ Untold /\ events' \in Closing(NoLast) /\ run.code # "ok"
          \/ replies = 1 /\ (chat.ended \/ chat.elsewhere) /\ events' \in Closing(NoLast)
      BY <1>1, <2>6, Heard
    <3>2. Untold => Untold'
      BY <2>2, <2>6 DEF Untold
    <3> QED BY <1>1, <1>2, <1>5, <2>1, <2>2, <2>6, <3>1, <3>2 DEF Told
  <2> QED BY <1>2, <2>4, <2>5, <2>6, Rest DEF ChatInv, Runs
<1>14. Remembered'
  <2>1. fork.from \in Sessions /\ fork.session \in Sessions
    BY Rest DEF ChatInv
  <2>2. /\ fork'.from.n = 0 /\ fork'.session.agent = fork'.from.agent
        /\ fork'.from.agent <= chat.draft
        /\ fork'.session = NoSession \/ fork'.session.n > 0
    <3>1. CASE ~new
      BY <1>10, <3>1 DEF ChatInv, Remembered
    <3>2. CASE new
      <4>1. chat.draft <= chat.draft
        BY <1>6 DEF Agent
      <4> QED BY <1>6, <1>7, <1>8, <1>10, <3>2, <4>1
    <3> QED BY <3>1, <3>2
  <2>3. run.said => chat'.forked
    BY <1>5, <1>9
  <2>4. chat'.forked \/ ~new
    BY <1>5
  <2>5. ~chat'.forked => fork' = fork /\ ~chat.forked
    BY <1>5, <1>10
  <2>6. ~run.said => (chat'.forked <=> chat.forked)
    BY <1>5, <1>8
  <2>7. chat'.draft = chat.draft /\ run' = run /\ draft' = draft /\ chat.busy /\ chat'.busy
    BY <1>1, <1>2, <1>5
  <2> QED BY <2>2, <2>3, <2>5, <2>6, <2>7, <1>2 DEF ChatInv, Remembered, Session, NoSession
<1>15. Forked'
  <2>1. \A a \in Agent : ~Unheard(a)'
    BY <1>1, <1>5, <1>9 DEF Unheard
  <2>2. chat.draft \in 1..MaxDrafts /\ fork.from.agent <= chat.draft /\ fork.from.agent \in 0..MaxDrafts
    BY <1>6, Rest, Made DEF ChatInv, Remembered, Agent
  <2>3. ASSUME NEW a \in Agent
        PROVE  /\ forks[a] <= 1 + lost[a]
               /\ a >= chat.draft /\ fork'.from # Session(a, 0) => forks[a] <= lost[a]
               /\ forks[a] <= sends /\ (chat.busy /\ ~run.said => forks[a] < sends)
               /\ lost[a] <= forks[a]
    <3>1. Session(a, 0).agent = a /\ a \in Nat
      <4>1. a \in 0..MaxDrafts /\ 0 \in 0..MaxSends
        BY DEF Agent, Bounds
      <4> QED BY <4>1, Made
    <3>2. CASE ~new
      <4>1. ~Unheard(a)
        BY <1>9, <3>2 DEF Unheard
      <4> QED BY <1>10, <3>2, <4>1 DEF ChatInv, Forked
    <3>3. CASE new
      <4>1. a # chat.draft => ~Unheard(a)
        BY DEF Unheard
      <4>2. a = chat.draft => fork'.from = Session(a, 0)
        BY <1>10, <3>3 DEF ForkedFrom
      <4>3. a > chat.draft => fork.from # Session(a, 0)
        BY <2>2, <3>1
      <4>4. a >= chat.draft /\ a # chat.draft => a > chat.draft
        BY <2>2, <3>1
      <4> QED BY <4>1, <4>2, <4>3, <4>4 DEF ChatInv, Forked
    <3> QED BY <3>2, <3>3
  <2> QED BY <1>1, <1>5, <2>1, <2>3 DEF Forked, Session
<1> QED BY <1>1, <1>11, <1>13, <1>14, <1>15 DEF ChatInv

\* The exit tells the reader what no line told, and the page is free.
LEMMA ExitStep == ASSUME Bounds, ChatInv, Exit PROVE ChatInv'
<1>1. /\ events # <<>> /\ Head(events).kind = "exit" /\ events' = Tail(events)
      /\ chat' = [chat EXCEPT !.busy = FALSE]
      /\ replies' = replies + (IF ExitTells(Head(events).code) THEN 1 ELSE 0)
      /\ draft' = draft /\ fork' = fork /\ run' = run /\ sends' = sends /\ faults' = faults
      /\ forks' = forks /\ lost' = lost /\ crossed' = crossed
  BY DEF Exit, Over
<1>2. /\ Named.kind = "session" /\ \A x \in Ends : x.kind \in {"error", "missing", "result"}
  BY Shapes DEF ChatInv
<1>3. /\ chat.busy /\ run.state = "none" /\ events' = <<>> /\ events' \in Seq(Lines)
      /\ Head(events) = [Event("exit") EXCEPT !.code = run.code]
      /\ \/ Untold /\ run.code # "ok"
         \/ replies = 1 /\ (chat.ended \/ chat.elsewhere)
  BY <1>1, <1>2, Heard
<1>4. Head(events).code = run.code
  <2>1. run.code \in {"none", "ok", "failed", "stopped"}
    BY Rest DEF ChatInv, Runs
  <2>2. [Event("exit") EXCEPT !.code = run.code].code = run.code
    BY <2>1, Made
  <2> QED BY <1>3, <2>2, Zenon
<1>5. chat' \in Chatting /\ ~chat'.busy /\ chat'.draft = chat.draft
  BY <1>1, Rest DEF ChatInv, Chatting
<1>6. replies' = 1
  BY <1>1, <1>3, <1>4 DEF ExitTells, Untold
<1>7. TypeOK'
  <2>1. replies' \in Nat
    BY <1>6
  <2> QED BY <1>1, <1>3, <1>5, <2>1 DEF ChatInv, TypeOK, Chatting, Runs, Lines, Sessions
<1>8. Told'
  BY <1>1, <1>3, <1>5, <1>6 DEF Told
<1>9. Remembered'
  BY <1>1, <1>5 DEF ChatInv, Remembered, NoSession, Session
<1>10. Forked'
  <2>1. \A a \in Agent : ~Unheard(a) /\ ~Unheard(a)'
    BY <1>1, <1>2, <1>5 DEF ChatInv, Remembered, Unheard
  <2> QED BY <1>1, <1>5, <2>1 DEF ChatInv, Forked, Session
<1> QED BY <1>1, <1>7, <1>8, <1>9, <1>10 DEF ChatInv

-------------------------------------------------------------------------------
(* The chat.                                                                 *)

\* Every step keeps it.
LEMMA ChatInvStep == ASSUME Bounds, ChatInv, Next PROVE ChatInv'
BY SendStep, RefusedStep, LineStep, ExitStep, CancelStep, SpawnStep, SaySessionStep, ResultStep,
   FailsStep, ReportStep, RedraftStep, QuitStep, Zenon DEF Next

\* So does a step of something else.
LEMMA ChatInvStutter == ASSUME ChatInv, UNCHANGED vars PROVE ChatInv'
<1>1. /\ draft' = draft /\ fork' = fork /\ chat' = chat /\ run' = run /\ events' = events
      /\ sends' = sends /\ faults' = faults
      /\ forks' = forks /\ lost' = lost /\ replies' = replies /\ crossed' = crossed
  BY DEF vars, bounds, history
<1>2. Named' = Named /\ Last' = Last /\ NoLast' = NoLast
  BY <1>1, SameLines
<1>3. TypeOK'
  BY <1>1 DEF ChatInv, TypeOK, Sessions
<1>4. Told'
  BY <1>1, <1>2 DEF ChatInv, Told, Untold, UnderWay, Closing, Event
<1>5. Remembered'
  BY <1>1, <1>2 DEF ChatInv, Remembered, Session, NoSession
<1>6. Forked'
  BY <1>1 DEF ChatInv, Forked, Unheard, Session
<1> QED BY <1>1, <1>3, <1>4, <1>5, <1>6 DEF ChatInv

\* What it says of the two properties.
LEMMA ChatInvMeans == ASSUME ChatInv PROVE OneForkOfItsAgent /\ ToldOnce
BY DEF ChatInv, OneForkOfItsAgent, Forked, ToldOnce, Told

\* A message goes to a session of the agent whose draft is on screen, its
\* session is forked once but for names the app was closed over, and a run that
\* is over has told the reader how it ended, once.
THEOREM AgentIsHeardOnce == ASSUME Bounds PROVE Spec => [](OneForkOfItsAgent /\ ToldOnce)
<1>1. Init => ChatInv
  BY ChatInvInit
<1>2. ChatInv /\ [Next]_vars => ChatInv'
  BY ChatInvStep, ChatInvStutter
<1>3. ChatInv => OneForkOfItsAgent /\ ToldOnce
  BY ChatInvMeans
<1> QED BY <1>1, <1>2, <1>3, PTL DEF Spec
-----------------------------------------------------------------------------
(* A folder many read through (Clones): how far it is, and whose.            *)

Steps == {"init", "remote", "fetch", "ref", "files", "head"}
Pcs == Steps \cup {"idle", "look", "root", "open", "pull", "work"}
Working == [used : {TRUE}, of : Source, opened : BOOLEAN, pc : Pcs,
            what : {"none", "list", "poll", "read", "write"}]

FolderTypes ==
  /\ browser \in BOOLEAN /\ cut \in BOOLEAN /\ taken \in BOOLEAN /\ left \in BOOLEAN
  /\ source \in [Source -> {"new", "on", "leaving", "gone"}]
  /\ disk \in [stage : F!Stage, stray : BOOLEAN]
  /\ reader \in [Reader -> Working \cup {F!Unused}]

Busy(r) == reader[r].used /\ reader[r].pc # "idle"
Cloning(r) == reader[r].used /\ reader[r].pc \in Steps
Parted(s) == source[s] \in {"leaving", "gone"}

\* Where a reader that has opened is, and in which way one opens.
Ways ==
  \A r \in Reader : reader[r].used =>
    /\ reader[r].pc \in {"pull", "work"} => reader[r].opened
    /\ reader[r].pc \in Steps \cup {"look"} => browser /\ ~reader[r].opened
    /\ reader[r].pc \in {"root", "open"} => ~browser

\* What a clone has made before the step it is at.
Before(pc) ==
  CASE pc = "init" -> "none" [] pc = "remote" -> "made" [] pc = "fetch" -> "named"
    [] pc = "ref" -> "fetched" [] pc = "files" -> "branched" [] OTHER -> "filled"

\* While no clone was cut and none taken from under anyone, one reader makes it at
\* a time and stands before what it made, and who has opened has all of it.
OneMakes ==
  ~cut /\ ~taken =>
    /\ ~disk.stray
    /\ \A r \in Reader : Cloning(r) => disk.stage = Before(reader[r].pc)
    /\ \A r, o \in Reader : Cloning(r) /\ Cloning(o) => r = o
    /\ browser => disk.stage \in {"none", "whole"} \/ \E r \in Reader : Cloning(r)
    /\ \A r \in Reader : reader[r].used /\ reader[r].opened =>
         disk.stage = "whole" \/ (reader[r].pc = "idle" /\ Parted(reader[r].of))

\* Nobody is at work on what is being taken away, and a folder is somebody's.
Owned ==
  ~taken /\ ~left =>
    /\ \A r \in Reader : Busy(r) => ~Parted(reader[r].of)
    /\ disk # F!Nowhere =>
         \/ \E s \in Source : source[s] = "on"
         \/ \E r \in Reader : reader[r].used /\ source[reader[r].of] = "new"

FolderInv == FolderTypes /\ Ways /\ OneMakes /\ Owned /\ F!AnswersAreWhole

\* The stages, in order, and the steps that lead from each to the next.
LEMMA StageIs ==
  /\ F!Stage = {"none", "dir", "scraps", "made", "named", "fetched", "branched", "filled", "whole"}
  /\ DOMAIN F!Made = 1..6 /\ DOMAIN F!Step = 1..6 /\ Len(F!Step) = 6
  /\ F!Made[1] = "made" /\ F!Made[2] = "named" /\ F!Made[3] = "fetched" /\ F!Made[4] = "branched"
  /\ F!Made[5] = "filled" /\ F!Made[6] = "whole"
  /\ F!Step[1] = "init" /\ F!Step[2] = "remote" /\ F!Step[3] = "fetch" /\ F!Step[4] = "ref"
  /\ F!Step[5] = "files" /\ F!Step[6] = "head"
<1>1. DOMAIN F!Made = 1..6 /\ DOMAIN F!Step = 1..6 /\ Len(F!Step) = 6
  BY DEF F!Made, F!Step
<1>2. /\ F!Made[1] = "made" /\ F!Made[2] = "named" /\ F!Made[3] = "fetched" /\ F!Made[4] = "branched"
      /\ F!Made[5] = "filled" /\ F!Made[6] = "whole"
  BY DEF F!Made
<1>3. /\ F!Step[1] = "init" /\ F!Step[2] = "remote" /\ F!Step[3] = "fetch" /\ F!Step[4] = "ref"
      /\ F!Step[5] = "files" /\ F!Step[6] = "head"
  BY DEF F!Step
<1>4. 1..6 = {1, 2, 3, 4, 5, 6}
  OBVIOUS
<1> QED BY <1>1, <1>2, <1>3, <1>4 DEF F!Stage

LEMMA RankIs ==
  /\ F!Rank("none") = 0 /\ F!Rank("dir") = 0 /\ F!Rank("scraps") = 0
  /\ F!Rank("made") = 1 /\ F!Rank("named") = 2 /\ F!Rank("fetched") = 3
  /\ F!Rank("branched") = 4 /\ F!Rank("filled") = 5 /\ F!Rank("whole") = 6
<1>4. 1..6 = {1, 2, 3, 4, 5, 6}
  OBVIOUS
<1> QED BY StageIs, <1>4 DEF F!Rank

LEMMA CloningIs == \A r : Cloning(r) <=> \E n \in DOMAIN F!Step : F!Is(r, F!Step[n])
<1>4. 1..6 = {1, 2, 3, 4, 5, 6}
  OBVIOUS
<1> QED BY StageIs, <1>4 DEF Cloning, Steps, F!Is

LEMMA MakingIs == F!Making = {r \in Reader : Cloning(r)}
<1>4. 1..6 = {1, 2, 3, 4, 5, 6}
  OBVIOUS
<1>1. \A r \in F!Used : (\E n \in DOMAIN F!Step : reader[r].pc = F!Step[n]) <=> reader[r].pc \in Steps
  BY StageIs, <1>4 DEF Steps
<1> QED BY <1>1 DEF F!Making, F!Used, Cloning
LEMMA FolderInit == F!Init => FolderInv
<1> SUFFICES ASSUME F!Init PROVE FolderInv
  OBVIOUS
<1>1. \A r \in Reader : reader[r] = F!Unused /\ ~reader[r].used
  BY DEF F!Init, F!Unused
<1>2. FolderTypes
  BY StageIs, <1>1 DEF F!Init, FolderTypes, F!Nowhere
<1>3. disk.stage = "none" /\ ~disk.stray /\ told.what = "none" /\ disk = F!Nowhere
  BY DEF F!Init, F!Nowhere, F!Silence
<1> QED BY <1>1, <1>2, <1>3 DEF FolderInv, Ways, OneMakes, Owned, F!AnswersAreWhole, Cloning, Busy

LEMMA FolderStutter == FolderInv /\ UNCHANGED F!vars => FolderInv'
<1> SUFFICES ASSUME FolderInv, UNCHANGED F!vars PROVE FolderInv'
  OBVIOUS
<1>1. UNCHANGED <<browser, source, disk, online, reader, told, cut, taken, left>>
  BY DEF F!vars, F!history
<1>2. FolderTypes' /\ Ways' /\ F!AnswersAreWhole'
  BY <1>1 DEF FolderInv, FolderTypes, Ways, F!AnswersAreWhole
<1>3. OneMakes'
  BY <1>1 DEF FolderInv, OneMakes, Cloning, Parted
<1>4. Owned'
  BY <1>1 DEF FolderInv, Owned, Busy, Parted
<1> QED BY <1>2, <1>3, <1>4 DEF FolderInv

\* What a reader becomes is one again, and the others stay as they are.
LEMMA ReaderBecomes ==
  ASSUME FolderTypes, NEW r \in Reader, NEW to \in Working \cup {F!Unused}, F!Becomes(r, to)
  PROVE  /\ reader' \in [Reader -> Working \cup {F!Unused}]
         /\ reader'[r] = to /\ \A o \in Reader \ {r} : reader'[o] = reader[o]
BY DEF FolderTypes, F!Becomes

LEMMA UsedIs ==
  ASSUME FolderTypes, NEW r \in Reader
  PROVE  /\ reader[r].used => reader[r] \in Working
         /\ ~reader[r].used => reader[r] = F!Unused
<1>1. reader[r] \in Working \/ reader[r] = F!Unused
  BY DEF FolderTypes
<1>2. reader[r] \in Working => reader[r].used = TRUE
  BY DEF Working
<1>3. reader[r] = F!Unused => reader[r].used = FALSE
  BY DEF F!Unused
<1> QED BY <1>1, <1>2, <1>3

LEMMA MovesTo ==
  ASSUME FolderTypes, NEW r \in Reader, reader[r].used, NEW pc \in Pcs
  PROVE  /\ reader[r].pc \in Pcs /\ reader[r].of \in Source /\ reader[r].opened \in BOOLEAN
         /\ F!Go(r, pc) => /\ reader' \in [Reader -> Working \cup {F!Unused}]
                           /\ reader'[r].used /\ reader'[r].pc = pc /\ reader'[r].of = reader[r].of
                           /\ reader'[r].opened = reader[r].opened
                           /\ \A o \in Reader \ {r} : reader'[o] = reader[o]
<1>1. reader[r] \in Working
  BY UsedIs
<1>2. [reader[r] EXCEPT !.pc = pc] \in Working
  BY <1>1 DEF Working
<1>3. F!Go(r, pc) => /\ reader' \in [Reader -> Working \cup {F!Unused}]
                  /\ reader'[r] = [reader[r] EXCEPT !.pc = pc]
                  /\ \A o \in Reader \ {r} : reader'[o] = reader[o]
  BY <1>2, ReaderBecomes DEF F!Go
<1> QED BY <1>1, <1>3 DEF Working

LEMMA RestsIs ==
  ASSUME FolderTypes, NEW r \in Reader, reader[r].used, F!Rests(r)
  PROVE  /\ reader' \in [Reader -> Working \cup {F!Unused}]
         /\ reader'[r].used /\ reader'[r].pc = "idle" /\ reader'[r].of = reader[r].of
         /\ reader'[r].opened = reader[r].opened
         /\ \A o \in Reader \ {r} : reader'[o] = reader[o]
<1>1. reader[r] \in Working
  BY UsedIs
<1>2. [reader[r] EXCEPT !.pc = "idle", !.what = "none"] \in Working
  BY <1>1 DEF Working, Pcs
<1>3. /\ reader' \in [Reader -> Working \cup {F!Unused}]
      /\ reader'[r] = [reader[r] EXCEPT !.pc = "idle", !.what = "none"]
      /\ \A o \in Reader \ {r} : reader'[o] = reader[o]
  BY <1>2, ReaderBecomes DEF F!Rests
<1> QED BY <1>1, <1>3 DEF Working

LEMMA OpenedIs ==
  ASSUME FolderTypes, NEW r \in Reader, reader[r].used, F!Opened(r)
  PROVE  /\ reader' \in [Reader -> Working \cup {F!Unused}]
         /\ reader'[r].used /\ reader'[r].pc \in {"pull", "work"} /\ reader'[r].of = reader[r].of
         /\ reader'[r].opened
         /\ \A o \in Reader \ {r} : reader'[o] = reader[o]
<1>1. reader[r] \in Working
  BY UsedIs
<1> DEFINE pc == F!Begins(reader[r].what)
<1>4. pc \in {"pull", "work"}
  BY DEF F!Begins
<1>5. F!Becomes(r, [reader[r] EXCEPT !.opened = TRUE, !.pc = pc])
  BY DEF F!Opened
<1> HIDE DEF pc
<1>2. [reader[r] EXCEPT !.opened = TRUE, !.pc = pc] \in Working
  BY <1>1, <1>4 DEF Working, Pcs
<1>3. /\ reader' \in [Reader -> Working \cup {F!Unused}]
      /\ reader'[r] = [reader[r] EXCEPT !.opened = TRUE, !.pc = pc]
      /\ \A o \in Reader \ {r} : reader'[o] = reader[o]
  BY <1>2, <1>5, ReaderBecomes
<1> QED BY <1>1, <1>3, <1>4 DEF Working

\* What every move of a busy reader leaves to be shown.
LEMMA BusyMoves ==
  ASSUME FolderInv, NEW r \in Reader, Busy(r),
         reader' \in [Reader -> Working \cup {F!Unused}], reader'[r].used, reader'[r].of = reader[r].of,
         \A o \in Reader \ {r} : reader'[o] = reader[o],
         UNCHANGED <<browser, source, taken, left>>, disk' \in [stage : F!Stage, stray : BOOLEAN], cut' \in BOOLEAN,
         reader'[r].pc \in {"pull", "work"} => reader'[r].opened,
         reader'[r].pc \in Steps \cup {"look"} => browser /\ ~reader'[r].opened,
         reader'[r].pc \in {"root", "open"} => ~browser
  PROVE  FolderTypes' /\ Ways' /\ Owned'
<1>1. FolderTypes'
  BY DEF FolderInv, FolderTypes
<1>2. Ways'
  <2> SUFFICES ASSUME NEW o \in Reader, reader'[o].used
               PROVE  /\ reader'[o].pc \in {"pull", "work"} => reader'[o].opened
                      /\ reader'[o].pc \in Steps \cup {"look"} => browser /\ ~reader'[o].opened
                      /\ reader'[o].pc \in {"root", "open"} => ~browser
    BY DEF Ways
  <2>1. CASE o = r
    BY <2>1
  <2>2. CASE o # r
    BY <2>2 DEF FolderInv, Ways
  <2> QED BY <2>1, <2>2
<1>3. reader[r].of \in Source
  <2>1. reader[r] \in Working
    BY UsedIs DEF FolderInv, Busy
  <2> QED BY <2>1 DEF Working
<1>4. Owned'
  <2> SUFFICES ASSUME ~taken, ~left PROVE Owned'
    BY DEF Owned
  <2>1. source[reader[r].of] \in {"new", "on"}
    BY <1>3 DEF FolderInv, FolderTypes, Owned, Parted
  <2>2. \A o \in Reader : Busy(o)' => ~Parted(reader[o].of)
    <3> SUFFICES ASSUME NEW o \in Reader, Busy(o)' PROVE ~Parted(reader[o].of)
      OBVIOUS
    <3>1. CASE o = r
      BY <3>1 DEF FolderInv, Owned
    <3>2. CASE o # r
      BY <3>2 DEF FolderInv, Owned, Busy
    <3> QED BY <3>1, <3>2
  <2>3. \A o \in Reader : reader'[o].of = reader[o].of
    OBVIOUS
  <2> QED BY <1>3, <2>1, <2>2, <2>3 DEF Owned, Parted
<1> QED BY <1>1, <1>2, <1>4

LEMMA LookKeeps == ASSUME FolderInv, NEW r \in Reader, F!Look(r) PROVE FolderInv'
<1>0. /\ FolderTypes /\ reader[r].used /\ reader[r].pc = "look" /\ Busy(r) /\ UNCHANGED <<browser, source, disk, taken, left>>
      /\ browser /\ ~reader[r].opened /\ told'.what = "none" /\ cut' = (cut \/ F!Making # {}) /\ disk \in [stage : F!Stage, stray : BOOLEAN]
  BY DEF F!Look, F!Is, FolderInv, Ways, F!Silence, Busy, FolderTypes
<1>1. CASE disk.stage # "none"
  <2>0. F!Opened(r)
    BY <1>1 DEF F!Look
  <2>1. /\ reader' \in [Reader -> Working \cup {F!Unused}]
        /\ reader'[r].used /\ reader'[r].pc \in {"pull", "work"} /\ reader'[r].of = reader[r].of
        /\ reader'[r].opened
        /\ \A o \in Reader \ {r} : reader'[o] = reader[o]
    BY <1>0, <2>0, OpenedIs
  <2>2. FolderTypes' /\ Ways' /\ Owned'
    BY <1>0, <2>1, BusyMoves DEF FolderTypes, Steps
  <2>3. OneMakes'
    <3> SUFFICES ASSUME ~cut', ~taken PROVE OneMakes'
      BY <1>0 DEF OneMakes
    <3>1. ~cut /\ \A o \in Reader : ~Cloning(o)
      BY <1>0, MakingIs
    <3> QED BY <1>0, <1>1, <2>1, <3>1 DEF FolderInv, OneMakes, Cloning, Steps, Parted
  <2> QED BY <1>0, <2>2, <2>3 DEF FolderInv, F!AnswersAreWhole
<1>2. CASE disk.stage = "none"
  <2>0. F!Go(r, "init") /\ "init" \in Pcs
    BY <1>2 DEF F!Look, Pcs, Steps
  <2>1. /\ reader' \in [Reader -> Working \cup {F!Unused}]
        /\ reader'[r].used /\ reader'[r].pc = "init" /\ reader'[r].of = reader[r].of
        /\ reader'[r].opened = reader[r].opened
        /\ \A o \in Reader \ {r} : reader'[o] = reader[o]
    BY <1>0, <2>0, MovesTo
  <2>2. FolderTypes' /\ Ways' /\ Owned'
    BY <1>0, <2>1, BusyMoves DEF FolderTypes, Steps
  <2>3. OneMakes'
    <3> SUFFICES ASSUME ~cut', ~taken PROVE OneMakes'
      BY <1>0 DEF OneMakes
    <3>1. ~cut /\ \A o \in Reader : ~Cloning(o)
      BY <1>0, MakingIs
    <3> QED BY <1>0, <1>2, <2>1, <3>1 DEF FolderInv, OneMakes, Cloning, Steps, Parted, Before
  <2> QED BY <1>0, <2>2, <2>3 DEF FolderInv, F!AnswersAreWhole
<1> QED BY <1>1, <1>2

LEMMA GitRootKeeps == ASSUME FolderInv, NEW r \in Reader, F!GitRoot(r) PROVE FolderInv'
<1>0. /\ FolderTypes /\ reader[r].used /\ reader[r].pc = "root" /\ Busy(r)
      /\ UNCHANGED <<browser, source, cut, taken, left>>
      /\ ~browser /\ told'.what = "none" /\ disk \in [stage : F!Stage, stray : BOOLEAN] /\ cut \in BOOLEAN
  BY DEF F!GitRoot, F!Is, FolderInv, Ways, F!Silence, Busy, FolderTypes, F!history
<1>1. /\ disk' \in [stage : F!Stage, stray : BOOLEAN] /\ disk'.stray = disk.stray
      /\ disk.stage # "none" => disk'.stage = disk.stage
  BY <1>0, StageIs DEF F!GitRoot
<1>2. /\ reader' \in [Reader -> Working \cup {F!Unused}]
      /\ reader'[r].used /\ reader'[r].pc = "open" /\ reader'[r].of = reader[r].of
      /\ reader'[r].opened = reader[r].opened
      /\ \A o \in Reader \ {r} : reader'[o] = reader[o]
  BY <1>0, MovesTo DEF F!GitRoot, Pcs
<1>3. FolderTypes' /\ Ways' /\ Owned'
  BY <1>0, <1>1, <1>2, BusyMoves DEF Steps
<1>4. OneMakes'
  BY <1>0, <1>1, <1>2 DEF FolderInv, OneMakes, Cloning, Steps, Parted, Ways
<1> QED BY <1>0, <1>3, <1>4 DEF FolderInv, F!AnswersAreWhole

LEMMA GitOpenKeeps == ASSUME FolderInv, NEW r \in Reader, F!GitOpen(r) PROVE FolderInv'
<1>0. /\ FolderTypes /\ reader[r].used /\ reader[r].pc = "open" /\ Busy(r)
      /\ UNCHANGED <<browser, source, cut, taken, left>>
      /\ ~browser /\ told'.what = "none" /\ disk \in [stage : F!Stage, stray : BOOLEAN] /\ cut \in BOOLEAN
  BY DEF F!GitOpen, F!Is, FolderInv, Ways, F!Silence, Busy, FolderTypes, F!history
<1>1. CASE F!Takes(disk)
  <2>1. disk' \in [stage : F!Stage, stray : BOOLEAN] /\ disk'.stray = disk.stray /\ disk'.stage = "whole" /\ F!Opened(r)
    BY <1>0, <1>1, StageIs DEF F!GitOpen
  <2>2. /\ reader' \in [Reader -> Working \cup {F!Unused}]
        /\ reader'[r].used /\ reader'[r].pc \in {"pull", "work"} /\ reader'[r].of = reader[r].of
        /\ reader'[r].opened
        /\ \A o \in Reader \ {r} : reader'[o] = reader[o]
    BY <1>0, <2>1, OpenedIs
  <2>3. FolderTypes' /\ Ways' /\ Owned'
    BY <1>0, <2>1, <2>2, BusyMoves DEF Steps
  <2>4. OneMakes'
    BY <1>0, <2>1, <2>2 DEF FolderInv, OneMakes, Cloning, Steps, Parted, Ways
  <2> QED BY <1>0, <2>3, <2>4 DEF FolderInv, F!AnswersAreWhole
<1>2. CASE ~F!Takes(disk)
  <2>1. disk' \in [stage : F!Stage, stray : BOOLEAN] /\ disk'.stray = disk.stray /\ F!Rests(r)
    BY <1>0, <1>2, StageIs DEF F!GitOpen, F!OpeningFails
  <2>5. disk.stage = "whole" => disk'.stage = "whole"
    BY <1>0, <1>2, StageIs DEF F!GitOpen
  <2>2. /\ reader' \in [Reader -> Working \cup {F!Unused}]
        /\ reader'[r].used /\ reader'[r].pc = "idle" /\ reader'[r].of = reader[r].of
        /\ reader'[r].opened = reader[r].opened
        /\ \A o \in Reader \ {r} : reader'[o] = reader[o]
    BY <1>0, <2>1, RestsIs
  <2>3. FolderTypes' /\ Ways' /\ Owned'
    BY <1>0, <2>1, <2>2, BusyMoves DEF Steps
  <2>4. OneMakes'
    BY <1>0, <2>1, <2>2, <2>5 DEF FolderInv, OneMakes, Cloning, Steps, Parted, Ways
  <2> QED BY <1>0, <2>3, <2>4 DEF FolderInv, F!AnswersAreWhole
<1> QED BY <1>1, <1>2

\* A step of a clone whose maker is before what it made makes the next of it.
LEMMA AfterIs ==
  ASSUME NEW n \in 1..6
  PROVE  /\ Before(F!Step[n]) \in F!Stage
         /\ F!After(n, Before(F!Step[n])) = F!Made[n]
         /\ \A stage \in F!Stage : F!After(n, stage) \in F!Stage
         /\ n < 6 => Before(F!Step[n + 1]) = F!Made[n]
<1>1. n \in {1, 2, 3, 4, 5, 6}
  OBVIOUS
<1>2. \A m \in 1..6 : F!Made[m] \in F!Stage
  BY StageIs DEF F!Stage
<1>3. \A stage \in F!Stage : F!Rank(stage) \in 0..6
  BY StageIs, RankIs
<1>4. \A stage \in F!Stage : F!After(n, stage) \in F!Stage
  <2> SUFFICES ASSUME NEW stage \in F!Stage PROVE F!After(n, stage) \in F!Stage
    OBVIOUS
  <2> DEFINE k == IF F!Rank(stage) > n THEN F!Rank(stage) ELSE n
  <2>1. k \in 1..6 /\ F!Made[k] \in F!Stage
    BY <1>2, <1>3
  <2> HIDE DEF k
  <2>2. "scraps" \in F!Stage
    BY StageIs
  <2>3. F!After(n, stage) \in {"scraps", stage, F!Made[k]}
    BY DEF F!After, k
  <2> QED BY <2>1, <2>2, <2>3
<1>5. CASE n = 1
  BY <1>4, <1>5, StageIs, RankIs DEF Before, F!After
<1>6. CASE n = 2
  BY <1>4, <1>6, StageIs, RankIs DEF Before, F!After
<1>7. CASE n = 3
  BY <1>4, <1>7, StageIs, RankIs DEF Before, F!After
<1>8. CASE n = 4
  BY <1>4, <1>8, StageIs, RankIs DEF Before, F!After
<1>9. CASE n = 5
  BY <1>4, <1>9, StageIs, RankIs DEF Before, F!After
<1>10. CASE n = 6
  BY <1>4, <1>10, StageIs, RankIs DEF Before, F!After
<1> QED BY <1>1, <1>5, <1>6, <1>7, <1>8, <1>9, <1>10

LEMMA CloneStepKeeps == ASSUME FolderInv, NEW r \in Reader, F!CloneStep(r) PROVE FolderInv'
<1> PICK n \in DOMAIN F!Step :
      /\ F!Is(r, F!Step[n]) /\ F!Can(n)
      /\ disk' = [stage |-> F!After(n, disk.stage), stray |-> disk.stray /\ n < Len(F!Step)]
      /\ IF n = Len(F!Step) THEN F!Opened(r) ELSE F!Go(r, F!Step[n + 1])
      /\ told' = F!Silence
      /\ UNCHANGED <<browser, source, online, F!bounds, F!history>>
  BY DEF F!CloneStep
<1>0. n \in 1..6 /\ Len(F!Step) = 6 /\ \A m \in 1..6 : F!Step[m] \in Steps
  <2>1. 1..6 = {1, 2, 3, 4, 5, 6}
    OBVIOUS
  <2> QED BY <2>1, StageIs DEF Steps
<1>1. /\ FolderTypes /\ reader[r].used /\ reader[r].pc = F!Step[n] /\ Cloning(r) /\ Busy(r)
      /\ UNCHANGED <<browser, source, cut, taken, left>>
      /\ browser /\ ~reader[r].opened /\ told'.what = "none" /\ cut \in BOOLEAN
      /\ disk.stage \in F!Stage /\ disk.stray \in BOOLEAN
  BY <1>0 DEF F!Is, FolderInv, Ways, F!Silence, Busy, Cloning, Steps, FolderTypes, F!history
<1>2. /\ disk' \in [stage : F!Stage, stray : BOOLEAN]
      /\ ~disk.stray => ~disk'.stray
      /\ disk.stage = Before(F!Step[n]) => disk'.stage = F!Made[n]
  BY <1>0, <1>1, AfterIs
<1>3. CASE n = 6
  <2>2. /\ reader' \in [Reader -> Working \cup {F!Unused}]
        /\ reader'[r].used /\ reader'[r].pc \in {"pull", "work"} /\ reader'[r].of = reader[r].of
        /\ reader'[r].opened
        /\ \A o \in Reader \ {r} : reader'[o] = reader[o]
    BY <1>0, <1>1, <1>3, OpenedIs
  <2>3. FolderTypes' /\ Ways' /\ Owned'
    BY <1>1, <1>2, <2>2, BusyMoves DEF Steps
  <2>4. F!Made[n] = "whole"
    BY <1>3, StageIs
  <2>5. OneMakes'
    BY <1>1, <1>2, <2>2, <2>4 DEF FolderInv, OneMakes, Cloning, Steps, Parted
  <2> QED BY <1>1, <2>3, <2>5 DEF FolderInv, F!AnswersAreWhole
<1>4. CASE n # 6
  <2>1. n + 1 \in 1..6 /\ F!Step[n + 1] \in Steps /\ F!Step[n + 1] \in Pcs /\ n < 6
    BY <1>0, <1>4 DEF Pcs
  <2>2. /\ reader' \in [Reader -> Working \cup {F!Unused}]
        /\ reader'[r].used /\ reader'[r].pc = F!Step[n + 1] /\ reader'[r].of = reader[r].of
        /\ reader'[r].opened = reader[r].opened
        /\ \A o \in Reader \ {r} : reader'[o] = reader[o]
    BY <1>0, <1>1, <1>4, <2>1, MovesTo
  <2>3. FolderTypes' /\ Ways' /\ Owned'
    BY <1>1, <1>2, <2>1, <2>2, BusyMoves DEF Steps
  <2>4. F!Made[n] = Before(F!Step[n + 1])
    BY <1>0, <2>1, AfterIs
  <2>5. OneMakes'
    <3> SUFFICES ASSUME ~cut, ~taken PROVE OneMakes'
      BY <1>1 DEF OneMakes
    <3>1. /\ ~disk.stray /\ disk.stage = Before(reader[r].pc) /\ \A o \in Reader : Cloning(o) => o = r
          /\ \A o \in Reader : reader[o].used /\ reader[o].opened =>
               disk.stage = "whole" \/ (reader[o].pc = "idle" /\ Parted(reader[o].of))
      BY <1>1 DEF FolderInv, OneMakes
    <3>2. disk.stage # "whole"
      BY <1>0, <1>1, <3>1 DEF Before
    <3>3. ~disk'.stray /\ disk'.stage = Before(reader'[r].pc)
      BY <1>1, <1>2, <2>2, <2>4, <3>1
    <3>4. Cloning(r)' /\ \A o \in Reader : Cloning(o)' => o = r
      BY <2>1, <2>2, <3>1 DEF Cloning
    <3>5. \A o \in Reader : reader'[o].used /\ reader'[o].opened => reader'[o].pc = "idle" /\ Parted(reader'[o].of)
      BY <1>1, <2>2, <3>1, <3>2
    <3> QED BY <1>1, <3>3, <3>4, <3>5 DEF OneMakes, Parted
  <2> QED BY <1>1, <2>3, <2>5 DEF FolderInv, F!AnswersAreWhole
<1> QED BY <1>3, <1>4

LEMMA CloneFailsKeeps == ASSUME FolderInv, NEW r \in Reader, F!CloneFails(r) PROVE FolderInv'
<1> PICK n \in DOMAIN F!Step :
      /\ F!Is(r, F!Step[n]) /\ ~F!Can(n)
      /\ disk' = F!CleanedUp
      /\ F!OpeningFails(r)
      /\ told' = F!Silence
      /\ UNCHANGED <<browser, source, online, F!bounds, F!history>>
  BY DEF F!CloneFails
<1>0. n \in 1..6 /\ F!Step[n] \in Steps
  <2>1. 1..6 = {1, 2, 3, 4, 5, 6}
    OBVIOUS
  <2> QED BY <2>1, StageIs DEF Steps
<1>1. /\ FolderTypes /\ reader[r].used /\ reader[r].pc = F!Step[n] /\ Cloning(r) /\ Busy(r)
      /\ UNCHANGED <<browser, source, cut, taken, left>>
      /\ browser /\ ~reader[r].opened /\ told'.what = "none" /\ cut \in BOOLEAN
  BY <1>0 DEF F!Is, FolderInv, Ways, F!Silence, Busy, Cloning, Steps, FolderTypes, F!history
<1>2. disk' \in [stage : F!Stage, stray : BOOLEAN] /\ ~disk'.stray /\ disk'.stage = "none"
  BY StageIs DEF F!CleanedUp, F!Nowhere
<1>3. /\ reader' \in [Reader -> Working \cup {F!Unused}]
      /\ reader'[r].used /\ reader'[r].pc = "idle" /\ reader'[r].of = reader[r].of
      /\ reader'[r].opened = reader[r].opened
      /\ \A o \in Reader \ {r} : reader'[o] = reader[o]
  BY <1>1, RestsIs DEF F!OpeningFails
<1>4. FolderTypes' /\ Ways' /\ Owned'
  BY <1>1, <1>2, <1>3, BusyMoves DEF Steps
<1>5. OneMakes'
  <2> SUFFICES ASSUME ~cut, ~taken PROVE OneMakes'
    BY <1>1 DEF OneMakes
  <2>1. disk.stage = Before(reader[r].pc) /\ disk.stage # "whole"
    BY <1>1 DEF FolderInv, OneMakes, Before
  <2> QED BY <1>1, <1>2, <1>3, <2>1 DEF FolderInv, OneMakes, Cloning, Steps, Parted
<1> QED BY <1>1, <1>4, <1>5 DEF FolderInv, F!AnswersAreWhole

\* Who has opened and is at work has the whole of it, and it stays whole.
LEMMA WholeAtWork ==
  ASSUME FolderInv, NEW r \in Reader, reader[r].used, reader[r].pc \in {"pull", "work"}, ~cut, ~taken
  PROVE  disk.stage = "whole" /\ ~disk.stray
BY DEF FolderInv, Ways, OneMakes

\* A reader that has opened comes to rest or goes on, and nothing becomes of the folder.
LEMMA WorkMoves ==
  ASSUME FolderInv, NEW r \in Reader, reader[r].used, reader[r].pc \in {"pull", "work"},
         reader' \in [Reader -> Working \cup {F!Unused}], reader'[r].used, reader'[r].of = reader[r].of,
         reader'[r].pc \in {"idle", "work"}, reader'[r].opened = reader[r].opened,
         \A o \in Reader \ {r} : reader'[o] = reader[o],
         UNCHANGED <<browser, source, cut, taken, left>>, disk' \in [stage : F!Stage, stray : BOOLEAN],
         ~cut /\ ~taken => disk' = disk, F!AnswersAreWhole'
  PROVE  FolderInv'
<1>1. FolderTypes /\ Busy(r) /\ reader[r].opened /\ cut' \in BOOLEAN
  BY DEF FolderInv, Ways, Busy, FolderTypes
<1>2. FolderTypes' /\ Ways' /\ Owned'
  BY <1>1, BusyMoves DEF Steps
<1>3. OneMakes'
  BY <1>1, WholeAtWork DEF FolderInv, OneMakes, Cloning, Steps, Parted
<1> QED BY <1>2, <1>3 DEF FolderInv

LEMMA PullKeeps == ASSUME FolderInv, NEW r \in Reader, F!Pull(r) PROVE FolderInv'
<1>0. /\ FolderTypes /\ reader[r].used /\ reader[r].pc = "pull" /\ disk' = F!Pulled(disk) /\ F!Go(r, "work")
      /\ UNCHANGED <<browser, source, cut, taken, left>> /\ told'.what = "none" /\ "work" \in Pcs
      /\ disk \in [stage : F!Stage, stray : BOOLEAN]
  BY DEF F!Pull, F!Is, FolderInv, FolderTypes, F!Silence, F!history, Pcs
<1>1. disk' \in [stage : F!Stage, stray : BOOLEAN]
  BY <1>0, StageIs DEF F!Pulled, F!PulledInPage
<1>2. disk.stage = "whole" => disk' = disk
  BY <1>0 DEF F!Pulled, F!PulledInPage
<1>3. /\ reader' \in [Reader -> Working \cup {F!Unused}]
      /\ reader'[r].used /\ reader'[r].pc = "work" /\ reader'[r].of = reader[r].of
      /\ reader'[r].opened = reader[r].opened
      /\ \A o \in Reader \ {r} : reader'[o] = reader[o]
  BY <1>0, MovesTo
<1>4. ~cut /\ ~taken => disk' = disk
  BY <1>0, <1>2, WholeAtWork
<1>5. F!AnswersAreWhole'
  BY <1>0 DEF F!AnswersAreWhole
<1> QED BY <1>0, <1>1, <1>3, <1>4, <1>5, WorkMoves

\* What is told, of the whole repository, is right.
LEMMA TellsKeep ==
  ASSUME FolderInv, NEW r \in Reader, F!Is(r, "work"), NEW right \in BOOLEAN,
         F!Answers(r, right) \/ F!Throws(r), disk' \in [stage : F!Stage, stray : BOOLEAN],
         disk.stage = "whole" => disk' = disk /\ right
  PROVE  FolderInv'
<1>0. /\ FolderTypes /\ reader[r].used /\ reader[r].pc = "work" /\ F!Rests(r)
      /\ UNCHANGED <<browser, source, cut, taken, left>>
      /\ told' = [what |-> reader[r].what, right |-> right] \/ told'.what = "none"
  BY DEF F!Answers, F!Throws, F!Is, FolderInv, F!Silence, F!history
<1>3. /\ reader' \in [Reader -> Working \cup {F!Unused}]
      /\ reader'[r].used /\ reader'[r].pc = "idle" /\ reader'[r].of = reader[r].of
      /\ reader'[r].opened = reader[r].opened
      /\ \A o \in Reader \ {r} : reader'[o] = reader[o]
  BY <1>0, RestsIs
<1>4. ~cut /\ ~taken => disk' = disk /\ right
  BY <1>0, WholeAtWork
<1>5. F!AnswersAreWhole'
  BY <1>0, <1>4 DEF F!AnswersAreWhole
<1> QED BY <1>0, <1>3, <1>4, <1>5, WorkMoves

LEMMA DiskIs == ASSUME FolderInv PROVE disk \in [stage : F!Stage, stray : BOOLEAN]
BY DEF FolderInv, FolderTypes

LEMMA ListKeeps == ASSUME FolderInv, NEW r \in Reader, F!List(r) PROVE FolderInv'
<1> DEFINE right == disk.stage = "whole"
<1>1. F!Is(r, "work") /\ right \in BOOLEAN /\ (F!Answers(r, right) \/ F!Throws(r)) /\ disk' = disk
  BY DEF F!List, F!Doing
<1>2. disk.stage = "whole" => right
  OBVIOUS
<1> HIDE DEF right
<1> QED BY <1>1, <1>2, DiskIs, TellsKeep

LEMMA ReadKeeps == ASSUME FolderInv, NEW r \in Reader, F!Read(r) PROVE FolderInv'
<1> DEFINE right == disk.stage \in {"filled", "whole"}
<1>1. F!Is(r, "work") /\ right \in BOOLEAN /\ (F!Answers(r, right) \/ F!Throws(r)) /\ disk' = disk
  BY DEF F!Read, F!Doing
<1>2. disk.stage = "whole" => right
  OBVIOUS
<1> HIDE DEF right
<1> QED BY <1>1, <1>2, DiskIs, TellsKeep

LEMMA WriteKeeps == ASSUME FolderInv, NEW r \in Reader, F!Write(r) PROVE FolderInv'
<1> DEFINE right == disk.stage = "whole"
<1>1. F!Is(r, "work") /\ right \in BOOLEAN /\ (F!Answers(r, right) \/ F!Throws(r))
  BY DEF F!Write, F!Doing
<1>2. disk.stage = "whole" => right
  OBVIOUS
<1>3. disk.stage = "whole" => disk' = disk
  BY RankIs DEF F!Write
<1>4. disk' \in [stage : F!Stage, stray : BOOLEAN]
  BY DiskIs, StageIs DEF F!Write
<1> HIDE DEF right
<1> QED BY <1>1, <1>2, <1>3, <1>4, TellsKeep

Asked == {"list", "poll", "read", "write"}

LEMMA AskKeeps == ASSUME FolderInv, NEW r \in Reader, NEW s \in Source, NEW what \in Asked, F!Ask(r, s, what) PROVE FolderInv'
<1> DEFINE now == IF reader[r].used THEN reader[r] ELSE F!Built(s)
           pc == IF now.opened THEN F!Begins(what) ELSE IF browser THEN "look" ELSE "root"
           to == [now EXCEPT !.what = what, !.pc = pc]
<1>0. /\ FolderTypes /\ now.of = s /\ now.pc = "idle" /\ (reader[r].used \/ source[s] # "gone")
      /\ F!Becomes(r, to) /\ taken' = (taken \/ source[s] \in {"leaving", "gone"})
      /\ told'.what = "none" /\ UNCHANGED <<browser, source, disk, cut, left>>
  BY DEF F!Ask, FolderInv, F!Silence
<1>1. now \in Working
  BY <1>0, UsedIs DEF F!Built, Working, Pcs
<1>2. (reader[r].used => now = reader[r]) /\ (~reader[r].used => ~now.opened)
  BY DEF F!Built
<1> HIDE DEF now
<1>3. /\ now.opened => pc \in {"pull", "work"}
      /\ ~now.opened /\ browser => pc = "look"
      /\ ~now.opened /\ ~browser => pc = "root"
  BY DEF F!Begins
<1>4. pc \in Pcs
  BY <1>0, <1>1, <1>3 DEF Pcs, FolderTypes, Working
<1> HIDE DEF pc
<1>5. to \in Working /\ to.used /\ to.pc = pc /\ to.of = s /\ to.opened = now.opened
  BY <1>0, <1>1, <1>4 DEF Working, Asked
<1> HIDE DEF to
<1>6. reader' \in [Reader -> Working \cup {F!Unused}] /\ reader'[r] = to /\ \A o \in Reader \ {r} : reader'[o] = reader[o]
  BY <1>0, <1>5, ReaderBecomes
<1>7. FolderTypes'
  BY <1>0, <1>6 DEF FolderTypes
<1>8. Ways'
  <2> SUFFICES ASSUME NEW o \in Reader, reader'[o].used
               PROVE  /\ reader'[o].pc \in {"pull", "work"} => reader'[o].opened
                      /\ reader'[o].pc \in Steps \cup {"look"} => browser /\ ~reader'[o].opened
                      /\ reader'[o].pc \in {"root", "open"} => ~browser
    BY <1>0 DEF Ways
  <2>1. CASE o = r
    BY <2>1, <1>3, <1>5, <1>6 DEF Steps
  <2>2. CASE o # r
    BY <2>2, <1>6 DEF FolderInv, Ways
  <2> QED BY <2>1, <2>2
<1>9. ~taken' => source[s] \in {"new", "on"} /\ ~Parted(s)
  BY <1>0 DEF FolderTypes, Parted
<1>10. OneMakes'
  <2> SUFFICES ASSUME ~cut, ~taken' PROVE OneMakes'
    BY <1>0 DEF OneMakes
  <2>0. ~taken
    BY <1>0
  <2>1. ~Cloning(r) /\ ~Cloning(r)'
    BY <1>0, <1>2, <1>3, <1>5, <1>6 DEF Cloning, Steps
  <2>2. now.opened => disk.stage = "whole"
    BY <1>0, <1>2, <1>9, <2>0 DEF FolderInv, OneMakes
  <2>3. \A o \in Reader : Cloning(o)' => Cloning(o) /\ reader'[o] = reader[o]
    BY <1>6, <2>1 DEF Cloning
  <2>4. \A o \in Reader : Cloning(o) => Cloning(o)'
    BY <1>6, <2>1 DEF Cloning
  <2>5. \A o \in Reader : reader'[o].used /\ reader'[o].opened =>
          disk.stage = "whole" \/ (reader'[o].pc = "idle" /\ Parted(reader'[o].of))
    BY <1>5, <1>6, <2>0, <2>2 DEF FolderInv, OneMakes
  <2> QED BY <1>0, <2>0, <2>3, <2>4, <2>5 DEF FolderInv, OneMakes, Parted
<1>11. Owned'
  <2> SUFFICES ASSUME ~left, ~taken' PROVE Owned'
    BY <1>0 DEF Owned
  <2>0. ~taken
    BY <1>0
  <2>1. \A o \in Reader : Busy(o)' => ~Parted(reader'[o].of)
    BY <1>5, <1>6, <1>9, <2>0 DEF FolderInv, Owned, Busy
  <2>2. source[s] = "on" \/ (reader'[r].used /\ source[reader'[r].of] = "new")
    BY <1>5, <1>6, <1>9
  <2> QED BY <1>0, <2>1, <2>2 DEF Owned, Parted
<1> QED BY <1>0, <1>7, <1>8, <1>10, <1>11 DEF FolderInv, F!AnswersAreWhole

\* A reader at rest that is let go of.
LEMMA LetGo ==
  ASSUME FolderInv, NEW r \in Reader, F!Is(r, "idle"), F!Becomes(r, F!Unused),
         UNCHANGED <<browser, disk, cut, taken>>, left' \in BOOLEAN, left => left',
         source' \in [Source -> {"new", "on", "leaving", "gone"}],
         \A s \in Source : Parted(s) <=> Parted(s)',
         \A s \in Source : source[s] = "on" => source'[s] = "on",
         \A s \in Source : source[s] = "new" /\ reader[r].of # s => source'[s] = "new",
         ~left' => source[reader[r].of] # "new" \/ source'[reader[r].of] = "on",
         told'.what = "none"
  PROVE  FolderInv'
<1>0. FolderTypes /\ reader[r].used /\ reader[r].pc = "idle" /\ ~Cloning(r)
  BY DEF FolderInv, F!Is, Cloning, Steps
<1>1. /\ reader' \in [Reader -> Working \cup {F!Unused}] /\ ~reader'[r].used
      /\ \A o \in Reader \ {r} : reader'[o] = reader[o]
  BY <1>0, ReaderBecomes DEF F!Unused
<1>2. FolderTypes' /\ Ways' /\ F!AnswersAreWhole'
  BY <1>1 DEF FolderInv, FolderTypes, Ways, F!AnswersAreWhole
<1>3. \A o \in Reader : reader'[o].used => reader[o].used /\ reader'[o] = reader[o] /\ reader[o].of \in Source /\ o # r
  <2>1. \A o \in Reader : reader[o].used => reader[o].of \in Source
    BY <1>0, UsedIs DEF Working
  <2> QED BY <1>1, <2>1
<1>4. OneMakes'
  <2> SUFFICES ASSUME ~cut, ~taken PROVE OneMakes'
    BY DEF OneMakes
  <2>1. \A o \in Reader : Cloning(o)' <=> Cloning(o)
    BY <1>0, <1>1 DEF Cloning
  <2>2. \A o \in Reader : reader'[o].used /\ reader'[o].opened =>
          disk.stage = "whole" \/ (reader'[o].pc = "idle" /\ Parted(reader[o].of)')
    BY <1>3 DEF FolderInv, OneMakes
  <2>3. \A o \in Reader : Cloning(o)' => reader'[o] = reader[o]
    BY <1>3 DEF Cloning
  <2> QED BY <2>1, <2>2, <2>3 DEF FolderInv, OneMakes, Parted
<1>5. Owned'
  <2> SUFFICES ASSUME ~left', ~taken PROVE Owned'
    BY DEF Owned
  <2>1. \A o \in Reader : Busy(o)' => ~Parted(reader[o].of)'
    BY <1>3 DEF FolderInv, Owned, Busy
  <2>2. ASSUME disk # F!Nowhere
        PROVE  \/ \E s \in Source : source'[s] = "on"
               \/ \E o \in Reader : reader'[o].used /\ source'[reader'[o].of] = "new"
    <3>1. CASE \E s \in Source : source[s] = "on"
      BY <3>1
    <3>2. CASE \E o \in Reader : reader[o].used /\ source[reader[o].of] = "new"
      <4> PICK o \in Reader : reader[o].used /\ source[reader[o].of] = "new"
        BY <3>2
      <4>1. reader[o].of \in Source /\ reader[r].of \in Source
        BY <1>0, UsedIs DEF Working
      <4>2. CASE reader[o].of = reader[r].of
        BY <4>1, <4>2
      <4>3. CASE reader[o].of # reader[r].of
        BY <4>1, <4>3, <1>1
      <4> QED BY <4>2, <4>3
    <3> QED BY <2>2, <3>1, <3>2 DEF FolderInv, Owned
  <2> QED BY <2>1, <2>2 DEF Owned, Parted
<1> QED BY <1>2, <1>4, <1>5 DEF FolderInv

LEMMA DropKeeps == ASSUME FolderInv, NEW r \in Reader, F!Drop(r) PROVE FolderInv'
<1>1. /\ F!Is(r, "idle") /\ F!Becomes(r, F!Unused) /\ left' = (left \/ r \in F!Tried) /\ told'.what = "none"
      /\ UNCHANGED <<browser, source, disk, cut, taken>>
  BY DEF F!Drop, F!Silence
<1>2. left' \in BOOLEAN /\ source \in [Source -> {"new", "on", "leaving", "gone"}]
  BY <1>1 DEF FolderInv, FolderTypes
<1>3. r \in F!Tried <=> source[reader[r].of] = "new"
  BY <1>1 DEF F!Tried, F!Used, F!Is
<1> QED BY <1>1, <1>2, <1>3, LetGo DEF Parted

LEMMA SaveKeeps == ASSUME FolderInv, NEW r \in Reader, F!Save(r) PROVE FolderInv'
<1>1. /\ F!Is(r, "idle") /\ F!Becomes(r, F!Unused) /\ source' = [source EXCEPT ![reader[r].of] = "on"]
      /\ told'.what = "none" /\ source[reader[r].of] = "new"
      /\ UNCHANGED <<browser, disk, cut, taken, left>>
  BY DEF F!Save, F!Silence, F!history, F!Tried
<1>2. /\ left \in BOOLEAN /\ source \in [Source -> {"new", "on", "leaving", "gone"}] /\ reader[r].of \in Source
  <2>1. reader[r] \in Working
    BY <1>1, UsedIs DEF FolderInv, F!Is
  <2> QED BY <2>1 DEF FolderInv, FolderTypes, Working
<1>3. \A s \in Source : source'[s] = IF s = reader[r].of THEN "on" ELSE source[s]
  BY <1>1, <1>2
<1>4. source' \in [Source -> {"new", "on", "leaving", "gone"}] /\ source'[reader[r].of] = "on"
  BY <1>1, <1>2
<1>5. \A s \in Source : Parted(s) <=> Parted(s)'
  BY <1>1, <1>3 DEF Parted
<1>6. /\ \A s \in Source : source[s] = "on" => source'[s] = "on"
      /\ \A s \in Source : source[s] = "new" /\ reader[r].of # s => source'[s] = "new"
  BY <1>3
<1> QED BY <1>1, <1>2, <1>4, <1>5, <1>6, LetGo

\* Sources that are parted with, and readers as they were.
LEMMA SourceParts ==
  ASSUME FolderInv, UNCHANGED <<browser, disk, reader, cut, taken>>, left' \in BOOLEAN, left => left',
         source' \in [Source -> {"new", "on", "leaving", "gone"}],
         \A s \in Source : Parted(s) => Parted(s)',
         ~left' => \A s \in Source : (Parted(s)' => Parted(s)) /\ (source[s] \in {"on", "new"} => source'[s] = source[s]),
         told'.what = "none"
  PROVE  FolderInv'
<1>0. FolderTypes /\ \A r \in Reader : reader[r].used => reader[r].of \in Source
  BY UsedIs DEF FolderInv, Working
<1>1. FolderTypes' /\ Ways' /\ F!AnswersAreWhole'
  BY DEF FolderInv, FolderTypes, Ways, F!AnswersAreWhole
<1>2. OneMakes'
  BY <1>0 DEF FolderInv, OneMakes, Cloning
<1>3. Owned'
  <2> SUFFICES ASSUME ~left', ~taken PROVE Owned'
    BY DEF Owned
  <2>1. \A o \in Reader : Busy(o)' => ~Parted(reader[o].of)'
    BY <1>0 DEF FolderInv, Owned, Busy
  <2> QED BY <1>0, <2>1 DEF FolderInv, Owned
<1> QED BY <1>1, <1>2, <1>3 DEF FolderInv

LEMMA CorrectKeeps == ASSUME FolderInv, NEW s \in Source, F!Correct(s) PROVE FolderInv'
<1>1. /\ source' = [source EXCEPT ![s] = "gone"] /\ left' = TRUE /\ told'.what = "none"
      /\ UNCHANGED <<browser, disk, reader, cut, taken>>
      /\ source \in [Source -> {"new", "on", "leaving", "gone"}]
  BY DEF F!Correct, F!Silence, FolderInv, FolderTypes
<1>2. \A o \in Source : Parted(o) => Parted(o)'
  BY <1>1 DEF Parted
<1> QED BY <1>1, <1>2, SourceParts

LEMMA ForgetFailsKeeps == ASSUME FolderInv, NEW s \in Source, F!ForgetFails(s) PROVE FolderInv'
<1>1. /\ source' = [source EXCEPT ![s] = "leaving"] /\ left' = TRUE /\ told'.what = "none"
      /\ UNCHANGED <<browser, disk, reader, cut, taken>>
      /\ source \in [Source -> {"new", "on", "leaving", "gone"}]
  BY DEF F!ForgetFails, F!Silence, FolderInv, FolderTypes
<1>2. \A o \in Source : Parted(o) => Parted(o)'
  BY <1>1 DEF Parted
<1> QED BY <1>1, <1>2, SourceParts

LEMMA DetachKeeps == ASSUME FolderInv, NEW s \in Source, F!Detach(s) PROVE FolderInv'
<1>1. /\ source' = [source EXCEPT ![s] = "gone"] /\ told'.what = "none" /\ source[s] = "leaving"
      /\ UNCHANGED <<browser, disk, reader, cut, taken, left>>
      /\ source \in [Source -> {"new", "on", "leaving", "gone"}] /\ left \in BOOLEAN
  BY DEF F!Detach, F!Silence, FolderInv, FolderTypes, F!history
<1>2. \A o \in Source : Parted(o) <=> Parted(o)'
  BY <1>1 DEF Parted
<1>3. \A o \in Source : source[o] \in {"on", "new"} => source'[o] = source[o]
  BY <1>1
<1> QED BY <1>1, <1>2, <1>3, SourceParts

LEMMA ForgetKeeps == ASSUME FolderInv, NEW s \in Source, F!Forget(s) PROVE FolderInv'
<1>1. /\ source' = [source EXCEPT ![s] = "leaving"] /\ told'.what = "none" /\ disk' = F!Nowhere
      /\ UNCHANGED <<browser, reader, cut, left>>
      /\ source \in [Source -> {"new", "on", "leaving", "gone"}]
      /\ taken' = (taken \/ F!Names # {s} \/ \E r \in F!Used : reader[r].of # s \/ reader[r].pc # "idle")
  BY DEF F!Forget, F!Silence, FolderInv, FolderTypes, F!Forgotten
<1>2. FolderTypes' /\ Ways' /\ F!AnswersAreWhole'
  <2>1. disk' \in [stage : F!Stage, stray : BOOLEAN] /\ taken' \in BOOLEAN
    BY <1>1, StageIs DEF F!Nowhere, FolderInv, FolderTypes
  <2>2. source' \in [Source -> {"new", "on", "leaving", "gone"}]
    BY <1>1
  <2> QED BY <1>1, <2>1, <2>2 DEF FolderInv, FolderTypes, Ways, F!AnswersAreWhole
<1>3. ~taken' => \A r \in Reader : reader[r].used => reader[r].pc = "idle" /\ reader[r].of = s
  BY <1>1 DEF F!Used
<1>4. Parted(s)' /\ disk'.stage = "none" /\ ~disk'.stray
  BY <1>1 DEF Parted, F!Nowhere
<1>5. OneMakes'
  BY <1>1, <1>3, <1>4 DEF OneMakes, Cloning, Steps
<1>6. Owned'
  BY <1>1, <1>3 DEF Owned, Busy, F!Nowhere
<1> QED BY <1>2, <1>5, <1>6 DEF FolderInv

LEMMA StopOrStartKeeps == ASSUME FolderInv, F!StopOrStart PROVE FolderInv'
<1>1. /\ told'.what = "none" /\ UNCHANGED <<browser, source, disk, reader, cut, taken, left>>
      /\ source \in [Source -> {"new", "on", "leaving", "gone"}] /\ left \in BOOLEAN
  BY DEF F!StopOrStart, F!Silence, FolderInv, FolderTypes, F!history
<1>2. \A o \in Source : Parted(o) <=> Parted(o)'
  BY <1>1 DEF Parted
<1> QED BY <1>1, <1>2, SourceParts

LEMMA CloseKeeps == ASSUME FolderInv, F!Close PROVE FolderInv'
<1>1. /\ told'.what = "none" /\ UNCHANGED <<browser, disk, taken>>
      /\ cut' = (cut \/ F!Making # {}) /\ left' = (left \/ F!Tried # {})
      /\ source' = [s \in Source |-> IF source[s] = "leaving" THEN "on" ELSE source[s]]
      /\ reader' = [r \in Reader |-> F!Unused]
      /\ FolderTypes
  BY DEF F!Close, F!Silence, FolderInv
<1>2. \A r \in Reader : ~reader'[r].used
  BY <1>1 DEF F!Unused
<1>3. FolderTypes' /\ Ways' /\ F!AnswersAreWhole'
  <2>1. reader' \in [Reader -> Working \cup {F!Unused}]
    BY <1>1
  <2>2. source' \in [Source -> {"new", "on", "leaving", "gone"}]
    BY <1>1 DEF FolderTypes
  <2> QED BY <1>1, <1>2, <2>1, <2>2 DEF FolderTypes, Ways, F!AnswersAreWhole
<1>4. OneMakes'
  <2> SUFFICES ASSUME ~cut', ~taken PROVE OneMakes'
    BY <1>1 DEF OneMakes
  <2>1. ~cut /\ \A r \in Reader : ~Cloning(r)
    BY <1>1, MakingIs
  <2>2. ~disk.stray /\ (browser => disk.stage \in {"none", "whole"})
    BY <2>1 DEF FolderInv, OneMakes
  <2> QED BY <1>1, <1>2, <2>2 DEF OneMakes, Cloning
<1>5. Owned'
  <2> SUFFICES ASSUME ~left', ~taken PROVE Owned'
    BY <1>1 DEF Owned
  <2>1. ~left /\ \A r \in Reader : ~(reader[r].used /\ source[reader[r].of] = "new")
    BY <1>1 DEF F!Tried, F!Used
  <2>2. disk # F!Nowhere => \E s \in Source : source[s] = "on"
    BY <2>1 DEF FolderInv, Owned
  <2>3. \A s \in Source : source[s] = "on" => source'[s] = "on"
    BY <1>1
  <2> QED BY <1>1, <1>2, <2>2, <2>3 DEF Owned, Busy, F!Nowhere
<1> QED BY <1>3, <1>4, <1>5 DEF FolderInv

LEMMA FolderStep == FolderInv /\ F!Next => FolderInv'
<1> SUFFICES ASSUME FolderInv, F!Next PROVE FolderInv'
  OBVIOUS
<1>1. CASE \E r \in Reader :
             \/ \E s \in Source, what \in {"list", "poll", "read", "write"} : F!Ask(r, s, what)
             \/ F!Drop(r) \/ F!Look(r) \/ F!CloneStep(r) \/ F!CloneFails(r) \/ F!GitRoot(r) \/ F!GitOpen(r)
             \/ F!Pull(r) \/ F!List(r) \/ F!Read(r) \/ F!Write(r) \/ F!Save(r)
  BY <1>1, AskKeeps, DropKeeps, LookKeeps, CloneStepKeeps, CloneFailsKeeps, GitRootKeeps, GitOpenKeeps,
     PullKeeps, ListKeeps, ReadKeeps, WriteKeeps, SaveKeeps DEF Asked
<1>2. CASE \E s \in Source : F!Correct(s) \/ F!Forget(s) \/ F!ForgetFails(s) \/ F!Detach(s)
  BY <1>2, CorrectKeeps, ForgetKeeps, ForgetFailsKeeps, DetachKeeps
<1>3. CASE F!StopOrStart \/ F!Close
  BY <1>3, StopOrStartKeeps, CloseKeeps
<1> QED BY <1>1, <1>2, <1>3 DEF F!Next

LEMMA FolderMeans == FolderInv => F!AnswersAreWhole /\ F!NothingLeftBehind
<1> SUFFICES ASSUME FolderInv PROVE F!NothingLeftBehind
  BY DEF FolderInv
<1>1. \A s \in Source : source[s] = "on" => s \in F!Names
  BY DEF F!Names
<1>2. \A r \in Reader : reader[r].used /\ source[reader[r].of] = "new" => r \in F!Tried
  BY DEF F!Tried, F!Used
<1> QED BY <1>1, <1>2 DEF FolderInv, Owned, F!NothingLeftBehind

\* What is answered through a folder is the repository's, and no folder outlives
\* the sources it was made for, for any sources, readers, calls, outages and
\* faults (git.js _open, forget; git-isomorphic.js _clone; git.rs git_open).
THEOREM ClonesKept == F!Spec => [](F!AnswersAreWhole /\ F!NothingLeftBehind)
<1>1. FolderInv /\ [F!Next]_F!vars => FolderInv'
  BY FolderStep, FolderStutter
<1>2. F!Spec => []FolderInv
  BY <1>1, FolderInit, PTL DEF F!Spec
<1> QED BY <1>2, FolderMeans, PTL

-----------------------------------------------------------------------------
(* The app's own files (OfflineShell): what was kept of what came.           *)

Copy == [is : {"none", "app", "dev", "file", "module"}, of : Nat]
Kinds == {"/", "module"}
Puts == [name : O!Name, key : Kinds, copy : Copy]
Offer == [script : Nat, name : 0..2]
Shelf == [O!Name -> [O!Key -> Copy]]
Loaded == [pc : {"document", "module", "shown", "loaded", "broken", "emptying", "started"},
           to : O!Key, by : 0..2, doc : Copy, module : Copy, from : Nat, oldest : Nat,
           off : BOOLEAN, mem : BOOLEAN, dev : BOOLEAN, known : Nat, edited : BOOLEAN]

ShellTypes ==
  /\ site \in [release : Nat \ {0}, whole : BOOLEAN, dev : BOOLEAN, script : Nat, name : O!Name]
  /\ up \in BOOLEAN /\ held \in Copy /\ aside \in BOOLEAN
  /\ worker \in [active : Offer, next : Offer, installed : BOOLEAN]
  /\ caches \in Shelf /\ last \in Shelf /\ puts \subseteq Puts
  /\ page \in [Page -> Loaded \cup {O!Unused}]

\* What is in charge, or is to be, has a name, and what is served and not under
\* edit is whole.
NamedAll ==
  /\ worker.active = O!NoOne \/ worker.active.name \in O!Name
  /\ worker.next = O!NoOne \/ worker.next.name \in O!Name
  /\ worker.installed => worker.next.name \in O!Name
  /\ site.whole \/ site.dev

\* A copy is of what its key is of.
OfKey(key, copy) ==
  /\ copy.is \in (IF key = "module" THEN {"none", "module"} ELSE {"none", "app", "dev", "file"})
  /\ copy.is = "file" => aside
Keyed ==
  /\ held.is \in {"none", "module"} /\ held.of <= site.release
  /\ \A p \in puts : OfKey(p.key, p.copy) /\ p.copy.is # "none"
  /\ \A n \in O!Name, k \in Kinds : OfKey(k, caches[n][k])

\* What was stored in the shell in charge since it was last emptied is there.
Stocked ==
  LET a == worker.active.name IN
  /\ worker.active = O!NoOne => stored = {}
  /\ worker.active # O!NoOne =>
       /\ "module" \in stored => caches[a]["module"].is # "none"
       /\ stored \cap {"app", "dev"} # {} => caches[a]["/"].is # "none"

\* Of a key none overtook, one copy at most is on its way, the last that came; and
\* what is kept is the last, but for what is on its way.
InOrder ==
  /\ \A p, q \in puts : p.key = q.key /\ p.key \notin overtaken => p = q
  /\ \A p \in puts : p.key \notin overtaken => p.copy = last[p.name][p.key]
  /\ \A n \in O!Name, k \in O!Key \ overtaken :
       caches[n][k] \in {O!None, last[n][k]} \/ \E p \in puts : p.name = n /\ p.key = k

\* A page on its way is not asked to be younger than what there is, and one that
\* came is as young as it is asked to be.
Young(g) ==
  /\ g.pc \in {"document", "module"} => g.oldest <= site.release /\ (held # O!None => g.oldest <= held.of)
  /\ g.pc = "document" => g.doc = O!None /\ g.from <= site.release
  /\ g.pc \in {"document", "module"} => g.module = O!None
  /\ ~g.off =>
       /\ g.doc # O!None => g.doc.of >= g.from
       /\ g.module # O!None => g.module.of >= g.oldest
       /\ g.pc = "broken" => g.dev

\* What a page under development shows that nobody edited is what there is.
Seen(g) ==
  /\ g.known <= site.release
  /\ g.known # 0 => g.doc.is = "dev"
  /\ g.known \in {0, site.release} /\ ~g.edited /\ ~g.off =>
       /\ g.doc # O!None => g.doc.of = site.release
       /\ g.module \in {O!None, [is |-> "module", of |-> site.release]} \/ g.mem

Pages == \A c \in Page : O!Open(c) => Young(page[c]) /\ Seen(page[c])

\* The browser holds a module of its own, or nothing.
Held == held = O!None \/ held.is = "module"

ShellInv == ShellTypes /\ Held /\ NamedAll /\ Keyed /\ Stocked /\ InOrder /\ Pages

LEMMA KeyIs == O!Key = {"/", "/review", "/next", "/file", "module"} /\ Kinds \subseteq O!Key /\ O!DOCUMENT \in Kinds
               /\ O!None \in Copy /\ O!None.is = "none" /\ O!None.of = 0
               /\ \A n \in O!Name, k \in O!Key : O!Empty[n][k] = O!None
BY DEF O!Key, Kinds, O!Route, O!DOCUMENT, O!None, Copy, O!Empty

LEMMA EmptyIs == O!Empty \in Shelf
BY KeyIs DEF O!Empty, Shelf

LEMMA PageIs ==
  ASSUME ShellTypes, NEW c \in Page
  PROVE  (O!Open(c) => page[c] \in Loaded) /\ (~O!Open(c) => page[c] = O!Unused)
<1>1. page[c] \in Loaded \/ page[c] = O!Unused
  BY DEF ShellTypes
<1>2. page[c] \in Loaded => page[c].pc # "closed"
  BY DEF Loaded
<1>3. page[c] = O!Unused => page[c].pc = "closed"
  BY DEF O!Unused
<1> QED BY <1>1, <1>2, <1>3 DEF O!Open, O!Is

\* What a page becomes is one again, and the others stay as they are.
LEMMA PageBecomes ==
  ASSUME ShellTypes, NEW c \in Page, NEW to \in Loaded, O!Becomes(c, to)
  PROVE  /\ page' \in [Page -> Loaded \cup {O!Unused}]
         /\ page'[c] = to /\ \A o \in Page \ {c} : page'[o] = page[o]
BY DEF ShellTypes, O!Becomes

LEMMA PagesOf ==
  ASSUME Pages, NEW c \in Page, O!Open(c)' => (Young(page[c]) /\ Seen(page[c]))',
         \A o \in Page \ {c} : page'[o] = page[o], UNCHANGED site, held' = O!None \/ held' = held \/ held'.of = site.release
  PROVE  Pages'
<1> SUFFICES ASSUME NEW o \in Page, O!Open(o)' PROVE (Young(page[o]) /\ Seen(page[o]))'
  BY DEF Pages
<1>1. CASE o = c
  BY <1>1
<1>2. CASE o # c
  BY <1>2 DEF Pages, O!Open, O!Is, Young, Seen
<1> QED BY <1>1, <1>2

LEMMA ShellInit == O!Init => ShellInv
<1> SUFFICES ASSUME O!Init PROVE ShellInv
  OBVIOUS
<1>1. /\ site.release = 1 /\ site.whole = TRUE /\ held = O!None /\ puts = {} /\ stored = {} /\ worker = O!NoWorker
      /\ caches = O!Empty /\ last = O!Empty /\ up = TRUE /\ aside = FALSE /\ page = [c \in Page |-> O!Unused]
      /\ site \in [release : Nat \ {0}, whole : BOOLEAN, dev : BOOLEAN, script : Nat, name : O!Name]
  BY DEF O!Init, O!Name
<1>2. ShellTypes
  <2>1. worker \in [active : Offer, next : Offer, installed : BOOLEAN]
    BY <1>1 DEF O!NoWorker, O!NoOne, Offer
  <2>2. page \in [Page -> Loaded \cup {O!Unused}]
    BY <1>1
  <2>3. held \in Copy /\ caches \in Shelf /\ last \in Shelf /\ puts \subseteq Puts
    BY <1>1, EmptyIs, KeyIs
  <2> QED BY <1>1, <2>1, <2>2, <2>3 DEF ShellTypes
<1>3. NamedAll /\ Stocked /\ Held
  BY <1>1 DEF NamedAll, Stocked, O!NoWorker, Held
<1>4. Keyed /\ InOrder
  BY <1>1, KeyIs DEF Keyed, OfKey, InOrder
<1>5. Pages
  BY <1>1, PageIs, <1>2 DEF Pages, O!Open, O!Is, O!Unused
<1> QED BY <1>2, <1>3, <1>4, <1>5 DEF ShellInv

LEMMA ShellStutter == ShellInv /\ UNCHANGED O!vars => ShellInv'
<1> SUFFICES ASSUME ShellInv, UNCHANGED O!vars PROVE ShellInv'
  OBVIOUS
<1>0. UNCHANGED <<site, up, held, worker, caches, page, puts, last, overtaken, stored, aside>>
  BY DEF O!vars, O!history, O!comes
<1>1. ShellTypes' /\ NamedAll' /\ Stocked' /\ Held'
  BY <1>0 DEF ShellInv, ShellTypes, NamedAll, Stocked, Held
<1>2. Keyed' /\ InOrder'
  BY <1>0 DEF ShellInv, Keyed, OfKey, InOrder
<1>3. Pages'
  BY <1>0 DEF ShellInv, Pages, O!Open, O!Is, Young, Seen
<1> QED BY <1>1, <1>2, <1>3 DEF ShellInv

LEMMA ShellMeans == ShellInv => O!OnlineIsFresh /\ O!StartsOffline /\ O!CopyIsLatest /\ O!EditsAreSeen
<1> SUFFICES ASSUME ShellInv PROVE O!OnlineIsFresh /\ O!StartsOffline /\ O!CopyIsLatest /\ O!EditsAreSeen
  OBVIOUS
<1>1. O!OnlineIsFresh
  BY DEF ShellInv, Pages, Young, O!OnlineIsFresh, O!Is
<1>2. O!StartsOffline
  <2> SUFFICES ASSUME "module" \in stored, stored \cap {"app", "dev"} # {}, ~aside
               PROVE  /\ \A to \in O!Route : O!App(caches[worker.active.name][O!KeyOf(to)])
                      /\ caches[worker.active.name]["module"] # O!None
    BY DEF O!StartsOffline
  <2>1. worker.active # O!NoOne /\ worker.active.name \in O!Name
    BY DEF ShellInv, Stocked, NamedAll
  <2>2. caches[worker.active.name]["module"].is # "none" /\ caches[worker.active.name]["/"].is # "none"
    BY <2>1 DEF ShellInv, Stocked
  <2>3. caches[worker.active.name]["/"].is \in {"app", "dev"}
    BY <2>1, <2>2 DEF ShellInv, Keyed, OfKey, Kinds
  <2>4. \A to \in O!Route : O!KeyOf(to) = "/"
    BY DEF O!Route, O!KeyOf, O!DOCUMENT
  <2> QED BY <2>2, <2>3, <2>4, KeyIs DEF O!App
<1>3. O!CopyIsLatest
  BY DEF ShellInv, InOrder, NamedAll, O!CopyIsLatest
<1>4. O!EditsAreSeen
  <2> SUFFICES ASSUME NEW c \in Page, O!Listening(c), page[c].known = site.release, ~page[c].edited, ~page[c].off
               PROVE  /\ page[c].doc.of = site.release
                      /\ page[c].module \in {O!None, O!Served("module")} \/ page[c].mem
    BY DEF O!EditsAreSeen
  <2>1. Seen(page[c]) /\ page[c].known # 0
    BY DEF ShellInv, Pages, O!Listening
  <2>2. page[c].doc # O!None
    BY <2>1, KeyIs DEF Seen
  <2> QED BY <2>1, <2>2 DEF Seen, O!Served
<1> QED BY <1>1, <1>2, <1>3, <1>4

-----------------------------------------------------------------------------
(* The server.                                                               *)

\* A page whose place in what is edited is another.
LEMMA Rekeyed ==
  ASSUME NEW g \in Loaded, NEW known \in Nat, NEW edited \in BOOLEAN
  PROVE  [g EXCEPT !.known = known, !.edited = edited] \in Loaded
BY DEF Loaded

LEMMA ReplacedKeeps ==
  ASSUME ShellInv, NEW s \in [release : Nat \ {0}, whole : BOOLEAN, dev : BOOLEAN, script : Nat, name : O!Name],
         s.release = site.release, s.whole \/ s.dev,
         NEW listening, \A c \in listening : O!Listening(c), O!Replaced(s, listening)
  PROVE  ShellInv'
<1>0. /\ site' = [s EXCEPT !.release = @ + 1]
      /\ UNCHANGED <<up, held, worker, caches, puts, last, overtaken, stored, aside>>
      /\ site.release \in Nat \ {0} /\ ShellTypes
  BY DEF O!Replaced, O!history, O!comes, ShellInv, ShellTypes
<1>1. /\ site' \in [release : Nat \ {0}, whole : BOOLEAN, dev : BOOLEAN, script : Nat, name : O!Name]
      /\ site'.release = site.release + 1 /\ (site'.whole \/ site'.dev)
  BY <1>0
<1>2. \A c \in Page :
        /\ ~O!Open(c) => page'[c] = page[c]
        /\ O!Open(c) => page'[c] = [page[c] EXCEPT !.known = IF c \in listening THEN @ ELSE 0,
                                                 !.edited = @ \/ c \notin listening]
  BY DEF O!Replaced
<1>3. \A c \in Page :
        /\ O!Open(c) => page'[c] \in Loaded
        /\ ~O!Open(c) => page'[c] = O!Unused
  <2> SUFFICES ASSUME NEW c \in Page, O!Open(c) PROVE page'[c] \in Loaded
    BY <1>0, <1>2, PageIs
  <2>1. page[c] \in Loaded /\ page[c].known \in Nat /\ page[c].edited \in BOOLEAN
    BY <1>0, PageIs DEF Loaded
  <2> DEFINE known == IF c \in listening THEN page[c].known ELSE 0
             edited == page[c].edited \/ c \notin listening
  <2>2. known \in Nat /\ edited \in BOOLEAN
    BY <2>1
  <2>3. page'[c] = [page[c] EXCEPT !.known = known, !.edited = edited]
    BY <1>2
  <2>4. PICK k \in Nat, e \in BOOLEAN : page'[c] = [page[c] EXCEPT !.known = k, !.edited = e]
    BY <2>2, <2>3
  <2>5. [page[c] EXCEPT !.known = k, !.edited = e] \in Loaded
    BY <2>1, Rekeyed
  <2> QED BY <2>4, <2>5
<1>4. ShellTypes'
  <2>1. page' \in [Page -> Loaded \cup {O!Unused}]
    BY <1>3 DEF O!Replaced
  <2> QED BY <1>0, <1>1, <2>1 DEF ShellTypes
<1>5. NamedAll' /\ Stocked' /\ InOrder' /\ Held'
  BY <1>0, <1>1 DEF ShellInv, NamedAll, Stocked, InOrder, Held
<1>6. Keyed'
  <2>1. held.of \in Nat
    BY DEF ShellInv, ShellTypes, Copy
  <2> QED BY <1>0, <1>1, <2>1 DEF ShellInv, Keyed, OfKey
<1>7. Pages'
  <2> SUFFICES ASSUME NEW c \in Page, O!Open(c)' PROVE (Young(page[c]) /\ Seen(page[c]))'
    BY DEF Pages
  <2>1. O!Open(c) /\ page[c] \in Loaded
    BY <1>0, <1>3, PageIs DEF O!Open, O!Is, O!Unused
  <2>2. page'[c] = [page[c] EXCEPT !.known = IF c \in listening THEN @ ELSE 0, !.edited = @ \/ c \notin listening]
    BY <1>2, <2>1
  <2>3. Young(page[c]) /\ Seen(page[c])
    BY <2>1 DEF ShellInv, Pages
  <2>4. /\ page'[c].pc = page[c].pc /\ page'[c].oldest = page[c].oldest /\ page'[c].from = page[c].from
        /\ page'[c].doc = page[c].doc /\ page'[c].module = page[c].module /\ page'[c].off = page[c].off
        /\ page'[c].mem = page[c].mem /\ page'[c].dev = page[c].dev
        /\ page'[c].known = IF c \in listening THEN page[c].known ELSE 0
        /\ page'[c].edited = (page[c].edited \/ c \notin listening)
        /\ page[c].oldest \in Nat /\ page[c].from \in Nat /\ page[c].known \in Nat
    BY <2>1, <2>2 DEF Loaded
  <2>5. Young(page[c])'
    BY <1>0, <1>1, <2>3, <2>4 DEF Young
  <2>6. c \in listening => page[c].known # 0
    BY DEF O!Listening
  <2>7. Seen(page[c])'
    BY <1>0, <1>1, <2>3, <2>4, <2>6 DEF Seen
  <2> QED BY <2>5, <2>7
<1> QED BY <1>4, <1>5, <1>6, <1>7 DEF ShellInv

LEMMA DeployKeeps == ASSUME ShellInv, O!Deploy PROVE ShellInv'
<1> PICK whole \in BOOLEAN, script \in 0..1, name \in 0..1 :
      /\ O!Deploys(whole) /\ name <= script /\ site.name + name \in O!Name
      /\ O!Replaced([site EXCEPT !.whole = whole, !.script = @ + script, !.name = @ + name], {})
  BY DEF O!Deploy
<1>0. site \in [release : Nat \ {0}, whole : BOOLEAN, dev : BOOLEAN, script : Nat, name : O!Name] /\ whole = TRUE
  BY DEF ShellInv, ShellTypes, O!Deploys
<1> PICK a, b : a = site.script + script /\ b = site.name + name /\ a \in Nat /\ b \in O!Name
  BY <1>0
<1> PICK s : s = [site EXCEPT !.whole = whole, !.script = a, !.name = b]
  OBVIOUS
<1>1. s \in [release : Nat \ {0}, whole : BOOLEAN, dev : BOOLEAN, script : Nat, name : O!Name]
      /\ s.release = site.release /\ s.whole
  BY <1>0
<1>2. O!Replaced(s, {})
  OBVIOUS
<1> QED BY <1>1, <1>2, ReplacedKeeps

LEMMA EditKeeps == ASSUME ShellInv, O!Edit PROVE ShellInv'
<1> PICK whole \in BOOLEAN : O!Replaced([site EXCEPT !.whole = whole], {c \in Page : O!Listening(c)})
  BY DEF O!Edit
<1> DEFINE s == [site EXCEPT !.whole = whole]
<1>1. s \in [release : Nat \ {0}, whole : BOOLEAN, dev : BOOLEAN, script : Nat, name : O!Name]
      /\ s.release = site.release /\ s.dev
  BY DEF ShellInv, ShellTypes, O!Edit
<1>2. O!Replaced(s, {c \in Page : O!Listening(c)})
  OBVIOUS
<1> HIDE DEF s
<1> QED BY <1>1, <1>2, ReplacedKeeps

LEMMA ServeOtherKeeps == ASSUME ShellInv, O!ServeOther PROVE ShellInv'
<1>1. (~site.dev) \in BOOLEAN /\ O!Replaced([site EXCEPT !.dev = ~@], {})
  BY DEF O!ServeOther
<1>2. PICK dev \in BOOLEAN : dev = ~site.dev
  BY <1>1
<1>3. O!Replaced([site EXCEPT !.dev = dev], {}) /\ (dev \/ site.whole)
  BY <1>1, <1>2 DEF O!ServeOther, O!Deploys
<1> PICK s : s = [site EXCEPT !.dev = dev]
  OBVIOUS
<1>4. s \in [release : Nat \ {0}, whole : BOOLEAN, dev : BOOLEAN, script : Nat, name : O!Name]
      /\ s.release = site.release /\ (s.whole \/ s.dev)
  BY <1>3 DEF ShellInv, ShellTypes
<1> QED BY <1>3, <1>4, ReplacedKeeps

LEMMA LoseKeeps == ASSUME ShellInv, O!Lose PROVE ShellInv'
<1>0. /\ up' = FALSE /\ UNCHANGED <<site, held, worker, caches, puts, last, overtaken, stored, aside>> /\ ShellTypes
      /\ site.release \in Nat \ {0}
  BY DEF O!Lose, O!history, O!comes, ShellInv, ShellTypes
<1>2. \A c \in Page :
        /\ ~O!Listening(c) => page'[c] = page[c]
        /\ O!Listening(c) => page'[c] = [page[c] EXCEPT !.known = 0, !.edited = @ \/ page[c].known # site.release]
  BY DEF O!Lose
<1>3. \A c \in Page :
        /\ O!Open(c) => page'[c] \in Loaded
        /\ ~O!Open(c) => page'[c] = O!Unused
  <2>0. \A c \in Page : ~O!Open(c) => ~O!Listening(c)
    BY DEF O!Listening
  <2> SUFFICES ASSUME NEW c \in Page, O!Open(c) PROVE page'[c] \in Loaded
    BY <1>0, <1>2, <2>0, PageIs
  <2>1. page[c] \in Loaded /\ page[c].known \in Nat /\ page[c].edited \in BOOLEAN
    BY <1>0, PageIs DEF Loaded
  <2> DEFINE edited == page[c].edited \/ page[c].known # site.release
  <2>2. edited \in BOOLEAN
    BY <2>1
  <2>3. page'[c] = page[c] \/ page'[c] = [page[c] EXCEPT !.known = 0, !.edited = edited]
    BY <1>2
  <2>4. PICK e \in BOOLEAN : page'[c] = page[c] \/ page'[c] = [page[c] EXCEPT !.known = 0, !.edited = e]
    BY <2>2, <2>3
  <2>5. [page[c] EXCEPT !.known = 0, !.edited = e] \in Loaded
    BY <2>1, Rekeyed
  <2> QED BY <2>1, <2>4, <2>5
<1>4. ShellTypes'
  <2>1. page' \in [Page -> Loaded \cup {O!Unused}]
    BY <1>3 DEF O!Lose
  <2> QED BY <1>0, <2>1 DEF ShellTypes
<1>5. NamedAll' /\ Stocked' /\ InOrder' /\ Held' /\ Keyed'
  BY <1>0 DEF ShellInv, NamedAll, Stocked, InOrder, Keyed, OfKey, Held
<1>7. Pages'
  <2> SUFFICES ASSUME NEW c \in Page, O!Open(c)' PROVE (Young(page[c]) /\ Seen(page[c]))'
    BY DEF Pages
  <2>1. O!Open(c) /\ page[c] \in Loaded
    BY <1>0, <1>3, PageIs DEF O!Open, O!Is, O!Unused
  <2>3. Young(page[c]) /\ Seen(page[c])
    BY <2>1 DEF ShellInv, Pages
  <2>4. CASE ~O!Listening(c)
    BY <1>0, <1>2, <2>3, <2>4 DEF Young, Seen
  <2>5. CASE O!Listening(c)
    <3>4. /\ page'[c].pc = page[c].pc /\ page'[c].oldest = page[c].oldest /\ page'[c].from = page[c].from
          /\ page'[c].doc = page[c].doc /\ page'[c].module = page[c].module /\ page'[c].off = page[c].off
          /\ page'[c].mem = page[c].mem /\ page'[c].dev = page[c].dev
          /\ page'[c].known = 0
          /\ page'[c].edited = (page[c].edited \/ page[c].known # site.release)
      BY <1>2, <2>1, <2>5 DEF Loaded
    <3>5. Young(page[c])'
      BY <1>0, <2>3, <3>4 DEF Young
    <3>6. ~page'[c].edited => page[c].known = site.release /\ ~page[c].edited
      BY <3>4
    <3>7. Seen(page[c])'
      BY <1>0, <2>3, <3>4, <3>6 DEF Seen
    <3> QED BY <3>5, <3>7
  <2> QED BY <2>4, <2>5
<1> QED BY <1>4, <1>5, <1>7 DEF ShellInv

LEMMA RegainKeeps == ASSUME ShellInv, O!Regain PROVE ShellInv'
<1>0. up' = TRUE /\ UNCHANGED <<site, held, worker, caches, page, puts, last, overtaken, stored, aside>>
  BY DEF O!Regain, O!history, O!comes
<1>1. ShellTypes' /\ NamedAll' /\ Stocked' /\ Held'
  BY <1>0 DEF ShellInv, ShellTypes, NamedAll, Stocked, Held
<1>2. Keyed' /\ InOrder'
  BY <1>0 DEF ShellInv, Keyed, OfKey, InOrder
<1>3. Pages'
  BY <1>0 DEF ShellInv, Pages, O!Open, O!Is, Young, Seen
<1> QED BY <1>1, <1>2, <1>3 DEF ShellInv

LEMMA FiveMinutesKeeps == ASSUME ShellInv, O!FiveMinutes PROVE ShellInv'
<1>0. /\ held' = O!None /\ UNCHANGED <<site, up, worker, caches, page, puts, last, overtaken, stored, aside>>
      /\ site.release \in Nat
  BY DEF O!FiveMinutes, O!history, O!comes, ShellInv, ShellTypes
<1>1. ShellTypes' /\ NamedAll' /\ Stocked' /\ Held'
  BY <1>0, KeyIs DEF ShellInv, ShellTypes, NamedAll, Stocked, Held
<1>2. Keyed' /\ InOrder'
  BY <1>0, KeyIs DEF ShellInv, Keyed, OfKey, InOrder
<1>3. Pages'
  BY <1>0 DEF ShellInv, Pages, O!Open, O!Is, Young, Seen
<1> QED BY <1>1, <1>2, <1>3 DEF ShellInv

-----------------------------------------------------------------------------
(* What comes, and what is kept of it.                                       *)

LEMMA ComesIs ==
  ASSUME ShellTypes, NEW put \in Puts, O!Comes(put)
  PROVE  /\ last' \in Shelf /\ aside' \in BOOLEAN /\ (aside => aside') /\ (put.copy.is = "file" => aside')
         /\ overtaken \subseteq overtaken'
         /\ last'[put.name][put.key] = put.copy
         /\ \A n \in O!Name, k \in O!Key : n # put.name \/ k # put.key => last'[n][k] = last[n][k]
         /\ \A p \in puts : p.key = put.key => put.key \in overtaken'
<1>1. put.name \in O!Name /\ put.key \in O!Key /\ put.copy \in Copy
  BY KeyIs DEF Puts
<1>2. last' = [last EXCEPT ![put.name][put.key] = put.copy] /\ last \in Shelf
  BY DEF O!Comes, ShellTypes
<1>3. last' \in Shelf /\ last'[put.name][put.key] = put.copy
      /\ \A n \in O!Name, k \in O!Key : n # put.name \/ k # put.key => last'[n][k] = last[n][k]
  BY <1>1, <1>2 DEF Shelf
<1>4. overtaken' = overtaken \cup {p.key : p \in {p \in puts : p.key = put.key}}
  BY DEF O!Comes
<1>5. aside' = (aside \/ put.copy.is = "file")
  BY DEF O!Comes
<1> QED BY <1>3, <1>4, <1>5 DEF ShellTypes

\* A copy is on its way, and the last of its key that came.
LEMMA PutKeeps ==
  ASSUME ShellInv, NEW put \in Puts, O!Comes(put), puts' = puts \cup {put}, UNCHANGED caches,
         OfKey(put.key, put.copy) \/ put.copy.is = "file", put.key = "/" \/ put.copy.is # "file", put.copy.is # "none"
  PROVE  /\ last' \in Shelf /\ aside' \in BOOLEAN /\ puts' \subseteq Puts /\ (aside => aside')
         /\ \A p \in puts' : (OfKey(p.key, p.copy))' /\ p.copy.is # "none"
         /\ InOrder'
<1>0. ShellTypes /\ puts \subseteq Puts /\ put.key \in Kinds /\ put.name \in O!Name
  BY DEF ShellInv, ShellTypes, Puts
<1>1. /\ last' \in Shelf /\ aside' \in BOOLEAN /\ (aside => aside') /\ (put.copy.is = "file" => aside')
      /\ overtaken \subseteq overtaken'
      /\ last'[put.name][put.key] = put.copy
      /\ \A n \in O!Name, k \in O!Key : n # put.name \/ k # put.key => last'[n][k] = last[n][k]
      /\ \A p \in puts : p.key = put.key => put.key \in overtaken'
  BY <1>0, ComesIs
<1>2. \A p \in puts' : (OfKey(p.key, p.copy))' /\ p.copy.is # "none"
  <2>1. \A p \in puts : OfKey(p.key, p.copy) /\ p.copy.is # "none"
    BY DEF ShellInv, Keyed
  <2> QED BY <1>0, <1>1, <2>1 DEF OfKey, Kinds
<1>3. \A p \in puts : p.name \in O!Name /\ p.key \in O!Key
  BY <1>0, KeyIs DEF Puts
<1>4. ASSUME NEW p \in puts', NEW q \in puts', p.key = q.key, p.key \notin overtaken' PROVE p = q
  <2>1. CASE p \in puts /\ q \in puts
    BY <2>1, <1>1, <1>4 DEF ShellInv, InOrder
  <2> QED BY <1>1, <1>4, <2>1
<1>5. ASSUME NEW p \in puts', p.key \notin overtaken' PROVE p.copy = last'[p.name][p.key]
  <2>1. CASE p = put
    BY <2>1, <1>1
  <2>2. CASE p # put
    <3>1. p \in puts /\ p.key # put.key
      BY <2>2, <1>1, <1>5
    <3>2. p.copy = last[p.name][p.key]
      BY <3>1, <1>1, <1>5 DEF ShellInv, InOrder
    <3> QED BY <3>1, <3>2, <1>1, <1>3
  <2> QED BY <2>1, <2>2
<1>6. ASSUME NEW n \in O!Name, NEW k \in O!Key, k \notin overtaken'
      PROVE  caches[n][k] \in {O!None, last'[n][k]} \/ \E p \in puts' : p.name = n /\ p.key = k
  <2>1. CASE n = put.name /\ k = put.key
    BY <2>1
  <2>2. CASE n # put.name \/ k # put.key
    <3>1. last'[n][k] = last[n][k]
      BY <2>2, <1>1
    <3>2. caches[n][k] \in {O!None, last[n][k]} \/ \E p \in puts : p.name = n /\ p.key = k
      BY <1>1, <1>6 DEF ShellInv, InOrder
    <3> QED BY <3>1, <3>2
  <2> QED BY <2>1, <2>2
<1>7. InOrder'
  BY <1>4, <1>5, <1>6 DEF InOrder
<1> QED BY <1>0, <1>1, <1>2, <1>7

LEMMA KeepsKeeps ==
  ASSUME ShellInv, NEW c \in Page, O!Open(c), NEW what \in O!Key, NEW copy \in Copy,
         OfKey(O!KeyOf(what), copy) \/ copy.is = "file", what # "module" \/ copy.is # "file", copy.is # "none",
         O!Keeps(c, what, copy), UNCHANGED caches
  PROVE  /\ last' \in Shelf /\ aside' \in BOOLEAN /\ puts' \subseteq Puts /\ (aside => aside')
         /\ \A p \in puts' : (OfKey(p.key, p.copy))' /\ p.copy.is # "none"
         /\ InOrder'
<1>0. ShellTypes /\ page[c].by \in 0..2 /\ O!KeyOf(what) \in Kinds /\ (O!KeyOf(what) = "/" \/ what = "module")
  BY PageIs DEF ShellInv, Loaded, O!KeyOf, O!DOCUMENT, Kinds
<1>1. CASE page[c].by = 0
  <2>1. UNCHANGED <<puts, last, overtaken, aside>>
    BY <1>1 DEF O!Keeps, O!comes
  <2>2. \A p \in puts : OfKey(p.key, p.copy) /\ p.copy.is # "none"
    BY DEF ShellInv, Keyed
  <2>3. InOrder'
    BY <2>1 DEF ShellInv, InOrder
  <2> QED BY <1>0, <2>1, <2>2, <2>3 DEF OfKey, ShellTypes
<1>2. CASE page[c].by # 0
  <2> PICK put : put = [name |-> page[c].by, key |-> O!KeyOf(what), copy |-> copy]
    OBVIOUS
  <2>1. put \in Puts /\ put.key = O!KeyOf(what) /\ put.copy = copy
    BY <1>0, <1>2 DEF Puts, O!Name
  <2>2. puts' = puts \cup {put} /\ O!Comes(put)
    BY <1>2 DEF O!Keeps
  <2>3. put.key = "/" \/ put.copy.is # "file"
    BY <1>0, <2>1
  <2> QED BY <2>1, <2>2, <2>3, PutKeeps
<1> QED BY <1>1, <1>2

LEMMA ServedIs ==
  ASSUME ShellTypes, NEW what \in O!Key
  PROVE  /\ O!Served(what) \in Copy /\ O!Served(what).of = site.release /\ O!Served(what).is # "none"
         /\ OfKey(O!KeyOf(what), O!Served(what)) \/ O!Served(what).is = "file"
         /\ what # "module" \/ O!Served(what).is # "file"
         /\ O!Served("module") = [is |-> "module", of |-> site.release]
BY DEF ShellTypes, O!Served, Copy, OfKey, O!KeyOf, O!DOCUMENT

\* What a page changes of what is kept is nothing, but for what it has kept.
LEMMA OthersStay ==
  ASSUME ShellInv, UNCHANGED <<site, up, worker, caches, stored>>,
         page' \in [Page -> Loaded \cup {O!Unused}], Pages',
         held' \in Copy, held' = O!None \/ held'.is = "module", held'.is \in {"none", "module"}, held'.of <= site.release,
         last' \in Shelf, aside' \in BOOLEAN, puts' \subseteq Puts, aside => aside',
         \A p \in puts' : (OfKey(p.key, p.copy))' /\ p.copy.is # "none",
         InOrder'
  PROVE  ShellInv'
<1>1. ShellTypes' /\ NamedAll' /\ Stocked'
  BY DEF ShellInv, ShellTypes, NamedAll, Stocked
<1>2. Keyed' /\ Held'
  BY DEF ShellInv, Keyed, OfKey, Held
<1> QED BY <1>1, <1>2 DEF ShellInv

\* A page that changes alone.
LEMMA PageMoves ==
  ASSUME ShellInv, NEW c \in Page, NEW to \in Loaded, O!Becomes(c, to),
         UNCHANGED <<site, held, worker, caches, stored, puts, last, overtaken, aside>>, up' \in BOOLEAN,
         (Young(page[c]) /\ Seen(page[c]))'
  PROVE  ShellInv'
<1>1. /\ page' \in [Page -> Loaded \cup {O!Unused}]
      /\ page'[c] = to /\ \A o \in Page \ {c} : page'[o] = page[o]
  BY PageBecomes DEF ShellInv
<1>2. Pages'
  BY <1>1, PagesOf DEF ShellInv
<1>3. ShellTypes' /\ NamedAll' /\ Stocked' /\ Held'
  BY <1>1 DEF ShellInv, ShellTypes, NamedAll, Stocked, Held
<1>4. Keyed' /\ InOrder'
  BY DEF ShellInv, Keyed, OfKey, InOrder
<1> QED BY <1>2, <1>3, <1>4 DEF ShellInv

LEMMA LoadingIs ==
  ASSUME ShellInv, NEW to \in O!Key
  PROVE  \E g \in Loaded :
           /\ g = O!Loading(to) /\ g.pc = "document" /\ g.doc = O!None /\ g.module = O!None
           /\ g.from = site.release /\ g.oldest = (IF held = O!None THEN site.release ELSE held.of)
           /\ ~g.off /\ g.known = 0
<1>1. worker.active.name \in 0..2 /\ O!None \in Copy /\ site.release \in Nat /\ held.of \in Nat
  BY KeyIs DEF ShellInv, ShellTypes, Offer, Copy
<1>2. O!Loading(to) \in Loaded
  BY <1>1 DEF O!Loading, Loaded
<1> QED BY <1>2 DEF O!Loading

\* A page that starts over.
LEMMA LoadKeeps ==
  ASSUME ShellInv, NEW c \in Page, NEW to \in O!Key, page' = [page EXCEPT ![c] = O!Loading(to)],
         UNCHANGED <<site, up, held, worker, caches, stored, puts, last, overtaken, aside>>
  PROVE  ShellInv'
<1> PICK g \in Loaded :
      /\ g = O!Loading(to) /\ g.pc = "document" /\ g.doc = O!None /\ g.module = O!None
      /\ g.from = site.release /\ g.oldest = (IF held = O!None THEN site.release ELSE held.of)
      /\ ~g.off /\ g.known = 0
  BY LoadingIs
<1>1. O!Becomes(c, g) /\ page'[c] = g /\ up' \in BOOLEAN
  BY DEF O!Becomes, ShellInv, ShellTypes
<1>2. site.release \in Nat /\ held.of \in Nat /\ held.of <= site.release /\ O!None.of = 0
  BY KeyIs DEF ShellInv, ShellTypes, Copy, Keyed
<1>3. (Young(page[c]) /\ Seen(page[c]))'
  BY <1>1, <1>2 DEF Young, Seen
<1> QED BY <1>1, <1>3, PageMoves

LEMMA NavigateKeeps == ASSUME ShellInv, NEW c \in Page, NEW to \in O!Key, O!Navigate(c, to) PROVE ShellInv'
BY LoadKeeps DEF O!Navigate, O!history, O!comes

LEMMA TickKeeps == ASSUME ShellInv, NEW c \in Page, O!Tick(c) PROVE ShellInv'
<1>1. O!Open(c)
  BY DEF O!Tick, O!Listening
<1>2. page[c].to \in O!Key
  BY <1>1, PageIs DEF ShellInv, Loaded
<1> QED BY <1>2, LoadKeeps DEF O!Tick, O!Becomes, O!history, O!comes

LEMMA GetDocumentKeeps == ASSUME ShellInv, NEW c \in Page, O!GetDocument(c) PROVE ShellInv'
<1> PICK g \in Loaded : g = page[c]
  BY PageIs DEF O!GetDocument, O!Is, ShellInv, O!Open
<1>0. /\ g.pc = "document" /\ g.to \in O!Key /\ O!Open(c) /\ ShellTypes /\ Young(g) /\ Seen(g)
      /\ UNCHANGED <<site, up, held, worker, caches, stored>>
      /\ site.release \in Nat /\ held \in Copy /\ held.is \in {"none", "module"} /\ held.of <= site.release
  BY DEF O!GetDocument, O!Is, ShellInv, ShellTypes, O!Open, Loaded, Pages, Keyed
<1>1. CASE up /\ O!Keeps(c, page[c].to, O!Served(page[c].to)) /\ O!Becomes(c, O!Asked(c, O!Served(page[c].to)))
  <2> PICK doc \in Copy : doc = O!Served(g.to) /\ doc.of = site.release /\ doc.is # "none"
    BY <1>0, ServedIs
  <2>1. PICK pc \in {"module", "shown"} : O!Becomes(c, [g EXCEPT !.pc = pc, !.doc = doc])
    BY <1>1 DEF O!Asked
  <2> PICK to : to = [g EXCEPT !.pc = pc, !.doc = doc]
    OBVIOUS
  <2>2. /\ to \in Loaded /\ to.pc = pc /\ to.doc = doc /\ to.module = g.module /\ to.from = g.from /\ to.oldest = g.oldest
        /\ to.off = g.off /\ to.mem = g.mem /\ to.known = g.known /\ to.edited = g.edited
    BY DEF Loaded
  <2>3. O!Becomes(c, to)
    BY <2>1
  <2>4. /\ page' \in [Page -> Loaded \cup {O!Unused}]
        /\ page'[c] = to /\ \A o \in Page \ {c} : page'[o] = page[o]
    BY <1>0, <2>2, <2>3, PageBecomes
  <2>5. (Young(page[c]) /\ Seen(page[c]))'
    <3>1. g.known = 0
      BY <1>0, KeyIs DEF Young, Seen
    <3>2. Young(page[c])'
      BY <1>0, <2>2, <2>4 DEF Young
    <3>3. g.module = O!None
      BY <1>0 DEF Young
    <3>4. Seen(page[c])'
      BY <1>0, <2>2, <2>4, <3>1, <3>3 DEF Seen
    <3> QED BY <3>2, <3>4
  <2>6. Pages'
    BY <1>0, <2>4, <2>5, PagesOf DEF ShellInv
  <2>7. /\ last' \in Shelf /\ aside' \in BOOLEAN /\ puts' \subseteq Puts /\ (aside => aside')
        /\ \A p \in puts' : (OfKey(p.key, p.copy))' /\ p.copy.is # "none"
        /\ InOrder'
    <3>1. /\ OfKey(O!KeyOf(g.to), doc) \/ doc.is = "file"
          /\ g.to # "module" \/ doc.is # "file"
      BY <1>0, ServedIs
    <3>2. O!Keeps(c, g.to, doc)
      BY <1>1
    <3> QED BY <1>0, <3>1, <3>2, KeepsKeeps
  <2> QED BY <1>0, <2>4, <2>6, <2>7, OthersStay DEF ShellInv, Held
<1>2. ASSUME NEW to \in Loaded, O!Becomes(c, to), to.off,
             to.pc \in {"module", "shown", "broken"}, to.module = g.module, to.oldest = g.oldest, to.known = g.known,
             UNCHANGED <<puts, last, overtaken, aside>>, to.known # 0 => to.doc.is = "dev"
      PROVE  ShellInv'
  <2>1. page'[c] = to /\ up' \in BOOLEAN
    BY <1>0, <1>2 DEF O!Becomes, ShellTypes
  <2>2. (Young(page[c]) /\ Seen(page[c]))'
    BY <1>0, <1>2, <2>1 DEF Young, Seen
  <2> QED BY <1>0, <1>2, <2>1, <2>2, PageMoves
<1>3. g.known = 0
  BY <1>0, KeyIs DEF Young, Seen
<1>4. ASSUME NEW doc \in O!Kept(c, page[c].to), O!Becomes(c, [O!Asked(c, doc) EXCEPT !.off = TRUE]), UNCHANGED <<puts, O!comes>>
      PROVE  ShellInv'
  <2>1. doc \in Copy
    <3>1. O!KeyOf(g.to) \in O!Key
      BY <1>0, KeyIs DEF O!KeyOf, O!DOCUMENT, Kinds
    <3> QED BY <1>0, <1>4, <3>1 DEF O!Kept, ShellTypes, Shelf
  <2>2. PICK pc \in {"module", "shown"} : O!Becomes(c, [g EXCEPT !.pc = pc, !.doc = doc, !.off = TRUE])
    BY <1>4 DEF O!Asked
  <2> PICK to : to = [g EXCEPT !.pc = pc, !.doc = doc, !.off = TRUE]
    OBVIOUS
  <2>3. to \in Loaded /\ to.off /\ to.pc = pc /\ to.module = g.module /\ to.oldest = g.oldest /\ to.known = g.known
    BY <2>1 DEF Loaded
  <2> QED BY <1>2, <1>3, <1>4, <2>2, <2>3 DEF O!comes
<1>5. ASSUME O!Becomes(c, [page[c] EXCEPT !.pc = "broken", !.off = TRUE]), UNCHANGED <<puts, O!comes>>
      PROVE  ShellInv'
  <2> PICK to : to = [g EXCEPT !.pc = "broken", !.off = TRUE]
    OBVIOUS
  <2>3. to \in Loaded /\ to.off /\ to.pc = "broken" /\ to.module = g.module /\ to.oldest = g.oldest /\ to.known = g.known
    BY DEF Loaded
  <2> QED BY <1>2, <1>3, <1>5, <2>3 DEF O!comes
<1> QED BY <1>1, <1>4, <1>5 DEF O!GetDocument

LEMMA HasIs ==
  ASSUME ShellTypes, NEW c \in Page, O!Open(c), NEW module \in Copy, NEW off \in BOOLEAN, NEW mem \in BOOLEAN,
         O!Becomes(c, O!Has(c, module, off, mem))
  PROVE  \E to \in Loaded :
           /\ O!Becomes(c, to) /\ to.pc = "loaded" /\ to.module = module /\ to.mem = mem
           /\ (to.off <=> page[c].off \/ off)
           /\ to.doc = page[c].doc /\ to.from = page[c].from /\ to.oldest = page[c].oldest
           /\ to.known = page[c].known /\ to.edited = page[c].edited
<1> PICK g \in Loaded : g = page[c]
  BY PageIs
<1> PICK e \in BOOLEAN : e = (g.off \/ off)
  BY DEF Loaded
<1>1. O!Becomes(c, [g EXCEPT !.pc = "loaded", !.module = module, !.off = e, !.mem = mem])
  BY DEF O!Has
<1> PICK to : to = [g EXCEPT !.pc = "loaded", !.module = module, !.off = e, !.mem = mem]
  OBVIOUS
<1>2. to \in Loaded
  BY DEF Loaded
<1>3. /\ to.pc = "loaded" /\ to.module = module /\ to.mem = mem /\ to.off = e
      /\ to.doc = g.doc /\ to.from = g.from /\ to.oldest = g.oldest
      /\ to.known = g.known /\ to.edited = g.edited
  BY DEF Loaded
<1>4. O!Becomes(c, to)
  BY <1>1
<1> QED BY <1>2, <1>3, <1>4

LEMMA BreaksIs ==
  ASSUME ShellInv, NEW c \in Page, O!Open(c), NEW off \in BOOLEAN, O!Becomes(c, O!Breaks(c, off))
  PROVE  \E to \in Loaded :
           /\ O!Becomes(c, to) /\ to.pc = "broken" /\ to.dev = site.dev
           /\ (to.off <=> page[c].off \/ off)
           /\ to.doc = page[c].doc /\ to.from = page[c].from /\ to.oldest = page[c].oldest
           /\ to.module = page[c].module /\ to.mem = page[c].mem
           /\ to.known = page[c].known /\ to.edited = page[c].edited
<1> PICK g \in Loaded : g = page[c]
  BY PageIs DEF ShellInv
<1> PICK e \in BOOLEAN : e = (g.off \/ off)
  BY DEF Loaded
<1> PICK d \in BOOLEAN : d = site.dev
  BY DEF ShellInv, ShellTypes
<1>1. O!Becomes(c, [g EXCEPT !.pc = "broken", !.off = e, !.dev = d])
  BY DEF O!Breaks
<1> PICK to : to = [g EXCEPT !.pc = "broken", !.off = e, !.dev = d]
  OBVIOUS
<1>2. to \in Loaded
  BY DEF Loaded
<1>3. /\ to.pc = "broken" /\ to.module = g.module /\ to.mem = g.mem /\ to.off = e /\ to.dev = d
      /\ to.doc = g.doc /\ to.from = g.from /\ to.oldest = g.oldest
      /\ to.known = g.known /\ to.edited = g.edited
  BY DEF Loaded
<1>4. O!Becomes(c, to)
  BY <1>1
<1> QED BY <1>2, <1>3, <1>4

LEMMA GetModuleKeeps == ASSUME ShellInv, NEW c \in Page, O!GetModule(c) PROVE ShellInv'
<1> PICK g \in Loaded : g = page[c]
  BY PageIs DEF O!GetModule, O!Is, ShellInv, O!Open
<1>0. /\ g.pc = "module" /\ O!Open(c) /\ ShellTypes /\ Young(g) /\ Seen(g) /\ g.module = O!None
      /\ UNCHANGED <<site, up, worker, caches, stored>> /\ "module" \in O!Key
      /\ site.release \in Nat /\ held \in Copy /\ held.is \in {"none", "module"} /\ held.of <= site.release
      /\ O!KeyOf("module") = "module"
  BY KeyIs DEF O!GetModule, O!Is, ShellInv, ShellTypes, O!Open, Pages, Keyed, Young, O!KeyOf
<1>1. CASE held # O!None /\ O!Keeps(c, "module", held) /\ O!Becomes(c, O!Has(c, held, FALSE, TRUE)) /\ held' = held
  <2>1. PICK to \in Loaded :
           /\ O!Becomes(c, to) /\ to.pc = "loaded" /\ to.module = held /\ to.mem = TRUE
           /\ (to.off <=> g.off)
           /\ to.doc = g.doc /\ to.from = g.from /\ to.oldest = g.oldest
           /\ to.known = g.known /\ to.edited = g.edited
    <3>1. ShellTypes /\ O!Open(c) /\ held \in Copy
      BY <1>0, <1>1
    <3>2. ASSUME NEW off \in BOOLEAN, NEW mem \in BOOLEAN, O!Becomes(c, O!Has(c, held, off, mem))
          PROVE  \E to \in Loaded :
             /\ O!Becomes(c, to) /\ to.pc = "loaded" /\ to.module = held /\ to.mem = mem
             /\ (to.off <=> page[c].off \/ off)
             /\ to.doc = page[c].doc /\ to.from = page[c].from /\ to.oldest = page[c].oldest
             /\ to.known = page[c].known /\ to.edited = page[c].edited
      BY <3>1, <3>2, HasIs
    <3>3. \E to \in Loaded :
             /\ O!Becomes(c, to) /\ to.pc = "loaded" /\ to.module = held /\ to.mem = TRUE
             /\ (to.off <=> page[c].off \/ FALSE)
             /\ to.doc = page[c].doc /\ to.from = page[c].from /\ to.oldest = page[c].oldest
             /\ to.known = page[c].known /\ to.edited = page[c].edited
      BY <1>1, <3>2
    <3> QED BY <3>3
  <2>4. /\ page' \in [Page -> Loaded \cup {O!Unused}]
        /\ page'[c] = to /\ \A o \in Page \ {c} : page'[o] = page[o]
    BY <1>0, <2>1, PageBecomes
  <2>5. (Young(page[c]) /\ Seen(page[c]))'
    <3>1. Young(page[c])'
      BY <1>0, <1>1, <2>1, <2>4 DEF Young
    <3>2. Seen(page[c])'
      BY <1>0, <2>1, <2>4 DEF Seen
    <3> QED BY <3>1, <3>2
  <2>6. Pages'
    BY <1>0, <1>1, <2>4, <2>5, PagesOf DEF ShellInv
  <2>8. held.is # "none"
    BY <1>1 DEF ShellInv, Held
  <2>7. /\ last' \in Shelf /\ aside' \in BOOLEAN /\ puts' \subseteq Puts /\ (aside => aside')
        /\ \A p \in puts' : (OfKey(p.key, p.copy))' /\ p.copy.is # "none"
        /\ InOrder'
    BY <1>0, <1>1, <2>8, KeepsKeeps DEF OfKey
  <2> QED BY <1>0, <1>1, <2>4, <2>6, <2>7, OthersStay DEF ShellInv, Held
<1>2. CASE /\ held = O!None /\ up /\ site.whole
           /\ held' = IF site.dev THEN O!None ELSE O!Served("module")
           /\ O!Keeps(c, "module", O!Served("module")) /\ O!Becomes(c, O!Has(c, O!Served("module"), FALSE, FALSE))
  <2> PICK module \in Copy : module = O!Served("module") /\ module = [is |-> "module", of |-> site.release]
    BY <1>0, ServedIs
  <2>0. module.is = "module" /\ module.of = site.release /\ (held' = O!None \/ held' = module)
    BY <1>2
  <2>1. PICK to \in Loaded :
           /\ O!Becomes(c, to) /\ to.pc = "loaded" /\ to.module = module /\ to.mem = FALSE
           /\ (to.off <=> g.off)
           /\ to.doc = g.doc /\ to.from = g.from /\ to.oldest = g.oldest
           /\ to.known = g.known /\ to.edited = g.edited
    <3>1. ShellTypes /\ O!Open(c) /\ module \in Copy
      BY <1>0, <1>2
    <3>2. ASSUME NEW off \in BOOLEAN, NEW mem \in BOOLEAN, O!Becomes(c, O!Has(c, module, off, mem))
          PROVE  \E to \in Loaded :
             /\ O!Becomes(c, to) /\ to.pc = "loaded" /\ to.module = module /\ to.mem = mem
             /\ (to.off <=> page[c].off \/ off)
             /\ to.doc = page[c].doc /\ to.from = page[c].from /\ to.oldest = page[c].oldest
             /\ to.known = page[c].known /\ to.edited = page[c].edited
      BY <3>1, <3>2, HasIs
    <3>3. \E to \in Loaded :
             /\ O!Becomes(c, to) /\ to.pc = "loaded" /\ to.module = module /\ to.mem = FALSE
             /\ (to.off <=> page[c].off \/ FALSE)
             /\ to.doc = page[c].doc /\ to.from = page[c].from /\ to.oldest = page[c].oldest
             /\ to.known = page[c].known /\ to.edited = page[c].edited
      BY <1>2, <3>2
    <3> QED BY <3>3
  <2>4. /\ page' \in [Page -> Loaded \cup {O!Unused}]
        /\ page'[c] = to /\ \A o \in Page \ {c} : page'[o] = page[o]
    BY <1>0, <2>1, PageBecomes
  <2>5. (Young(page[c]) /\ Seen(page[c]))'
    <3>1. Young(page[c])'
      BY <1>0, <2>0, <2>1, <2>4 DEF Young
    <3>2. Seen(page[c])'
      BY <1>0, <2>0, <2>1, <2>4 DEF Seen
    <3> QED BY <3>1, <3>2
  <2>6. Pages'
    BY <1>0, <2>0, <2>4, <2>5, PagesOf DEF ShellInv
  <2>7. /\ last' \in Shelf /\ aside' \in BOOLEAN /\ puts' \subseteq Puts /\ (aside => aside')
        /\ \A p \in puts' : (OfKey(p.key, p.copy))' /\ p.copy.is # "none"
        /\ InOrder'
    BY <1>0, <1>2, <2>0, KeepsKeeps DEF OfKey
  <2>8. held' \in Copy /\ (held' = O!None \/ held'.is = "module") /\ held'.is \in {"none", "module"} /\ held'.of <= site.release
    BY <1>0, <2>0, KeyIs
  <2> QED BY <1>0, <2>4, <2>6, <2>7, <2>8, OthersStay
<1>3. CASE held = O!None /\ up /\ ~site.whole /\ O!Becomes(c, O!Breaks(c, FALSE)) /\ UNCHANGED <<held, puts, O!comes>>
  <2>1. PICK to \in Loaded :
           /\ O!Becomes(c, to) /\ to.pc = "broken" /\ to.dev = site.dev
           /\ (to.off <=> g.off)
           /\ to.doc = g.doc /\ to.from = g.from /\ to.oldest = g.oldest
           /\ to.module = g.module /\ to.mem = g.mem
           /\ to.known = g.known /\ to.edited = g.edited
    BY <1>0, <1>3, BreaksIs
  <2>2. page'[c] = to /\ up' \in BOOLEAN /\ site.dev
    BY <1>0, <1>3, <2>1 DEF O!Becomes, ShellTypes, ShellInv, NamedAll
  <2>3. Young(page[c])'
    BY <1>0, <2>1, <2>2 DEF Young
  <2>4. Seen(page[c])'
    BY <1>0, <2>1, <2>2 DEF Seen
  <2> QED BY <1>0, <1>3, <2>1, <2>2, <2>3, <2>4, PageMoves DEF O!comes
<1>4. ASSUME NEW module \in O!Kept(c, "module"), O!Becomes(c, O!Has(c, module, TRUE, FALSE)), UNCHANGED <<held, puts, O!comes>>
      PROVE  ShellInv'
  <2>0. module \in Copy
    BY <1>0, <1>4 DEF O!Kept, ShellTypes, Shelf
  <2>1. PICK to \in Loaded :
           /\ O!Becomes(c, to) /\ to.pc = "loaded" /\ to.module = module /\ to.mem = FALSE
           /\ to.off
           /\ to.doc = g.doc /\ to.from = g.from /\ to.oldest = g.oldest
           /\ to.known = g.known /\ to.edited = g.edited
    <3>1. ShellTypes /\ O!Open(c) /\ module \in Copy
      BY <1>0, <1>4, <2>0
    <3>2. ASSUME NEW off \in BOOLEAN, NEW mem \in BOOLEAN, O!Becomes(c, O!Has(c, module, off, mem))
          PROVE  \E to \in Loaded :
             /\ O!Becomes(c, to) /\ to.pc = "loaded" /\ to.module = module /\ to.mem = mem
             /\ (to.off <=> page[c].off \/ off)
             /\ to.doc = page[c].doc /\ to.from = page[c].from /\ to.oldest = page[c].oldest
             /\ to.known = page[c].known /\ to.edited = page[c].edited
      BY <3>1, <3>2, HasIs
    <3>3. \E to \in Loaded :
             /\ O!Becomes(c, to) /\ to.pc = "loaded" /\ to.module = module /\ to.mem = FALSE
             /\ (to.off <=> page[c].off \/ TRUE)
             /\ to.doc = page[c].doc /\ to.from = page[c].from /\ to.oldest = page[c].oldest
             /\ to.known = page[c].known /\ to.edited = page[c].edited
      BY <1>4, <3>2
    <3> QED BY <3>3
  <2>2. page'[c] = to /\ up' \in BOOLEAN
    BY <1>0, <2>1 DEF O!Becomes, ShellTypes
  <2>3. Young(page[c])'
    BY <1>0, <2>1, <2>2 DEF Young
  <2>4. Seen(page[c])'
    BY <1>0, <2>1, <2>2 DEF Seen
  <2> QED BY <1>0, <1>4, <2>1, <2>2, <2>3, <2>4, PageMoves DEF O!comes
<1>5. ASSUME O!Becomes(c, O!Breaks(c, TRUE)), UNCHANGED <<held, puts, O!comes>>
      PROVE  ShellInv'
  <2>1. PICK to \in Loaded :
           /\ O!Becomes(c, to) /\ to.pc = "broken" /\ to.dev = site.dev
           /\ to.off
           /\ to.doc = g.doc /\ to.from = g.from /\ to.oldest = g.oldest
           /\ to.module = g.module /\ to.mem = g.mem
           /\ to.known = g.known /\ to.edited = g.edited
    BY <1>0, <1>5, BreaksIs
  <2>2. page'[c] = to /\ up' \in BOOLEAN
    BY <1>0, <2>1 DEF O!Becomes, ShellTypes
  <2>3. Young(page[c])'
    BY <1>0, <2>1, <2>2 DEF Young
  <2>4. Seen(page[c])'
    BY <1>0, <2>1, <2>2 DEF Seen
  <2> QED BY <1>0, <1>5, <2>1, <2>2, <2>3, <2>4, PageMoves DEF O!comes
<1> QED BY <1>1, <1>2, <1>3, <1>4, <1>5 DEF O!GetModule

\* What is on its way lands.
LEMMA LandKeeps == ASSUME ShellInv, NEW p \in puts, O!Land(p) PROVE ShellInv'
<1>0. /\ ShellTypes /\ puts' = puts \ {p} /\ caches' = [caches EXCEPT ![p.name][p.key] = p.copy]
      /\ stored' = (IF p.name = worker.active.name THEN stored \cup {p.copy.is} ELSE stored)
      /\ UNCHANGED <<site, up, held, worker, page, last, overtaken, aside>>
      /\ p.name \in O!Name /\ p.key \in Kinds /\ p.key \in O!Key /\ p.copy \in Copy /\ caches \in Shelf
      /\ OfKey(p.key, p.copy) /\ p.copy.is # "none" /\ puts \subseteq Puts
  BY KeyIs DEF O!Land, O!history, O!comes, ShellInv, ShellTypes, Puts, Keyed
<1>1. /\ caches' \in Shelf /\ caches'[p.name][p.key] = p.copy
      /\ \A n \in O!Name, k \in O!Key : n # p.name \/ k # p.key => caches'[n][k] = caches[n][k]
  BY <1>0 DEF Shelf
<1>2. ShellTypes' /\ NamedAll' /\ Held'
  BY <1>0, <1>1 DEF ShellInv, ShellTypes, NamedAll, Held
<1>3. Pages'
  BY <1>0 DEF ShellInv, Pages, O!Open, O!Is, Young, Seen
<1>4. Keyed'
  <2>1. ASSUME NEW n \in O!Name, NEW k \in Kinds PROVE OfKey(k, caches'[n][k])
    <3>1. CASE n = p.name /\ k = p.key
      BY <3>1, <1>0, <1>1
    <3>2. CASE n # p.name \/ k # p.key
      BY <3>2, <1>1, KeyIs DEF ShellInv, Keyed
    <3> QED BY <3>1, <3>2
  <2> QED BY <1>0, <2>1 DEF ShellInv, Keyed, OfKey
<1>5. InOrder'
  <2>1. ASSUME NEW n \in O!Name, NEW k \in O!Key, k \notin overtaken
        PROVE  caches'[n][k] \in {O!None, last[n][k]} \/ \E q \in puts' : q.name = n /\ q.key = k
    <3>1. CASE n = p.name /\ k = p.key
      BY <3>1, <2>1, <1>1 DEF ShellInv, InOrder
    <3>2. CASE n # p.name \/ k # p.key
      BY <3>2, <2>1, <1>0, <1>1 DEF ShellInv, InOrder
    <3> QED BY <3>1, <3>2
  <2> QED BY <1>0, <2>1 DEF ShellInv, InOrder
<1>6. Stocked'
  <2> DEFINE a == worker.active.name
  <2>1. CASE worker.active = O!NoOne
    <3>1. p.name # a
      BY <2>1, <1>0 DEF O!NoOne, O!Name
    <3> QED BY <2>1, <3>1, <1>0 DEF ShellInv, Stocked
  <2>2. CASE worker.active # O!NoOne
    <3>0. a \in O!Name /\ "module" \in O!Key /\ "/" \in O!Key
      BY <2>2, KeyIs DEF ShellInv, NamedAll
    <3>1. ASSUME "module" \in stored' PROVE caches'[a]["module"].is # "none"
      <4>1. CASE p.name = a /\ p.key = "module"
        BY <4>1, <1>0, <1>1
      <4>2. CASE ~(p.name = a /\ p.key = "module")
        <5>1. caches'[a]["module"] = caches[a]["module"]
          BY <4>2, <3>0, <1>1
        <5>2. "module" \in stored
          BY <3>1, <4>2, <1>0 DEF OfKey
        <5> QED BY <5>1, <5>2, <2>2 DEF ShellInv, Stocked
      <4> QED BY <4>1, <4>2
    <3>2. ASSUME stored' \cap {"app", "dev"} # {} PROVE caches'[a]["/"].is # "none"
      <4>1. CASE p.name = a /\ p.key = "/"
        BY <4>1, <1>0, <1>1
      <4>2. CASE ~(p.name = a /\ p.key = "/")
        <5>1. caches'[a]["/"] = caches[a]["/"]
          BY <4>2, <3>0, <1>1
        <5>2. stored \cap {"app", "dev"} # {}
          BY <3>2, <4>2, <1>0 DEF OfKey, Kinds
        <5> QED BY <5>1, <5>2, <2>2 DEF ShellInv, Stocked
      <4> QED BY <4>1, <4>2
    <3> QED BY <2>2, <3>1, <3>2, <1>0 DEF Stocked
  <2> QED BY <2>1, <2>2
<1> QED BY <1>2, <1>3, <1>4, <1>5, <1>6 DEF ShellInv

\* A page that has started is asked nothing any more.
LEMMA StartedIs ==
  ASSUME ShellInv, NEW c \in Page, O!Is(c, "loaded") \/ O!Is(c, "emptying"),
         O!Becomes(c, [page[c] EXCEPT !.pc = "started", !.from = 0, !.oldest = 0]),
         UNCHANGED <<site, held>>
  PROVE  page' \in [Page -> Loaded \cup {O!Unused}] /\ Pages'
<1> PICK g \in Loaded : g = page[c]
  BY PageIs DEF O!Is, ShellInv, O!Open
<1> PICK to : to = [g EXCEPT !.pc = "started", !.from = 0, !.oldest = 0]
  OBVIOUS
<1>1. /\ to \in Loaded /\ to.pc = "started" /\ to.from = 0 /\ to.oldest = 0 /\ to.doc = g.doc /\ to.module = g.module
      /\ to.off = g.off /\ to.mem = g.mem /\ to.known = g.known /\ to.edited = g.edited
      /\ to.doc.of \in Nat /\ to.module.of \in Nat
  BY DEF Loaded, Copy
<1>2. O!Becomes(c, to) /\ Seen(g)
  BY DEF ShellInv, Pages, O!Open, O!Is
<1>3. /\ page' \in [Page -> Loaded \cup {O!Unused}]
      /\ page'[c] = to /\ \A o \in Page \ {c} : page'[o] = page[o]
  BY <1>1, <1>2, PageBecomes DEF ShellInv
<1>4. Young(page[c])'
  BY <1>1, <1>3 DEF Young
<1>5. Seen(page[c])'
  BY <1>1, <1>2, <1>3 DEF Seen
<1> QED BY <1>3, <1>4, <1>5, PagesOf DEF ShellInv

LEMMA RegisterKeeps == ASSUME ShellInv, NEW c \in Page, O!Register(c) PROVE ShellInv'
<1>0. /\ UNCHANGED <<site, up, held, caches, puts, last, overtaken, stored, aside>> /\ ShellTypes
      /\ worker' = IF up /\ ~site.dev /\ worker.active # O!Offered /\ worker.next # O!Offered
                   THEN [worker EXCEPT !.next = O!Offered, !.installed = FALSE] ELSE worker
  BY DEF O!Register, O!history, O!comes, ShellInv
<1>1. page' \in [Page -> Loaded \cup {O!Unused}] /\ Pages'
  BY StartedIs DEF O!Register
<1>2. O!Offered \in Offer /\ O!Offered.name \in O!Name
  BY <1>0 DEF O!Offered, Offer, ShellTypes, O!Name
<1>3. /\ worker' \in [active : Offer, next : Offer, installed : BOOLEAN]
      /\ worker'.active = worker.active
      /\ worker' = worker \/ (worker'.next.name \in O!Name /\ ~worker'.installed)
  BY <1>0, <1>2 DEF ShellTypes
<1>4. ShellTypes'
  BY <1>0, <1>1, <1>3 DEF ShellTypes
<1>5. NamedAll' /\ Stocked' /\ Held'
  BY <1>0, <1>3 DEF ShellInv, NamedAll, Stocked, Held
<1>6. Keyed' /\ InOrder'
  BY <1>0 DEF ShellInv, Keyed, OfKey, InOrder
<1> QED BY <1>1, <1>4, <1>5, <1>6 DEF ShellInv

LEMMA UnregisterKeeps == ASSUME ShellInv, NEW c \in Page, O!Unregister(c) PROVE ShellInv'
<1>0. /\ UNCHANGED <<site, up, held, caches, puts, last, overtaken, aside>> /\ ShellTypes
      /\ worker' = O!NoWorker /\ stored' = {} /\ O!Is(c, "loaded") /\ O!Becomes(c, [page[c] EXCEPT !.pc = "emptying"])
  BY DEF O!Unregister, O!history, O!comes, ShellInv
<1>1. worker' \in [active : Offer, next : Offer, installed : BOOLEAN] /\ NamedAll'
  BY <1>0 DEF O!NoWorker, O!NoOne, Offer, ShellInv, NamedAll
<1> PICK g \in Loaded : g = page[c]
  BY <1>0, PageIs DEF O!Is, O!Open
<1> PICK to : to = [g EXCEPT !.pc = "emptying"]
  OBVIOUS
<1>2. /\ to \in Loaded /\ to.pc = "emptying" /\ to.from = g.from /\ to.oldest = g.oldest /\ to.doc = g.doc /\ to.module = g.module
      /\ to.off = g.off /\ to.mem = g.mem /\ to.known = g.known /\ to.edited = g.edited
  BY DEF Loaded
<1>3. O!Becomes(c, to) /\ Young(g) /\ Seen(g)
  BY <1>0 DEF ShellInv, Pages, O!Open, O!Is
<1>4. /\ page' \in [Page -> Loaded \cup {O!Unused}]
      /\ page'[c] = to /\ \A o \in Page \ {c} : page'[o] = page[o]
  BY <1>0, <1>2, <1>3, PageBecomes
<1>5. Young(page[c])'
  BY <1>0, <1>2, <1>3, <1>4 DEF Young
<1>6. Seen(page[c])'
  BY <1>0, <1>2, <1>3, <1>4 DEF Seen
<1>7. Pages'
  BY <1>0, <1>4, <1>5, <1>6, PagesOf DEF ShellInv
<1>8. ShellTypes' /\ Stocked' /\ Held'
  BY <1>0, <1>1, <1>4 DEF ShellInv, ShellTypes, Stocked, O!NoWorker, Held
<1>9. Keyed' /\ InOrder'
  BY <1>0 DEF ShellInv, Keyed, OfKey, InOrder
<1> QED BY <1>1, <1>7, <1>8, <1>9 DEF ShellInv

LEMMA EmptyShellsKeeps == ASSUME ShellInv, NEW c \in Page, O!EmptyShells(c) PROVE ShellInv'
<1>0. /\ UNCHANGED <<site, up, held, worker, puts, last, overtaken, aside>> /\ ShellTypes
      /\ caches' = O!Empty /\ stored' = {}
  BY DEF O!EmptyShells, O!history, O!comes, ShellInv
<1>1. page' \in [Page -> Loaded \cup {O!Unused}] /\ Pages'
  BY StartedIs DEF O!EmptyShells
<1>2. ShellTypes' /\ NamedAll' /\ Stocked' /\ Held'
  BY <1>0, <1>1, EmptyIs DEF ShellInv, ShellTypes, NamedAll, Stocked, Held
<1>3. Keyed' /\ InOrder'
  BY <1>0, KeyIs DEF ShellInv, Keyed, OfKey, InOrder
<1> QED BY <1>1, <1>2, <1>3 DEF ShellInv

LEMMA ListenKeeps == ASSUME ShellInv, NEW c \in Page, O!Listen(c) PROVE ShellInv'
<1>0. /\ UNCHANGED <<site, up, held, worker, caches, puts, last, overtaken, stored, aside>> /\ ShellTypes
      /\ O!Open(c) /\ page[c].doc.is = "dev" /\ page[c].known = 0 /\ O!Becomes(c, [page[c] EXCEPT !.known = site.release])
      /\ site.release \in Nat /\ up \in BOOLEAN
  BY DEF O!Listen, O!Listening, O!history, O!comes, ShellInv, ShellTypes
<1> PICK g \in Loaded : g = page[c]
  BY <1>0, PageIs
<1> PICK to : to = [g EXCEPT !.known = site.release]
  OBVIOUS
<1>2. /\ to \in Loaded /\ to.pc = g.pc /\ to.from = g.from /\ to.oldest = g.oldest /\ to.doc = g.doc /\ to.module = g.module
      /\ to.off = g.off /\ to.mem = g.mem /\ to.known = site.release /\ to.edited = g.edited /\ to.dev = g.dev
  BY <1>0 DEF Loaded
<1>3. O!Becomes(c, to) /\ Young(g) /\ Seen(g) /\ page'[c] = to
  BY <1>0 DEF ShellInv, Pages, O!Becomes, ShellTypes
<1>5. Young(page[c])'
  BY <1>0, <1>2, <1>3 DEF Young
<1>6. Seen(page[c])'
  BY <1>0, <1>2, <1>3 DEF Seen
<1> QED BY <1>0, <1>2, <1>3, <1>5, <1>6, PageMoves

-----------------------------------------------------------------------------
(* The worker.                                                               *)

LEMMA CachePut ==
  ASSUME ShellTypes, NEW put \in Puts, caches' = [caches EXCEPT ![put.name][put.key] = put.copy]
  PROVE  /\ caches' \in Shelf /\ caches'[put.name][put.key] = put.copy
         /\ \A m \in O!Name, k \in O!Key : m # put.name \/ k # put.key => caches'[m][k] = caches[m][k]
<1>1. put.name \in O!Name /\ put.key \in O!Key /\ put.copy \in Copy
  BY KeyIs DEF Puts
<1>2. caches \in Shelf
  BY DEF ShellTypes
<1> QED BY <1>1, <1>2 DEF Shelf

\* The shell a worker installs comes straight into its cache.
LEMMA ShellComes ==
  ASSUME ShellInv, up, worker.next # O!NoOne, worker' = [worker EXCEPT !.installed = TRUE],
         caches' = [caches EXCEPT ![worker.next.name][O!DOCUMENT] = O!Served(O!DOCUMENT)],
         O!Comes([name |-> worker.next.name, key |-> O!DOCUMENT, copy |-> O!Served(O!DOCUMENT)]),
         UNCHANGED <<site, up, held, page, puts, stored>>
  PROVE  ShellInv'
<1> PICK n \in O!Name : n = worker.next.name
  BY DEF ShellInv, NamedAll
<1> PICK copy \in Copy : copy = O!Served("/") /\ copy.is \in {"app", "dev"}
  BY ServedIs, KeyIs DEF ShellInv, O!Served, O!DOCUMENT
<1> PICK put \in Puts : put = [name |-> n, key |-> "/", copy |-> copy]
  BY DEF Puts, Kinds
<1>0. /\ ShellTypes /\ put.name = n /\ put.key = "/" /\ put.copy = copy /\ O!Comes(put)
      /\ caches' = [caches EXCEPT ![n]["/"] = copy] /\ caches \in Shelf /\ "/" \in O!Key /\ Kinds \subseteq O!Key
      /\ puts \subseteq Puts
  BY KeyIs DEF ShellInv, ShellTypes, O!DOCUMENT
<1>1. /\ last' \in Shelf /\ aside' \in BOOLEAN /\ (aside => aside')
      /\ overtaken \subseteq overtaken'
      /\ last'[n]["/"] = copy
      /\ \A m \in O!Name, k \in O!Key : m # n \/ k # "/" => last'[m][k] = last[m][k]
      /\ \A p \in puts : p.key = "/" => "/" \in overtaken'
  BY <1>0, ComesIs
<1>2. /\ caches' \in Shelf /\ caches'[n]["/"] = copy
      /\ \A m \in O!Name, k \in O!Key : m # n \/ k # "/" => caches'[m][k] = caches[m][k]
  <2>1. caches' = [caches EXCEPT ![put.name][put.key] = put.copy]
    BY <1>0
  <2>2. /\ caches' \in Shelf /\ caches'[put.name][put.key] = put.copy
        /\ \A m \in O!Name, k \in O!Key : m # put.name \/ k # put.key => caches'[m][k] = caches[m][k]
    BY <1>0, <2>1, CachePut
  <2> QED BY <1>0, <2>2
<1>3. /\ worker' \in [active : Offer, next : Offer, installed : BOOLEAN]
      /\ worker'.active = worker.active /\ worker'.next = worker.next
  BY <1>0 DEF ShellTypes
<1>4. ShellTypes' /\ NamedAll' /\ Held'
  BY <1>0, <1>1, <1>2, <1>3 DEF ShellInv, ShellTypes, NamedAll, Held
<1>5. Pages'
  BY DEF ShellInv, Pages, O!Open, O!Is, Young, Seen
<1>6. Keyed'
  <2>1. ASSUME NEW m \in O!Name, NEW k \in Kinds PROVE OfKey(k, caches'[m][k])
    <3>1. CASE m = n /\ k = "/"
      BY <3>1, <1>2 DEF OfKey
    <3>2. CASE m # n \/ k # "/"
      BY <3>2, <1>0, <1>2 DEF ShellInv, Keyed
    <3> QED BY <3>1, <3>2
  <2> QED BY <1>0, <1>1, <2>1 DEF ShellInv, Keyed, OfKey
<1>7. InOrder'
  <2>1. ASSUME NEW m \in O!Name, NEW k \in O!Key, k \notin overtaken'
        PROVE  caches'[m][k] \in {O!None, last'[m][k]} \/ \E q \in puts : q.name = m /\ q.key = k
    <3>1. CASE m = n /\ k = "/"
      BY <3>1, <1>1, <1>2
    <3>2. CASE m # n \/ k # "/"
      BY <3>2, <2>1, <1>1, <1>2 DEF ShellInv, InOrder
    <3> QED BY <3>1, <3>2
  <2>2. ASSUME NEW p \in puts, p.key \notin overtaken' PROVE p.copy = last'[p.name][p.key]
    <3>1. p.key # "/" /\ p.name \in O!Name /\ p.key \in O!Key
      BY <2>2, <1>0, <1>1 DEF Puts
    <3> QED BY <2>2, <3>1, <1>1 DEF ShellInv, InOrder
  <2>3. ASSUME NEW p \in puts, NEW q \in puts, p.key = q.key, p.key \notin overtaken' PROVE p = q
    BY <2>3, <1>1 DEF ShellInv, InOrder
  <2> QED BY <2>1, <2>2, <2>3 DEF InOrder
<1>8. Stocked'
  <2>1. CASE worker.active = O!NoOne
    BY <2>1, <1>3 DEF ShellInv, Stocked
  <2>2. CASE worker.active # O!NoOne
    <3>1. worker.active.name \in O!Name /\ "module" \in O!Key
      BY <2>2, KeyIs DEF ShellInv, NamedAll
    <3>2. caches'[worker.active.name]["module"] = caches[worker.active.name]["module"]
      BY <3>1, <1>2
    <3>3. caches[worker.active.name]["/"].is # "none" => caches'[worker.active.name]["/"].is # "none"
      BY <3>1, <1>0, <1>2
    <3> QED BY <2>2, <3>2, <3>3, <1>3 DEF ShellInv, Stocked
  <2> QED BY <2>1, <2>2
<1> QED BY <1>4, <1>5, <1>6, <1>7, <1>8 DEF ShellInv

LEMMA InstallKeeps == ASSUME ShellInv, O!Install PROVE ShellInv'
<1>1. CASE ~up /\ worker' = [worker EXCEPT !.next = O!NoOne] /\ UNCHANGED <<caches, O!comes>>
  <2>0. UNCHANGED <<site, up, held, caches, page, puts, last, overtaken, stored, aside>> /\ ~worker.installed
    BY <1>1 DEF O!Install, O!comes
  <2>1. /\ worker' \in [active : Offer, next : Offer, installed : BOOLEAN]
        /\ worker'.active = worker.active /\ worker'.next = O!NoOne /\ ~worker'.installed
    BY <1>1, <2>0 DEF ShellInv, ShellTypes, O!NoOne, Offer
  <2>2. ShellTypes' /\ NamedAll' /\ Stocked' /\ Held'
    BY <2>0, <2>1 DEF ShellInv, ShellTypes, NamedAll, Stocked, Held
  <2>3. Keyed' /\ InOrder'
    BY <2>0 DEF ShellInv, Keyed, OfKey, InOrder
  <2>4. Pages'
    BY <2>0 DEF ShellInv, Pages, O!Open, O!Is, Young, Seen
  <2> QED BY <2>2, <2>3, <2>4 DEF ShellInv
<1>2. CASE ~(~up /\ worker' = [worker EXCEPT !.next = O!NoOne] /\ UNCHANGED <<caches, O!comes>>)
  BY <1>2, ShellComes DEF O!Install
<1> QED BY <1>1, <1>2

LEMMA ActivateKeeps == ASSUME ShellInv, O!Activate PROVE ShellInv'
<1> PICK name \in O!Name : name = worker.next.name
  BY DEF O!Activate, ShellInv, NamedAll
<1>0. /\ UNCHANGED <<site, up, held, puts, last, overtaken, aside>> /\ ShellTypes /\ name \in 0..2
      /\ caches' = [n \in O!Name |-> IF n = name THEN caches[n] ELSE O!Empty[n]]
      /\ stored' = (IF name = worker.active.name THEN stored ELSE {})
      /\ worker' = [active |-> worker.next, next |-> O!NoOne, installed |-> FALSE]
  BY DEF O!Activate, O!comes, ShellInv, O!Name
<1>1. \A c \in Page : page'[c] = page[c] \/ (O!Open(c) /\ page'[c] = [page[c] EXCEPT !.by = name])
  BY DEF O!Activate
<1>2. /\ caches' \in Shelf /\ caches'[name] = caches[name]
      /\ \A n \in O!Name \ {name}, k \in O!Key : caches'[n][k] = O!None
  BY <1>0, EmptyIs, KeyIs DEF ShellTypes, Shelf
<1>3. \A c \in Page : page[c] \in Loaded => [page[c] EXCEPT !.by = name] \in Loaded
  BY <1>0 DEF Loaded
<1>4. page' \in [Page -> Loaded \cup {O!Unused}]
  <2>1. \A c \in Page : page'[c] \in Loaded \cup {O!Unused}
    BY <1>0, <1>1, <1>3, PageIs DEF ShellTypes
  <2> QED BY <2>1 DEF O!Activate
<1>5. ShellTypes' /\ NamedAll' /\ Held'
  <2>1. worker' \in [active : Offer, next : Offer, installed : BOOLEAN]
    BY <1>0 DEF ShellTypes, O!NoOne, Offer
  <2> QED BY <1>0, <1>2, <1>4, <2>1 DEF ShellInv, ShellTypes, NamedAll, Held
<1>6. Pages'
  <2> SUFFICES ASSUME NEW c \in Page, O!Open(c)' PROVE (Young(page[c]) /\ Seen(page[c]))'
    BY DEF Pages
  <2>1. CASE page'[c] = page[c]
    <3>1. O!Open(c)
      BY <2>1 DEF O!Open, O!Is
    <3> QED BY <2>1, <3>1, <1>0 DEF ShellInv, Pages, Young, Seen
  <2>2. CASE O!Open(c) /\ page'[c] = [page[c] EXCEPT !.by = name]
    <3>1. page[c] \in Loaded /\ Young(page[c]) /\ Seen(page[c])
      BY <2>2, <1>0, PageIs DEF ShellInv, Pages
    <3>2. /\ page'[c].pc = page[c].pc /\ page'[c].oldest = page[c].oldest /\ page'[c].from = page[c].from
          /\ page'[c].doc = page[c].doc /\ page'[c].module = page[c].module /\ page'[c].off = page[c].off
          /\ page'[c].mem = page[c].mem /\ page'[c].dev = page[c].dev
          /\ page'[c].known = page[c].known /\ page'[c].edited = page[c].edited
      BY <2>2, <3>1 DEF Loaded
    <3>3. Young(page[c])'
      BY <3>1, <3>2, <1>0 DEF Young
    <3>4. Seen(page[c])'
      BY <3>1, <3>2, <1>0 DEF Seen
    <3> QED BY <3>3, <3>4
  <2> QED BY <2>1, <2>2, <1>1
<1>7. Keyed'
  <2>1. ASSUME NEW n \in O!Name, NEW k \in Kinds PROVE OfKey(k, caches'[n][k])
    BY <1>2, KeyIs DEF ShellInv, Keyed, OfKey
  <2> QED BY <1>0, <2>1 DEF ShellInv, Keyed, OfKey
<1>8. InOrder'
  <2>1. ASSUME NEW n \in O!Name, NEW k \in O!Key, k \notin overtaken
        PROVE  caches'[n][k] \in {O!None, last[n][k]} \/ \E q \in puts : q.name = n /\ q.key = k
    BY <2>1, <1>2 DEF ShellInv, InOrder
  <2> QED BY <1>0, <2>1 DEF ShellInv, InOrder
<1>9. Stocked'
  <2>1. worker'.active = worker.next /\ worker'.active # O!NoOne /\ worker'.active.name = name
    BY <1>0 DEF O!NoOne, O!Name
  <2>2. CASE name = worker.active.name
    <3>1. worker.active # O!NoOne
      BY <2>2 DEF O!NoOne, O!Name
    <3> QED BY <2>1, <2>2, <3>1, <1>0, <1>2 DEF ShellInv, Stocked
  <2>3. CASE name # worker.active.name
    BY <2>1, <2>3, <1>0 DEF Stocked
  <2> QED BY <2>2, <2>3
<1> QED BY <1>5, <1>6, <1>7, <1>8, <1>9 DEF ShellInv

LEMMA ShellStep == ShellInv /\ O!Next => ShellInv'
<1> SUFFICES ASSUME ShellInv, O!Next PROVE ShellInv'
  OBVIOUS
<1>0. "/review" \in O!Key /\ "/file" \in O!Key
  BY KeyIs
<1>1. CASE O!Deploy \/ O!Edit \/ O!ServeOther \/ O!Lose \/ O!Regain \/ O!FiveMinutes \/ O!Install \/ O!Activate
  BY <1>1, DeployKeeps, EditKeeps, ServeOtherKeeps, LoseKeeps, RegainKeeps, FiveMinutesKeeps, InstallKeeps, ActivateKeeps
<1>2. CASE \E p \in puts : O!Land(p)
  BY <1>2, LandKeeps
<1>3. CASE \E c \in Page :
             \/ O!GetDocument(c) \/ O!GetModule(c) \/ O!Register(c) \/ O!Unregister(c) \/ O!EmptyShells(c)
             \/ O!Listen(c) \/ O!Tick(c)
             \/ \E to \in {"/review", "/file"} : O!Navigate(c, to)
  BY <1>0, <1>3, GetDocumentKeeps, GetModuleKeeps, RegisterKeeps, UnregisterKeeps, EmptyShellsKeeps,
     ListenKeeps, TickKeeps, NavigateKeeps
<1> QED BY <1>1, <1>2, <1>3 DEF O!Next

\* A page loaded with the network shows what the server had since, one that was
\* kept whole starts without, what is kept is the last that came, and an edit is
\* seen, for any pages, deploys, loads and outages (sw.js fresh, install; serve.go
\* newSnapshot; reload.go reloader).
THEOREM ShellServesAsPromised == O!Spec => [](O!OnlineIsFresh /\ O!StartsOffline /\ O!CopyIsLatest /\ O!EditsAreSeen)
<1>1. ShellInv /\ [O!Next]_O!vars => ShellInv'
  BY ShellStep, ShellStutter
<1>2. O!Spec => []ShellInv
  BY <1>1, ShellInit, PTL DEF O!Spec
<1> QED BY <1>2, ShellMeans, PTL

-------------------------------------------------------------------------------
(* The rewrite of a body (TextDiff).                                         *)

\* A set of naturals has a least one.
LEMMA LeastOf ==
  ASSUME NEW T, \A x \in T : x \in Nat, T # {}
  PROVE  \E x \in T : \A y \in T : x <= y
<1>1. PICK x \in T : \A y \in T : <<y, x>> \notin OpToRel(<, Nat)
  <2>1. IsWellFoundedOn(OpToRel(<, Nat), Nat)
    BY NatLessThanWellFounded
  <2>2. T \subseteq Nat
    OBVIOUS
  <2> QED BY <2>1, <2>2, WFMin
<1>2. ASSUME NEW y \in T PROVE x <= y
  <2>1. x \in Nat /\ y \in Nat
    OBVIOUS
  <2>2. ~(y < x)
    BY <1>1, <2>1 DEF OpToRel
  <2> QED BY <2>1, <2>2
<1> QED BY <1>2

\* What holds of 0, and of n when it holds of n - 1, holds of all of them.
LEMMA Upto ==
  ASSUME NEW N \in Nat, NEW S, 0 \in S, \A n \in 1 .. N : n - 1 \in S => n \in S
  PROVE  \A n \in 0 .. N : n \in S
<1>1. SUFFICES ASSUME (0 .. N) \ S # {} PROVE FALSE
  OBVIOUS
<1>2. PICK x \in (0 .. N) \ S : \A y \in (0 .. N) \ S : x <= y
  <2> DEFINE T == (0 .. N) \ S
  <2>1. \A x \in T : x \in Nat
    OBVIOUS
  <2> HIDE DEF T
  <2>2. T # {} => \E x \in T : \A y \in T : x <= y
    BY <2>1, LeastOf, Zenon
  <2> QED BY <1>1, <2>2 DEF T
<1>3. x \in 1 .. N /\ x - 1 \in 0 .. N /\ ~(x <= x - 1)
  BY <1>2
<1> QED BY <1>2, <1>3

Follows(N, base, G, f) == f[0] = base /\ \A n \in 1 .. N : f[n] = G[<<n, f[n - 1]>>]

\* There is a function for what starts somewhere and goes on from one number to
\* the next.
LEMMA Stepped ==
  ASSUME NEW N \in Nat, NEW T, NEW base \in T, NEW G \in [(1 .. N) \X T -> T]
  PROVE  \E f \in [0 .. N -> T] : Follows(N, base, G, f)
<1> DEFINE Good(f, n) == f[0] = base /\ \A m \in 1 .. n : f[m] = G[<<m, f[m - 1]>>]
           S == {n \in 0 .. N : \E f \in [0 .. N -> T] : Good(f, n)}
<1>1. 0 \in S
  <2> DEFINE all == [n \in 0 .. N |-> base]
  <2>1. all \in [0 .. N -> T] /\ Good(all, 0)
    OBVIOUS
  <2> HIDE DEF Good, all
  <2> QED BY <2>1
<1>2. ASSUME NEW n \in 1 .. N, n - 1 \in S PROVE n \in S
  <2>1. PICK f \in [0 .. N -> T] : Good(f, n - 1)
    BY <1>2
  <2> DEFINE next == [f EXCEPT ![n] = G[<<n, f[n - 1]>>]]
  <2>2. next \in [0 .. N -> T]
    OBVIOUS
  <2>3. Good(next, n)
    <3>1. next[0] = base
      BY <2>1
    <3>2. ASSUME NEW m \in 1 .. n PROVE next[m] = G[<<m, next[m - 1]>>]
      <4>1. m - 1 # n /\ m - 1 \in 0 .. N /\ m \in 0 .. N
        OBVIOUS
      <4>2. m # n => m \in 1 .. (n - 1)
        OBVIOUS
      <4> QED BY <2>1, <4>1, <4>2
    <3> QED BY <3>1, <3>2
  <2> HIDE DEF Good, next
  <2> QED BY <2>2, <2>3
<1> HIDE DEF S
<1>3. N \in S
  <2>1. \A n \in 0 .. N : n \in S
    BY <1>1, <1>2, Upto, Zenon
  <2> QED BY <2>1
<1> QED BY <1>3 DEF S, Follows

\* What goes on like that stays of its kind.
LEMMA StepsStay ==
  ASSUME NEW N \in Nat, NEW T, NEW f, f = [n \in 0 .. N |-> f[n]], f[0] \in T,
         \A n \in 1 .. N : f[n - 1] \in T => f[n] \in T
  PROVE  f \in [0 .. N -> T]
<1> DEFINE S == {n \in 0 .. N : f[n] \in T}
<1>1. 0 \in S
  OBVIOUS
<1>2. \A n \in 1 .. N : n - 1 \in S => n \in S
  OBVIOUS
<1> HIDE DEF S
<1>3. \A n \in 0 .. N : n \in S
  BY <1>1, <1>2, Upto, Zenon
<1>4. \A n \in 0 .. N : f[n] \in T
  BY <1>3 DEF S
<1> QED BY <1>4

OnTable(n, m, G, f) ==
  \A p \in (1 .. (n + 1)) \X (1 .. (m + 1)) :
    f[p] = G[<<p, <<f[D!Down(p)], <<f[D!Right(p)], f[D!Both(p)]>> >> >>]

\* And for what comes from the places below, beside and below beside it.
LEMMA Tabled ==
  ASSUME NEW n \in Nat, NEW m \in Nat, NEW T, NEW base \in T,
         NEW G \in [((1 .. (n + 1)) \X (1 .. (m + 1))) \X (T \X (T \X T)) -> T]
  PROVE  \E f \in [(1 .. (n + 2)) \X (1 .. (m + 2)) -> T] : OnTable(n, m, G, f)
<1> DEFINE P == (1 .. (n + 1)) \X (1 .. (m + 1))
           Q == (1 .. (n + 2)) \X (1 .. (m + 2))
           Left(p) == (n + 1 - p[1]) + (m + 1 - p[2])
           At(f, p) == G[<<p, <<f[D!Down(p)], <<f[D!Right(p)], f[D!Both(p)]>> >> >>]
           Good(f, k) == \A p \in P : Left(p) <= k => f[p] = At(f, p)
           S == {k \in 0 .. (n + m + 1) : \E f \in [Q -> T] : Good(f, k - 1)}
<1>1. ASSUME NEW p \in P
      PROVE  /\ Left(p) \in 0 .. (n + m) /\ p \in Q
             /\ D!Down(p) \in Q /\ D!Right(p) \in Q /\ D!Both(p) \in Q
             /\ Left(D!Down(p)) < Left(p) /\ Left(D!Right(p)) < Left(p) /\ Left(D!Both(p)) < Left(p)
             /\ Left(D!Down(p)) \in Int /\ Left(D!Right(p)) \in Int /\ Left(D!Both(p)) \in Int
  BY DEF D!Down, D!Right, D!Both
<1>2. ASSUME NEW f \in [Q -> T], NEW p \in P PROVE At(f, p) \in T
  BY <1>1
<1>3. 0 \in S
  <2>1. [p \in Q |-> base] \in [Q -> T] /\ Good([p \in Q |-> base], 0 - 1)
    BY <1>1
  <2> HIDE DEF Good, Q
  <2> QED BY <2>1
<1>4. ASSUME NEW k \in 1 .. (n + m + 1), k - 1 \in S PROVE k \in S
  <2>1. PICK f \in [Q -> T] : Good(f, (k - 1) - 1)
    BY <1>4
  <2> DEFINE next == [p \in Q |-> IF p \in P /\ Left(p) = k - 1 THEN At(f, p) ELSE f[p]]
  <2>2. next \in [Q -> T]
    <3> HIDE DEF At, P, Q, Left
    <3> QED BY <1>2
  <2>3. ASSUME NEW p \in P, Left(p) <= k - 1 PROVE next[p] = At(next, p)
    <3> HIDE DEF P, Q, Left, Good
    <3>1. next[D!Down(p)] = f[D!Down(p)] /\ next[D!Right(p)] = f[D!Right(p)] /\ next[D!Both(p)] = f[D!Both(p)]
      <4>1. Left(D!Down(p)) # k - 1 /\ Left(D!Right(p)) # k - 1 /\ Left(D!Both(p)) # k - 1
        BY <1>1, <2>3
      <4> QED BY <1>1, <4>1
    <3>2. At(next, p) = At(f, p)
      BY <3>1
    <3>3. next[p] = At(f, p)
      <4>1. CASE Left(p) = k - 1
        BY <1>1, <4>1
      <4>2. CASE Left(p) # k - 1
        <5>1. Left(p) <= (k - 1) - 1
          <6>1. Left(p) \in Nat /\ Left(p) <= k - 1 /\ k \in Nat
            BY <1>1, <2>3
          <6> HIDE DEF Left
          <6> QED BY <4>2, <6>1
        <5>2. f[p] = At(f, p)
          BY <2>1, <5>1 DEF Good
        <5> QED BY <1>1, <4>2, <5>2
      <4> QED BY <4>1, <4>2
    <3> QED BY <3>2, <3>3
  <2>4. Good(next, k - 1)
    BY <2>3
  <2> HIDE DEF Good, next
  <2> QED BY <2>2, <2>4
<1> HIDE DEF S
<1>5. n + m + 1 \in S
  <2>1. n + m + 1 \in Nat
    OBVIOUS
  <2>2. \A k \in 0 .. (n + m + 1) : k \in S
    BY <1>3, <1>4, <2>1, Upto, Zenon
  <2> QED BY <2>1, <2>2
<1>6. PICK f \in [Q -> T] : Good(f, n + m)
  <2>1. PICK f \in [Q -> T] : Good(f, (n + m + 1) - 1)
    BY <1>5 DEF S
  <2>2. (n + m + 1) - 1 = n + m
    OBVIOUS
  <2> QED BY <2>1, <2>2
<1>7. \A p \in P : f[p] = At(f, p)
  BY <1>1, <1>6
<1> QED BY <1>7 DEF OnTable


-------------------------------------------------------------------------------
(* What is picked of a list.                                                 *)

\* How what is picked grows along the list.
Growing(list, I, f) ==
  /\ f[0] = <<>>
  /\ \A k \in 1 .. Len(list) : f[k] = IF k \in I THEN Append(f[k - 1], list[k]) ELSE f[k - 1]

\* What is picked is there, and grows like that.
LEMMA PickedIs ==
  ASSUME NEW V, NEW list \in Seq(V), NEW I
  PROVE  \E f \in [0 .. Len(list) -> Seq(V)] : Growing(list, I, f) /\ D!Picked(list, I) = f[Len(list)]
<1> DEFINE N == Len(list)
           Rec(f) == f = [k \in 0 .. Len(list) |->
                            IF k = 0 THEN <<>>
                            ELSE IF k \in I THEN Append(f[k - 1], list[k]) ELSE f[k - 1]]
           upTo == CHOOSE f : Rec(f)
           G == [q \in (1 .. N) \X Seq(V) |-> IF q[1] \in I THEN Append(q[2], list[q[1]]) ELSE q[2]]
<1>1. N \in Nat /\ <<>> \in Seq(V)
  OBVIOUS
<1>2. G \in [(1 .. N) \X Seq(V) -> Seq(V)]
  OBVIOUS
<1>3. PICK f \in [0 .. N -> Seq(V)] : f[0] = <<>> /\ \A n \in 1 .. N : f[n] = G[<<n, f[n - 1]>>]
  <2> DEFINE T == Seq(V)
             base == <<>>
  <2>1. N \in Nat /\ base \in T /\ G \in [(1 .. N) \X T -> T]
    BY <1>1, <1>2
  <2> HIDE DEF N, G, T, base
  <2>2. \E f \in [0 .. N -> T] : Follows(N, base, G, f)
    BY <2>1, Stepped, Zenon
  <2> QED BY <2>2 DEF T, base, Follows
<1>4. ASSUME NEW n \in 1 .. N PROVE f[n] = IF n \in I THEN Append(f[n - 1], list[n]) ELSE f[n - 1]
  <2>1. n - 1 \in 0 .. N
    OBVIOUS
  <2>2. f[n - 1] \in Seq(V)
    BY <2>1
  <2> QED BY <1>3, <2>2
<1>5. Rec(f)
  <2>1. f = [k \in 0 .. N |-> f[k]]
    OBVIOUS
  <2>2. ASSUME NEW k \in 0 .. N
        PROVE  f[k] = IF k = 0 THEN <<>> ELSE IF k \in I THEN Append(f[k - 1], list[k]) ELSE f[k - 1]
    <3>1. k # 0 => k \in 1 .. N
      OBVIOUS
    <3> QED BY <1>3, <1>4, <3>1
  <2> QED BY <2>1, <2>2
<1>6. Rec(upTo)
  <2> HIDE DEF Rec
  <2> QED BY <1>5
<1>7. upTo \in [0 .. N -> Seq(V)] /\ Growing(list, I, upTo)
  <2> DEFINE u == upTo
  <2> HIDE DEF u
  <2>1. Rec(u)
    BY <1>6 DEF u
  <2>2. u = [k \in 0 .. N |-> u[k]]
    BY <2>1
  <2>3. u[0] = <<>>
    BY <2>1
  <2>4. ASSUME NEW k \in 1 .. N PROVE u[k] = IF k \in I THEN Append(u[k - 1], list[k]) ELSE u[k - 1]
    <3>1. k \in 0 .. N /\ k # 0
      OBVIOUS
    <3> QED BY <2>1, <3>1
  <2>5. \A n \in 1 .. N : u[n - 1] \in Seq(V) => u[n] \in Seq(V)
    <3>1. ASSUME NEW n \in 1 .. N, u[n - 1] \in Seq(V) PROVE u[n] \in Seq(V)
      <4>1. list[n] \in V
        OBVIOUS
      <4>2. Append(u[n - 1], list[n]) \in Seq(V)
        BY <3>1, <4>1
      <4> QED BY <2>4, <3>1, <4>2
    <3> QED BY <3>1
  <2>6. u \in [0 .. N -> Seq(V)]
    <3> HIDE DEF N
    <3>1. u[0] \in Seq(V)
      BY <1>1, <2>3
    <3> QED BY <1>1, <2>2, <2>5, <3>1, StepsStay, Zenon
  <2> QED BY <2>3, <2>4, <2>6 DEF u, Growing
<1>8. D!Picked(list, I) = upTo[Len(list)]
  BY DEF D!Picked
<1> QED BY <1>7, <1>8
-------------------------------------------------------------------------------
(* The table and the script.                                                 *)

\* How many steps a place is from the end of both texts.
Left(old, new, p) == (Len(old) + 1 - p[1]) + (Len(new) + 1 - p[2])

\* A place, and the ones a step away where there are lines left.
LEMMA PlacesAre ==
  ASSUME NEW old \in Seq(TextLine), NEW new \in Seq(TextLine), NEW p \in D!Places(old, new)
  PROVE  /\ p = <<p[1], p[2]>> /\ p[1] \in 1 .. (Len(old) + 1) /\ p[2] \in 1 .. (Len(new) + 1)
         /\ Left(old, new, p) \in 0 .. (Len(old) + Len(new))
         /\ p[1] <= Len(old) => /\ D!Down(p) \in D!Places(old, new) /\ old[p[1]] \in TextLine
                                /\ Left(old, new, D!Down(p)) = Left(old, new, p) - 1
         /\ p[2] <= Len(new) => /\ D!Right(p) \in D!Places(old, new) /\ new[p[2]] \in TextLine
                                /\ Left(old, new, D!Right(p)) = Left(old, new, p) - 1
         /\ p[1] <= Len(old) /\ p[2] <= Len(new) =>
              D!Both(p) \in D!Places(old, new) /\ Left(old, new, D!Both(p)) = Left(old, new, p) - 2
<1>1. Len(old) \in Nat /\ Len(new) \in Nat
  OBVIOUS
<1>2. PICK i \in 1 .. (Len(old) + 1), j \in 1 .. (Len(new) + 1) : p = <<i, j>>
  BY DEF D!Places
<1> QED BY <1>1, <1>2 DEF D!Places, D!Down, D!Right, D!Both, Left

LcsAt(old, new, lcs, p) ==
  IF p[1] > Len(old) \/ p[2] > Len(new) THEN 0
  ELSE IF D!Common(old, new, p) THEN lcs[D!Both(p)] + 1
  ELSE IF lcs[D!Down(p)] >= lcs[D!Right(p)] THEN lcs[D!Down(p)] ELSE lcs[D!Right(p)]

\* The table holds what its recursion says.
LEMMA LcsIs ==
  ASSUME NEW old \in Seq(TextLine), NEW new \in Seq(TextLine)
  PROVE  \A p \in D!Places(old, new) : D!Lcs(old, new)[p] = LcsAt(old, new, D!Lcs(old, new), p)
<1> DEFINE n == Len(old)
           m == Len(new)
           P == D!Places(old, new)
           Rec(f) == f = [p \in D!Places(old, new) |->
                            IF p[1] > Len(old) \/ p[2] > Len(new) THEN 0
                            ELSE IF D!Common(old, new, p) THEN f[D!Both(p)] + 1
                            ELSE IF f[D!Down(p)] >= f[D!Right(p)] THEN f[D!Down(p)] ELSE f[D!Right(p)]]
           G == [q \in ((1 .. (n + 1)) \X (1 .. (m + 1))) \X (Nat \X (Nat \X Nat)) |->
                   IF q[1][1] > n \/ q[1][2] > m THEN 0
                   ELSE IF D!Common(old, new, q[1]) THEN q[2][2][2] + 1
                   ELSE IF q[2][1] >= q[2][2][1] THEN q[2][1] ELSE q[2][2][1]]
<1>1. n \in Nat /\ m \in Nat
  OBVIOUS
<1>2. G \in [((1 .. (n + 1)) \X (1 .. (m + 1))) \X (Nat \X (Nat \X Nat)) -> Nat]
  OBVIOUS
<1>3. PICK f \in [(1 .. (n + 2)) \X (1 .. (m + 2)) -> Nat] : OnTable(n, m, G, f)
  <2> HIDE DEF n, m, G
  <2>1. 0 \in Nat
    OBVIOUS
  <2> QED BY <1>1, <1>2, <2>1, Tabled, Zenon
<1>4. ASSUME NEW p \in P PROVE f[p] = LcsAt(old, new, f, p)
  <2>1. PICK i \in 1 .. (n + 1), j \in 1 .. (m + 1) : p = <<i, j>>
    BY DEF D!Places
  <2>2. /\ D!Down(p) = <<i + 1, j>> /\ D!Right(p) = <<i, j + 1>> /\ D!Both(p) = <<i + 1, j + 1>>
        /\ p[1] = i /\ p[2] = j
    BY <2>1 DEF D!Down, D!Right, D!Both
  <2>3. f[D!Down(p)] \in Nat /\ f[D!Right(p)] \in Nat /\ f[D!Both(p)] \in Nat
    BY <1>1, <2>2
  <2>4. f[p] = G[<<p, <<f[D!Down(p)], <<f[D!Right(p)], f[D!Both(p)]>> >> >>]
    BY <1>3 DEF OnTable, D!Places
  <2>5. G[<<p, <<f[D!Down(p)], <<f[D!Right(p)], f[D!Both(p)]>> >> >>] = LcsAt(old, new, f, p)
    BY <2>1, <2>3 DEF LcsAt
  <2> QED BY <2>4, <2>5
<1>5. \E g : Rec(g)
  <2> DEFINE g == [p \in P |-> f[p]]
  <2>1. ASSUME NEW p \in P PROVE g[p] = LcsAt(old, new, g, p)
    <3>1. p[1] <= n /\ p[2] <= m => D!Both(p) \in P /\ D!Down(p) \in P /\ D!Right(p) \in P
      BY PlacesAre
    <3>2. p[1] \in Nat /\ p[2] \in Nat
      BY PlacesAre
    <3> QED BY <1>1, <1>4, <3>1, <3>2 DEF LcsAt
  <2>2. g = [p \in P |-> LcsAt(old, new, g, p)]
    <3>1. g = [p \in P |-> g[p]]
      OBVIOUS
    <3> HIDE DEF g
    <3> QED BY <2>1, <3>1
  <2> HIDE DEF g
  <2>3. Rec(g)
    BY <2>2 DEF LcsAt
  <2> HIDE DEF Rec
  <2> QED BY <2>3
<1>6. Rec(CHOOSE u : Rec(u))
  <2> HIDE DEF Rec
  <2> QED BY <1>5
<1>7. D!Lcs(old, new) = CHOOSE u : Rec(u)
  BY DEF D!Lcs
<1>8. Rec(D!Lcs(old, new))
  BY <1>6, <1>7
<1> DEFINE L == D!Lcs(old, new)
<1> HIDE DEF L
<1>9. Rec(L)
  BY <1>8 DEF L
<1>10. \A p \in P : L[p] = LcsAt(old, new, L, p)
  BY <1>9 DEF LcsAt
<1> QED BY <1>10 DEF L

Ops == [kind : {"context", "del", "add"}, old : Nat, text : TextLine]

DeletesFirst(old, new, p) ==
  \/ p[2] > Len(new)
  \/ p[1] <= Len(old) /\ D!Lcs(old, new)[D!Down(p)] >= D!Lcs(old, new)[D!Right(p)]

ScriptAt(old, new, from, p) ==
  IF p[1] > Len(old) /\ p[2] > Len(new) THEN <<>>
  ELSE IF D!Common(old, new, p) THEN <<D!Op("context", p[1], old[p[1]])>> \o from[D!Both(p)]
  ELSE IF DeletesFirst(old, new, p) THEN <<D!Op("del", p[1], old[p[1]])>> \o from[D!Down(p)]
  ELSE <<D!Op("add", 0, new[p[2]])>> \o from[D!Right(p)]

\* The script is the first of those its recursion says, from every place on.
LEMMA ScriptIs ==
  ASSUME NEW old \in Seq(TextLine), NEW new \in Seq(TextLine)
  PROVE  \E from : /\ D!EditScript(old, new) = from[<<1, 1>>]
                   /\ \A p \in D!Places(old, new) : from[p] = ScriptAt(old, new, from, p)
<1> DEFINE n == Len(old)
           m == Len(new)
           P == D!Places(old, new)
           T == Seq(Ops)
           Rec(f) == f = [p \in D!Places(old, new) |->
                IF p[1] > Len(old) /\ p[2] > Len(new) THEN <<>>
                ELSE IF D!Common(old, new, p) THEN <<D!Op("context", p[1], old[p[1]])>> \o f[D!Both(p)]
                ELSE IF p[2] > Len(new) \/ (p[1] <= Len(old) /\ D!Lcs(old, new)[D!Down(p)] >= D!Lcs(old, new)[D!Right(p)])
                  THEN <<D!Op("del", p[1], old[p[1]])>> \o f[D!Down(p)]
                ELSE <<D!Op("add", 0, new[p[2]])>> \o f[D!Right(p)]]
           Led(op, rest) == <<op>> \o rest
           By(p, down, right, both) ==
             IF p[1] > n /\ p[2] > m THEN <<>>
             ELSE IF D!Common(old, new, p) THEN Led(D!Op("context", p[1], old[p[1]]), both)
             ELSE IF DeletesFirst(old, new, p) THEN Led(D!Op("del", p[1], old[p[1]]), down)
             ELSE Led(D!Op("add", 0, new[p[2]]), right)
           G == [q \in ((1 .. (n + 1)) \X (1 .. (m + 1))) \X (T \X (T \X T)) |->
                   By(q[1], q[2][1], q[2][2][1], q[2][2][2])]
<1>1. n \in Nat /\ m \in Nat
  OBVIOUS
<1>2. ASSUME NEW p \in P, NEW down \in T, NEW right \in T, NEW both \in T
      PROVE  By(p, down, right, both) \in T
  <2>1. ASSUME NEW op \in Ops, NEW rest \in T PROVE Led(op, rest) \in T
    OBVIOUS
  <2>2. p[1] \in 1 .. (n + 1) /\ p[2] \in 1 .. (m + 1)
    BY PlacesAre
  <2>3. p[1] <= n => D!Op("context", p[1], old[p[1]]) \in Ops /\ D!Op("del", p[1], old[p[1]]) \in Ops
    BY <2>2 DEF D!Op, Ops
  <2>4. p[2] <= m => D!Op("add", 0, new[p[2]]) \in Ops
    BY <2>2 DEF D!Op, Ops
  <2>5. <<>> \in T
    OBVIOUS
  <2>6. /\ D!Common(old, new, p) => p[1] <= n
        /\ DeletesFirst(old, new, p) /\ ~(p[1] > n /\ p[2] > m) => p[1] <= n
        /\ ~DeletesFirst(old, new, p) => p[2] <= m
    BY <1>1, <2>2 DEF D!Common, DeletesFirst
  <2> HIDE DEF Led, T
  <2> QED BY <2>1, <2>3, <2>4, <2>5, <2>6
<1>3. G \in [((1 .. (n + 1)) \X (1 .. (m + 1))) \X (T \X (T \X T)) -> T]
  <2>1. P = (1 .. (n + 1)) \X (1 .. (m + 1))
    BY DEF D!Places
  <2> HIDE DEF By, T, n, m, P
  <2> QED BY <1>2, <2>1
<1>4. PICK f \in [(1 .. (n + 2)) \X (1 .. (m + 2)) -> T] : OnTable(n, m, G, f)
  <2>1. <<>> \in T
    OBVIOUS
  <2> HIDE DEF n, m, G, T
  <2> QED BY <1>1, <1>3, <2>1, Tabled, Zenon
<1>5. ASSUME NEW p \in P PROVE f[p] = ScriptAt(old, new, f, p)
  <2>1. PICK i \in 1 .. (n + 1), j \in 1 .. (m + 1) : p = <<i, j>>
    BY DEF D!Places
  <2>2. /\ D!Down(p) = <<i + 1, j>> /\ D!Right(p) = <<i, j + 1>> /\ D!Both(p) = <<i + 1, j + 1>>
        /\ p[1] = i /\ p[2] = j
    BY <2>1 DEF D!Down, D!Right, D!Both
  <2>3. f[D!Down(p)] \in T /\ f[D!Right(p)] \in T /\ f[D!Both(p)] \in T
    <3> HIDE DEF T
    <3> QED BY <1>1, <2>2
  <2>4. f[p] = G[<<p, <<f[D!Down(p)], <<f[D!Right(p)], f[D!Both(p)]>> >> >>]
    BY <1>4 DEF OnTable, D!Places
  <2>5. G[<<p, <<f[D!Down(p)], <<f[D!Right(p)], f[D!Both(p)]>> >> >>] = By(p, f[D!Down(p)], f[D!Right(p)], f[D!Both(p)])
    <3> HIDE DEF T, By
    <3> QED BY <2>1, <2>3
  <2>6. By(p, f[D!Down(p)], f[D!Right(p)], f[D!Both(p)]) = ScriptAt(old, new, f, p)
    BY DEF ScriptAt
  <2> QED BY <2>4, <2>5, <2>6
<1>6. \E g : Rec(g)
  <2> DEFINE g == [p \in P |-> f[p]]
  <2>1. ASSUME NEW p \in P PROVE g[p] = ScriptAt(old, new, g, p)
    <3>1. /\ p[1] <= n => D!Down(p) \in P
          /\ p[2] <= m => D!Right(p) \in P
          /\ p[1] <= n /\ p[2] <= m => D!Both(p) \in P
      BY PlacesAre
    <3>2. p[1] \in Nat /\ p[2] \in Nat
      BY PlacesAre
    <3>3. /\ D!Common(old, new, p) => g[D!Both(p)] = f[D!Both(p)]
          /\ ~(p[1] > n /\ p[2] > m) /\ DeletesFirst(old, new, p) => g[D!Down(p)] = f[D!Down(p)]
          /\ ~DeletesFirst(old, new, p) => g[D!Right(p)] = f[D!Right(p)]
      BY <1>1, <3>1, <3>2 DEF D!Common, DeletesFirst
    <3>4. g[p] = f[p]
      OBVIOUS
    <3> HIDE DEF g
    <3> QED BY <1>5, <3>3, <3>4 DEF ScriptAt
  <2>2. g = [p \in P |-> ScriptAt(old, new, g, p)]
    <3>1. g = [p \in P |-> g[p]]
      OBVIOUS
    <3> HIDE DEF g
    <3> QED BY <2>1, <3>1
  <2> HIDE DEF g
  <2>3. Rec(g)
    BY <2>2 DEF ScriptAt, DeletesFirst
  <2> HIDE DEF Rec
  <2> QED BY <2>3
<1> DEFINE made == CHOOSE u : Rec(u)
<1>7. Rec(made)
  <2> HIDE DEF Rec
  <2> QED BY <1>6
<1>8. D!EditScript(old, new) = made[<<1, 1>>]
  BY DEF D!EditScript
<1> HIDE DEF made
<1>9. \A p \in P : made[p] = ScriptAt(old, new, made, p)
  BY <1>7 DEF ScriptAt, DeletesFirst
<1> QED BY <1>8, <1>9

\* What holds of a place when it holds of all places nearer the end holds of all.
LEMMA PlacesFromTheEnd ==
  ASSUME NEW old \in Seq(TextLine), NEW new \in Seq(TextLine), NEW S,
         \A p \in D!Places(old, new) :
           (\A q \in D!Places(old, new) : Left(old, new, q) < Left(old, new, p) => q \in S) => p \in S
  PROVE  \A p \in D!Places(old, new) : p \in S
<1> DEFINE P == D!Places(old, new)
           N == Len(old) + Len(new)
           far(p) == Left(old, new, p)
           U == {k \in 0 .. N : \A p \in P : far(p) <= k => p \in S}
<1>1. N \in Nat
  OBVIOUS
<1>2. \A p \in P : far(p) \in 0 .. N
  BY PlacesAre
<1>3. \A p \in P : (\A q \in P : far(q) < far(p) => q \in S) => p \in S
  OBVIOUS
<1> HIDE DEF P, N, far
<1>4. 0 \in U
  <2>1. ASSUME NEW p \in P, far(p) <= 0 PROVE p \in S
    <3>1. \A q \in P : ~(far(q) < far(p))
      BY <1>1, <1>2, <2>1
    <3> QED BY <1>3, <3>1
  <2> QED BY <1>1, <2>1
<1>5. ASSUME NEW k \in 1 .. N, k - 1 \in U PROVE k \in U
  <2>1. ASSUME NEW p \in P, far(p) <= k PROVE p \in S
    <3>1. \A q \in P : far(q) < far(p) => far(q) <= k - 1
      BY <1>1, <1>2, <2>1
    <3> QED BY <1>3, <1>5, <3>1
  <2> QED BY <1>1, <2>1
<1> HIDE DEF U
<1>6. \A k \in 0 .. N : k \in U
  BY <1>1, <1>4, <1>5, Upto, Zenon
<1>7. N \in U
  BY <1>1, <1>6
<1> QED BY <1>2, <1>7 DEF U, P, far

\* An op takes the two texts from place p to place q.
OpLeads(old, new, op, p, q) ==
  \/ /\ D!Common(old, new, p) /\ q = D!Both(p)
     /\ op = D!Op("context", p[1], old[p[1]])
  \/ /\ p[1] <= Len(old) /\ q = D!Down(p)
     /\ op = D!Op("del", p[1], old[p[1]])
  \/ /\ p[2] <= Len(new) /\ q = D!Right(p)
     /\ op = D!Op("add", 0, new[p[2]])

\* A script takes them from p to the end, by the places w.
Walks(old, new, ops, p, w) ==
  /\ ops \in Seq(Ops) /\ w \in [0 .. Len(ops) -> D!Places(old, new)]
  /\ w[0] = p /\ w[Len(ops)] = <<Len(old) + 1, Len(new) + 1>>
  /\ \A k \in 1 .. Len(ops) : OpLeads(old, new, ops[k], w[k - 1], w[k])

\* An op before a script.
LEMMA LedIs ==
  ASSUME NEW T, NEW rest \in Seq(T), NEW op \in T
  PROVE  /\ <<op>> \o rest \in Seq(T) /\ Len(<<op>> \o rest) = Len(rest) + 1
         /\ (<<op>> \o rest)[1] = op
         /\ \A k \in 1 .. Len(rest) : (<<op>> \o rest)[k + 1] = rest[k]
         /\ \A k \in 2 .. (Len(rest) + 1) : (<<op>> \o rest)[k] = rest[k - 1]
OBVIOUS

\* A script with an op before it.
LEMMA WalksOn ==
  ASSUME NEW old \in Seq(TextLine), NEW new \in Seq(TextLine), NEW p \in D!Places(old, new), NEW q, NEW op \in Ops,
         NEW rest, NEW w, Walks(old, new, rest, q, w), OpLeads(old, new, op, p, q)
  PROVE  \E v : Walks(old, new, <<op>> \o rest, p, v)
<1> DEFINE v == [k \in 0 .. (Len(rest) + 1) |-> IF k = 0 THEN p ELSE w[k - 1]]
           ops == <<op>> \o rest
           P == D!Places(old, new)
<1>1. rest \in Seq(Ops) /\ Len(rest) \in Nat /\ w \in [0 .. Len(rest) -> P]
  BY DEF Walks
<1>2. ops \in Seq(Ops) /\ Len(ops) = Len(rest) + 1 /\ ops[1] = op
      /\ \A k \in 2 .. (Len(rest) + 1) : ops[k] = rest[k - 1]
  <2> HIDE DEF Ops
  <2> QED BY <1>1, LedIs
<1> HIDE DEF ops, P
<1>3. v \in [0 .. Len(ops) -> P]
  BY <1>1, <1>2 DEF P
<1>4. v[0] = p /\ v[1] = q /\ v[Len(ops)] = <<Len(old) + 1, Len(new) + 1>>
  BY <1>1, <1>2 DEF Walks
<1>5. ASSUME NEW k \in 1 .. Len(ops) PROVE OpLeads(old, new, ops[k], v[k - 1], v[k])
  <2>1. CASE k = 1
    <3>1. v[k - 1] = p /\ v[k] = q
      BY <1>4, <2>1
    <3> HIDE DEF v
    <3> QED BY <1>2, <2>1, <3>1
  <2>2. CASE k # 1
    <3>1. k - 1 \in 1 .. Len(rest) /\ k \in 2 .. (Len(rest) + 1)
      BY <1>1, <1>2, <2>2
    <3>2. v[k] = w[k - 1] /\ v[k - 1] = w[(k - 1) - 1] /\ ops[k] = rest[k - 1]
      BY <1>1, <1>2, <3>1
    <3>3. OpLeads(old, new, rest[k - 1], w[(k - 1) - 1], w[k - 1])
      BY <3>1 DEF Walks
    <3> HIDE DEF v
    <3> QED BY <3>2, <3>3
  <2> QED BY <2>1, <2>2
<1> HIDE DEF v
<1>6. Walks(old, new, ops, p, v)
  BY <1>2, <1>3, <1>4, <1>5 DEF Walks, P
<1> QED BY <1>6 DEF ops

\* The script from a place takes both texts to their ends.
LEMMA ScriptWalks ==
  ASSUME NEW old \in Seq(TextLine), NEW new \in Seq(TextLine)
  PROVE  \E w : Walks(old, new, D!EditScript(old, new), <<1, 1>>, w)
<1> DEFINE P == D!Places(old, new)
<1>1. PICK from : /\ D!EditScript(old, new) = from[<<1, 1>>]
                  /\ \A p \in P : from[p] = ScriptAt(old, new, from, p)
  BY ScriptIs
<1> DEFINE S == {p \in P : \E w : Walks(old, new, from[p], p, w)}
<1>2. ASSUME NEW p \in P, \A q \in P : Left(old, new, q) < Left(old, new, p) => q \in S
      PROVE  p \in S
  <2>1. p = <<p[1], p[2]>> /\ p[1] \in 1 .. (Len(old) + 1) /\ p[2] \in 1 .. (Len(new) + 1)
        /\ Len(old) \in Nat /\ Len(new) \in Nat /\ Left(old, new, p) \in Nat
    BY PlacesAre
  <2>2. from[p] = ScriptAt(old, new, from, p)
    BY <1>1
  <2>3. CASE p[1] > Len(old) /\ p[2] > Len(new)
    <3> DEFINE w == [k \in 0 .. 0 |-> p]
    <3>1. p = <<Len(old) + 1, Len(new) + 1>>
      BY <2>1, <2>3
    <3>2. from[p] = <<>>
      BY <2>2, <2>3 DEF ScriptAt
    <3>3. w \in [0 .. Len(<<>>) -> P] /\ w[0] = p /\ w[Len(<<>>)] = p
      OBVIOUS
    <3> HIDE DEF w, P
    <3>4. Walks(old, new, <<>>, p, w)
      BY <3>1, <3>3 DEF Walks, P
    <3> QED BY <3>2, <3>4
  <2>4. ASSUME NEW q \in P, NEW op \in Ops, Left(old, new, q) < Left(old, new, p),
               OpLeads(old, new, op, p, q), from[p] = <<op>> \o from[q]
        PROVE  p \in S
    <3>1. q \in S
      BY <1>2, <2>4
    <3> HIDE DEF P
    <3>2. PICK w : Walks(old, new, from[q], q, w)
      BY <3>1
    <3>3. \E v : Walks(old, new, <<op>> \o from[q], p, v)
      BY <2>4, <3>2, WalksOn DEF P
    <3> QED BY <2>4, <3>3
  <2>5. CASE ~(p[1] > Len(old) /\ p[2] > Len(new)) /\ D!Common(old, new, p)
    <3>1. p[1] <= Len(old) /\ p[2] <= Len(new)
      BY <2>5 DEF D!Common
    <3>2. D!Both(p) \in P /\ Left(old, new, D!Both(p)) < Left(old, new, p)
      BY <2>1, <3>1, PlacesAre
    <3> DEFINE op == D!Op("context", p[1], old[p[1]])
    <3>3. op \in Ops
      BY <2>1, <3>1 DEF D!Op, Ops
    <3>4. OpLeads(old, new, op, p, D!Both(p))
      BY <2>5 DEF OpLeads
    <3>5. from[p] = <<op>> \o from[D!Both(p)]
      BY <2>2, <2>5 DEF ScriptAt
    <3> HIDE DEF op, S
    <3> QED BY <2>4, <3>2, <3>3, <3>4, <3>5
  <2>6. CASE ~(p[1] > Len(old) /\ p[2] > Len(new)) /\ ~D!Common(old, new, p) /\ DeletesFirst(old, new, p)
    <3>1. p[1] <= Len(old)
      BY <2>1, <2>6 DEF DeletesFirst
    <3>2. D!Down(p) \in P /\ Left(old, new, D!Down(p)) < Left(old, new, p)
      BY <2>1, <3>1, PlacesAre
    <3> DEFINE op == D!Op("del", p[1], old[p[1]])
    <3>3. op \in Ops
      BY <2>1, <3>1 DEF D!Op, Ops
    <3>4. OpLeads(old, new, op, p, D!Down(p))
      BY <3>1 DEF OpLeads
    <3>5. from[p] = <<op>> \o from[D!Down(p)]
      BY <2>2, <2>6 DEF ScriptAt
    <3> HIDE DEF op, S
    <3> QED BY <2>4, <3>2, <3>3, <3>4, <3>5
  <2>7. CASE ~(p[1] > Len(old) /\ p[2] > Len(new)) /\ ~D!Common(old, new, p) /\ ~DeletesFirst(old, new, p)
    <3>1. p[2] <= Len(new)
      BY <2>1, <2>7 DEF DeletesFirst
    <3>2. D!Right(p) \in P /\ Left(old, new, D!Right(p)) < Left(old, new, p)
      BY <2>1, <3>1, PlacesAre
    <3> DEFINE op == D!Op("add", 0, new[p[2]])
    <3>3. op \in Ops
      BY <2>1, <3>1 DEF D!Op, Ops
    <3>4. OpLeads(old, new, op, p, D!Right(p))
      BY <3>1 DEF OpLeads
    <3>5. from[p] = <<op>> \o from[D!Right(p)]
      BY <2>2, <2>7 DEF ScriptAt
    <3> HIDE DEF op, S
    <3> QED BY <2>4, <3>2, <3>3, <3>4, <3>5
  <2> QED BY <2>3, <2>5, <2>6, <2>7
<1>3. <<1, 1>> \in P
  BY DEF D!Places
<1> HIDE DEF S, P
<1>4. \A p \in P : p \in S
  BY <1>2, PlacesFromTheEnd DEF P
<1>5. <<1, 1>> \in S
  BY <1>3, <1>4
<1> QED BY <1>1, <1>5 DEF S

-------------------------------------------------------------------------------
(* A line put above both texts.                                              *)

\* An op, one line further down the old text.
Lowered(op) == [kind |-> op.kind, old |-> IF op.old = 0 THEN 0 ELSE op.old + 1, text |-> op.text]

LoweredAll(ops) == [k \in 1 .. Len(ops) |-> Lowered(ops[k])]

\* A line above a text.
LEMMA LineAbove ==
  ASSUME NEW old \in Seq(TextLine), NEW line \in TextLine
  PROVE  /\ <<line>> \o old \in Seq(TextLine) /\ Len(<<line>> \o old) = Len(old) + 1
         /\ (<<line>> \o old)[1] = line
         /\ \A k \in 1 .. Len(old) : (<<line>> \o old)[k + 1] = old[k]
OBVIOUS

\* Below the line put above, places are as they were.
LEMMA PlacesBelow ==
  ASSUME NEW old \in Seq(TextLine), NEW new \in Seq(TextLine), NEW line \in TextLine, NEW p \in D!Places(old, new)
  PROVE  LET old2 == <<line>> \o old
             new2 == <<line>> \o new IN
         /\ D!Both(p) \in D!Places(old2, new2)
         /\ D!Common(old2, new2, D!Both(p)) <=> D!Common(old, new, p)
         /\ D!Both(p)[1] > Len(old2) <=> p[1] > Len(old)
         /\ D!Both(p)[2] > Len(new2) <=> p[2] > Len(new)
         /\ D!Both(p)[1] = p[1] + 1
         /\ p[1] <= Len(old) => old2[D!Both(p)[1]] = old[p[1]]
         /\ p[2] <= Len(new) => new2[D!Both(p)[2]] = new[p[2]]
         /\ D!Down(D!Both(p)) = D!Both(D!Down(p)) /\ D!Right(D!Both(p)) = D!Both(D!Right(p))
<1> DEFINE old2 == <<line>> \o old
           new2 == <<line>> \o new
<1>1. /\ Len(old2) = Len(old) + 1 /\ \A k \in 1 .. Len(old) : old2[k + 1] = old[k]
      /\ Len(new2) = Len(new) + 1 /\ \A k \in 1 .. Len(new) : new2[k + 1] = new[k]
      /\ Len(old) \in Nat /\ Len(new) \in Nat
  BY LineAbove
<1>2. PICK i \in 1 .. (Len(old) + 1), j \in 1 .. (Len(new) + 1) : p = <<i, j>>
  BY DEF D!Places
<1> HIDE DEF old2, new2
<1>3. D!Both(p) = <<i + 1, j + 1>> /\ p[1] = i /\ p[2] = j
  BY <1>2 DEF D!Both
<1>4. D!Both(p) \in D!Places(old2, new2)
  BY <1>1, <1>3 DEF D!Places
<1>5. D!Both(p)[1] = i + 1 /\ D!Both(p)[2] = j + 1
  BY <1>3
<1>6. (i <= Len(old) => old2[i + 1] = old[i]) /\ (j <= Len(new) => new2[j + 1] = new[j])
  BY <1>1
<1>7. D!Common(old2, new2, D!Both(p)) <=> D!Common(old, new, p)
  BY <1>1, <1>3, <1>5, <1>6 DEF D!Common
<1>8. D!Down(D!Both(p)) = D!Both(D!Down(p)) /\ D!Right(D!Both(p)) = D!Both(D!Right(p))
  BY <1>3 DEF D!Down, D!Right, D!Both
<1>9. (i + 1 > Len(old2) <=> i > Len(old)) /\ (j + 1 > Len(new2) <=> j > Len(new))
  BY <1>1
<1> QED BY <1>3, <1>4, <1>5, <1>6, <1>7, <1>8, <1>9 DEF old2, new2

\* So is what is left in common.
LEMMA LcsBelow ==
  ASSUME NEW old \in Seq(TextLine), NEW new \in Seq(TextLine), NEW line \in TextLine
  PROVE  \A p \in D!Places(old, new) :
           D!Lcs(<<line>> \o old, <<line>> \o new)[D!Both(p)] = D!Lcs(old, new)[p]
<1> DEFINE old2 == <<line>> \o old
           new2 == <<line>> \o new
           K == D!Lcs(old, new)
           L == D!Lcs(old2, new2)
           P == D!Places(old, new)
           S == {p \in P : L[D!Both(p)] = K[p]}
<1>1. \A p \in P : K[p] = LcsAt(old, new, K, p)
  BY LcsIs
<1>2. \A p \in D!Places(old2, new2) : L[p] = LcsAt(old2, new2, L, p)
  BY LineAbove, LcsIs
<1>3. ASSUME NEW p \in P
      PROVE  /\ D!Both(p) \in D!Places(old2, new2)
             /\ D!Common(old2, new2, D!Both(p)) <=> D!Common(old, new, p)
             /\ D!Both(p)[1] > Len(old2) <=> p[1] > Len(old)
             /\ D!Both(p)[2] > Len(new2) <=> p[2] > Len(new)
             /\ D!Down(D!Both(p)) = D!Both(D!Down(p)) /\ D!Right(D!Both(p)) = D!Both(D!Right(p))
  BY PlacesBelow
<1> HIDE DEF old2, new2, K, L
<1>4. ASSUME NEW p \in P, \A q \in P : Left(old, new, q) < Left(old, new, p) => q \in S
      PROVE  p \in S
  <2>1. /\ p[1] \in 1 .. (Len(old) + 1) /\ p[2] \in 1 .. (Len(new) + 1)
        /\ Len(old) \in Nat /\ Len(new) \in Nat /\ Left(old, new, p) \in Nat
    BY PlacesAre
  <2>2. K[p] = LcsAt(old, new, K, p) /\ L[D!Both(p)] = LcsAt(old2, new2, L, D!Both(p))
    BY <1>1, <1>2, <1>3
  <2>3. CASE p[1] > Len(old) \/ p[2] > Len(new)
    BY <1>3, <2>2, <2>3 DEF LcsAt
  <2>4. CASE ~(p[1] > Len(old) \/ p[2] > Len(new))
    <3>1. p[1] <= Len(old) /\ p[2] <= Len(new)
      BY <2>1, <2>4
    <3>a. p \in D!Places(old, new) /\ P = D!Places(old, new)
      OBVIOUS
    <3> HIDE DEF P, S
    <3>b. D!Both(p) \in P /\ Left(old, new, D!Both(p)) < Left(old, new, p)
      BY <3>1, <3>a, PlacesAre
    <3>c. D!Down(p) \in P /\ Left(old, new, D!Down(p)) < Left(old, new, p)
      BY <3>1, <3>a, PlacesAre
    <3>d. D!Right(p) \in P /\ Left(old, new, D!Right(p)) < Left(old, new, p)
      BY <3>1, <3>a, PlacesAre
    <3>3. D!Both(p) \in S /\ D!Down(p) \in S /\ D!Right(p) \in S
      BY <1>4, <3>b, <3>c, <3>d
    <3> USE DEF P, S
    <3>4. L[D!Both(D!Both(p))] = K[D!Both(p)] /\ L[D!Both(D!Down(p))] = K[D!Down(p)] /\ L[D!Both(D!Right(p))] = K[D!Right(p)]
      BY <3>3
    <3>5. LcsAt(old2, new2, L, D!Both(p)) = LcsAt(old, new, K, p)
      BY <1>3, <2>4, <3>4 DEF LcsAt
    <3> QED BY <2>2, <3>5
  <2> QED BY <2>3, <2>4
<1> HIDE DEF S, P
<1>5. \A p \in P : p \in S
  BY <1>4, PlacesFromTheEnd DEF P
<1> QED BY <1>5 DEF S, P, K, L, old2, new2

\* An op before a script, each one line further down.
LEMMA LoweredLed ==
  ASSUME NEW rest \in Seq(Ops), NEW op \in Ops
  PROVE  LoweredAll(<<op>> \o rest) = <<Lowered(op)>> \o LoweredAll(rest)
<1> DEFINE a == LoweredAll(<<op>> \o rest)
           low == LoweredAll(rest)
           b == <<Lowered(op)>> \o low
<1>1. ASSUME NEW o \in Ops PROVE Lowered(o) \in Ops
  BY DEF Lowered, Ops
<1>2. low \in Seq(Ops) /\ Len(low) = Len(rest) /\ \A k \in 1 .. Len(rest) : low[k] = Lowered(rest[k])
  <2> HIDE DEF Ops
  <2> QED BY <1>1 DEF LoweredAll
<1>3. <<op>> \o rest \in Seq(Ops) /\ Len(<<op>> \o rest) = Len(rest) + 1 /\ (<<op>> \o rest)[1] = op
      /\ \A k \in 2 .. (Len(rest) + 1) : (<<op>> \o rest)[k] = rest[k - 1]
  <2> HIDE DEF Ops
  <2> QED BY LedIs
<1>4. b \in Seq(Ops) /\ Len(b) = Len(rest) + 1 /\ b[1] = Lowered(op)
      /\ \A k \in 2 .. (Len(rest) + 1) : b[k] = low[k - 1]
  <2>1. Lowered(op) \in Ops
    BY <1>1
  <2> HIDE DEF Ops, low
  <2> QED BY <1>2, <2>1, LedIs
<1>5. a = [k \in 1 .. (Len(rest) + 1) |-> Lowered((<<op>> \o rest)[k])]
  BY <1>3 DEF LoweredAll
<1>6. b = [k \in 1 .. (Len(rest) + 1) |-> b[k]]
  <2> HIDE DEF b
  <2> QED BY <1>4
<1>7. ASSUME NEW k \in 1 .. (Len(rest) + 1) PROVE Lowered((<<op>> \o rest)[k]) = b[k]
  <2>1. Len(rest) \in Nat /\ (k # 1 => k \in 2 .. (Len(rest) + 1) /\ k - 1 \in 1 .. Len(rest))
    OBVIOUS
  <2> HIDE DEF b, low
  <2>2. CASE k = 1
    BY <1>3, <1>4, <2>2
  <2>3. CASE k # 1
    BY <1>2, <1>3, <1>4, <2>1, <2>3
  <2> QED BY <2>2, <2>3
<1> HIDE DEF a, b
<1>8. a = b
  BY <1>5, <1>6, <1>7
<1> QED BY <1>8 DEF a, b

\* The script of both texts with a line above is the line, and the script lowered.
LEMMA ScriptBelow ==
  ASSUME NEW old \in Seq(TextLine), NEW new \in Seq(TextLine), NEW line \in TextLine
  PROVE  D!EditScript(<<line>> \o old, <<line>> \o new)
           = <<D!Op("context", 1, line)>> \o LoweredAll(D!EditScript(old, new))
<1> DEFINE old2 == <<line>> \o old
           new2 == <<line>> \o new
           P == D!Places(old, new)
           P2 == D!Places(old2, new2)
<1>1. PICK f : /\ D!EditScript(old, new) = f[<<1, 1>>]
               /\ \A p \in P : f[p] = ScriptAt(old, new, f, p)
  BY ScriptIs
<1>2. PICK g : /\ D!EditScript(old2, new2) = g[<<1, 1>>]
               /\ \A p \in P2 : g[p] = ScriptAt(old2, new2, g, p)
  BY LineAbove, ScriptIs
<1> DEFINE S == {p \in P : f[p] \in Seq(Ops) /\ g[D!Both(p)] = LoweredAll(f[p])}
<1>3. ASSUME NEW p \in P
      PROVE  /\ D!Both(p) \in P2
             /\ D!Common(old2, new2, D!Both(p)) <=> D!Common(old, new, p)
             /\ D!Both(p)[1] > Len(old2) <=> p[1] > Len(old)
             /\ D!Both(p)[2] > Len(new2) <=> p[2] > Len(new)
             /\ D!Both(p)[1] = p[1] + 1
             /\ p[1] <= Len(old) => old2[D!Both(p)[1]] = old[p[1]]
             /\ p[2] <= Len(new) => new2[D!Both(p)[2]] = new[p[2]]
             /\ D!Down(D!Both(p)) = D!Both(D!Down(p)) /\ D!Right(D!Both(p)) = D!Both(D!Right(p))
  BY PlacesBelow
<1>4. \A p \in P : D!Lcs(old2, new2)[D!Both(p)] = D!Lcs(old, new)[p]
  BY LcsBelow
<1>5. Len(old2) = Len(old) + 1 /\ Len(new2) = Len(new) + 1 /\ old2[1] = line /\ new2[1] = line
      /\ Len(old) \in Nat /\ Len(new) \in Nat
  BY LineAbove
<1> HIDE DEF old2, new2
<1>6. ASSUME NEW p \in P, \A q \in P : Left(old, new, q) < Left(old, new, p) => q \in S
      PROVE  p \in S
  <2>1. /\ p[1] \in 1 .. (Len(old) + 1) /\ p[2] \in 1 .. (Len(new) + 1)
        /\ Left(old, new, p) \in Nat
    BY PlacesAre
  <2>2. f[p] = ScriptAt(old, new, f, p) /\ g[D!Both(p)] = ScriptAt(old2, new2, g, D!Both(p))
    BY <1>1, <1>2, <1>3
  <2>3. CASE p[1] > Len(old) /\ p[2] > Len(new)
    <3>1. f[p] = <<>> /\ g[D!Both(p)] = <<>>
      BY <1>3, <2>2, <2>3 DEF ScriptAt
    <3>2. LoweredAll(<<>>) = <<>> /\ <<>> \in Seq(Ops)
      BY DEF LoweredAll
    <3> QED BY <3>1, <3>2
  <2>4. ASSUME NEW q \in P, NEW op \in Ops, Left(old, new, q) < Left(old, new, p),
               f[p] = <<op>> \o f[q], g[D!Both(p)] = <<Lowered(op)>> \o g[D!Both(q)]
        PROVE  p \in S
    <3>1. q \in S
      BY <1>6, <2>4
    <3>2. f[q] \in Seq(Ops) /\ g[D!Both(q)] = LoweredAll(f[q])
      BY <3>1
    <3>3. g[D!Both(p)] = LoweredAll(f[p])
      BY <2>4, <3>2, LoweredLed
    <3>4. f[p] \in Seq(Ops)
      <4> HIDE DEF Ops
      <4> QED BY <2>4, <3>2, LedIs
    <3> QED BY <3>3, <3>4
  <2>5. CASE ~(p[1] > Len(old) /\ p[2] > Len(new)) /\ D!Common(old, new, p)
    <3>1. p[1] <= Len(old) /\ p[2] <= Len(new)
      BY <2>5 DEF D!Common
    <3>2. D!Both(p) \in P /\ Left(old, new, D!Both(p)) < Left(old, new, p)
      BY <2>1, <3>1, PlacesAre
    <3> DEFINE op == D!Op("context", p[1], old[p[1]])
               op2 == D!Op("context", D!Both(p)[1], old2[D!Both(p)[1]])
    <3>3. op \in Ops
      BY <2>1, <3>1 DEF D!Op, Ops
    <3>4. op2 = Lowered(op)
      BY <1>3, <2>1, <3>1 DEF D!Op, Lowered
    <3>5. f[p] = <<op>> \o f[D!Both(p)]
      BY <2>2, <2>5 DEF ScriptAt
    <3>6. g[D!Both(p)] = <<op2>> \o g[D!Both(D!Both(p))]
      BY <1>3, <2>2, <2>5 DEF ScriptAt
    <3> HIDE DEF op, op2, S
    <3> QED BY <2>4, <3>2, <3>3, <3>4, <3>5, <3>6
  <2>6. CASE ~(p[1] > Len(old) /\ p[2] > Len(new)) /\ ~D!Common(old, new, p)
    <3>0. p[1] <= Len(old) /\ p[2] <= Len(new) => D!Down(p) \in P /\ D!Right(p) \in P
      BY <2>1, PlacesAre
    <3>00. DeletesFirst(old2, new2, D!Both(p)) <=> DeletesFirst(old, new, p)
      <4>1. CASE p[2] > Len(new)
        BY <1>3, <4>1 DEF DeletesFirst
      <4>2. CASE p[1] > Len(old) /\ ~(p[2] > Len(new))
        <5>1. ~(p[1] <= Len(old)) /\ ~(D!Both(p)[1] <= Len(old2)) /\ ~(D!Both(p)[2] > Len(new2))
          BY <1>3, <1>5, <2>1, <4>2
        <5> QED BY <4>2, <5>1 DEF DeletesFirst
      <4>3. CASE ~(p[1] > Len(old)) /\ ~(p[2] > Len(new))
        <5>1. p[1] <= Len(old) /\ p[2] <= Len(new) /\ D!Both(p)[1] <= Len(old2)
          BY <1>3, <1>5, <2>1, <4>3
        <5>2. /\ D!Lcs(old2, new2)[D!Both(D!Down(p))] = D!Lcs(old, new)[D!Down(p)]
              /\ D!Lcs(old2, new2)[D!Both(D!Right(p))] = D!Lcs(old, new)[D!Right(p)]
          BY <1>4, <3>0, <5>1
        <5> QED BY <1>3, <5>1, <5>2, <4>3 DEF DeletesFirst
      <4> QED BY <4>1, <4>2, <4>3
    <3>1. CASE DeletesFirst(old, new, p)
      <4>1. p[1] <= Len(old)
        BY <2>1, <2>6, <3>1 DEF DeletesFirst
      <4>2. D!Down(p) \in P /\ Left(old, new, D!Down(p)) < Left(old, new, p)
        BY <2>1, <4>1, PlacesAre
      <4> DEFINE op == D!Op("del", p[1], old[p[1]])
                 op2 == D!Op("del", D!Both(p)[1], old2[D!Both(p)[1]])
      <4>3. op \in Ops
        BY <2>1, <4>1 DEF D!Op, Ops
      <4>4. op2 = Lowered(op)
        BY <1>3, <2>1, <4>1 DEF D!Op, Lowered
      <4>5. f[p] = <<op>> \o f[D!Down(p)]
        BY <2>2, <2>6, <3>1 DEF ScriptAt
      <4>6. g[D!Both(p)] = <<op2>> \o g[D!Both(D!Down(p))]
        BY <1>3, <2>2, <2>6, <3>00, <3>1 DEF ScriptAt
      <4> HIDE DEF op, op2, S
      <4> QED BY <2>4, <4>2, <4>3, <4>4, <4>5, <4>6
    <3>2. CASE ~DeletesFirst(old, new, p)
      <4>1. p[2] <= Len(new)
        BY <2>1, <3>2 DEF DeletesFirst
      <4>2. D!Right(p) \in P /\ Left(old, new, D!Right(p)) < Left(old, new, p)
        BY <2>1, <4>1, PlacesAre
      <4> DEFINE op == D!Op("add", 0, new[p[2]])
                 op2 == D!Op("add", 0, new2[D!Both(p)[2]])
      <4>3. op \in Ops
        BY <2>1, <4>1 DEF D!Op, Ops
      <4>4. op2 = Lowered(op)
        BY <1>3, <4>1 DEF D!Op, Lowered
      <4>5. f[p] = <<op>> \o f[D!Right(p)]
        BY <2>2, <2>6, <3>2 DEF ScriptAt
      <4>6. g[D!Both(p)] = <<op2>> \o g[D!Both(D!Right(p))]
        BY <1>3, <2>2, <2>6, <3>00, <3>2 DEF ScriptAt
      <4> HIDE DEF op, op2, S
      <4> QED BY <2>4, <4>2, <4>3, <4>4, <4>5, <4>6
    <3> QED BY <3>1, <3>2
  <2> QED BY <2>3, <2>5, <2>6
<1>7. <<1, 1>> \in P /\ D!Both(<<1, 1>>) = <<2, 2>>
  BY <1>5 DEF D!Places, D!Both
<1> HIDE DEF S, P
<1>8. \A p \in P : p \in S
  BY <1>6, PlacesFromTheEnd DEF P
<1>9. g[<<2, 2>>] = LoweredAll(f[<<1, 1>>])
  BY <1>7, <1>8 DEF S
<1>10. g[<<1, 1>>] = <<D!Op("context", 1, line)>> \o g[<<2, 2>>]
  <2>1. <<1, 1>> \in P2
    BY <1>5 DEF D!Places
  <2>2. D!Common(old2, new2, <<1, 1>>)
    BY <1>5 DEF D!Common
  <2>3. g[<<1, 1>>] = ScriptAt(old2, new2, g, <<1, 1>>)
    BY <1>2, <2>1
  <2>4. ~(1 > Len(old2) /\ 1 > Len(new2))
    BY <1>5
  <2> QED BY <1>5, <1>7, <2>2, <2>3, <2>4 DEF ScriptAt
<1> QED BY <1>1, <1>2, <1>9, <1>10 DEF old2, new2

-------------------------------------------------------------------------------
(* Spans.                                                                    *)

Span == [from : Nat, to : Nat]

\* How the spans grow along a script.
Spanning(ops, f) ==
  /\ f[0] = <<>>
  /\ \A i \in 1 .. Len(ops) : f[i] = IF D!IsChange(ops[i]) THEN D!Taken(f[i - 1], i) ELSE f[i - 1]

\* One change taken: it ends the last span, or is one of its own.
LEMMA TakenIs ==
  ASSUME D!Bounds, NEW spans \in Seq(Span), NEW i \in Nat
  PROVE  /\ D!Taken(spans, i) \in Seq(Span)
         /\ \/ /\ spans # <<>> /\ D!Near(spans[Len(spans)], i) /\ Len(D!Taken(spans, i)) = Len(spans)
               /\ Len(spans) > 0
               /\ \A n \in 1 .. (Len(spans) - 1) : D!Taken(spans, i)[n] = spans[n]
               /\ D!Taken(spans, i)[Len(spans)] = [from |-> spans[Len(spans)].from, to |-> i]
            \/ /\ spans = <<>> \/ ~D!Near(spans[Len(spans)], i)
               /\ Len(D!Taken(spans, i)) = Len(spans) + 1
               /\ \A n \in 1 .. Len(spans) : D!Taken(spans, i)[n] = spans[n]
               /\ D!Taken(spans, i)[Len(spans) + 1] = [from |-> i, to |-> i]
<1>1. CASE spans # <<>> /\ D!Near(spans[Len(spans)], i)
  <2>1. Len(spans) \in Nat /\ Len(spans) > 0 /\ Len(spans) \in 1 .. Len(spans)
    BY <1>1
  <2>2. spans[Len(spans)] \in Span
    BY <2>1
  <2>3. D!Taken(spans, i) = [spans EXCEPT ![Len(spans)] = [spans[Len(spans)] EXCEPT !.to = i]]
    BY <1>1 DEF D!Taken
  <2>4. [spans[Len(spans)] EXCEPT !.to = i] = [from |-> spans[Len(spans)].from, to |-> i]
        /\ [from |-> spans[Len(spans)].from, to |-> i] \in Span
    BY <2>2 DEF Span
  <2> DEFINE latest == [from |-> spans[Len(spans)].from, to |-> i]
  <2> HIDE DEF latest, Span
  <2>5. D!Taken(spans, i) = [spans EXCEPT ![Len(spans)] = latest] /\ latest \in Span
    BY <2>3, <2>4 DEF latest
  <2>6. /\ D!Taken(spans, i) \in Seq(Span) /\ Len(D!Taken(spans, i)) = Len(spans)
        /\ \A n \in 1 .. (Len(spans) - 1) : D!Taken(spans, i)[n] = spans[n]
        /\ D!Taken(spans, i)[Len(spans)] = latest
    BY <2>1, <2>5
  <2> QED BY <1>1, <2>1, <2>6 DEF latest
<1>2. CASE ~(spans # <<>> /\ D!Near(spans[Len(spans)], i))
  <2> DEFINE one == [from |-> i, to |-> i]
  <2>1. one \in Span
    BY DEF Span
  <2>2. D!Taken(spans, i) = Append(spans, one)
    BY <1>2 DEF D!Taken
  <2> HIDE DEF one, Span
  <2>3. /\ D!Taken(spans, i) \in Seq(Span) /\ Len(D!Taken(spans, i)) = Len(spans) + 1
        /\ \A n \in 1 .. Len(spans) : D!Taken(spans, i)[n] = spans[n]
        /\ D!Taken(spans, i)[Len(spans) + 1] = one
    BY <2>1, <2>2
  <2> QED BY <1>2, <2>3 DEF one
<1> QED BY <1>1, <1>2

\* The spans are there, and grow like that.
LEMMA SpansAre ==
  ASSUME D!Bounds, NEW ops \in Seq(Ops)
  PROVE  \E f \in [0 .. Len(ops) -> Seq(Span)] : Spanning(ops, f) /\ D!Spans(ops) = f[Len(ops)]
<1> DEFINE N == Len(ops)
           Rec(f) == f = [i \in 0 .. Len(ops) |->
                            IF i = 0 THEN <<>>
                            ELSE IF D!IsChange(ops[i]) THEN D!Taken(f[i - 1], i) ELSE f[i - 1]]
           upTo == CHOOSE f : Rec(f)
           G == [q \in (1 .. N) \X Seq(Span) |-> IF D!IsChange(ops[q[1]]) THEN D!Taken(q[2], q[1]) ELSE q[2]]
<1>1. N \in Nat /\ <<>> \in Seq(Span)
  OBVIOUS
<1>2. G \in [(1 .. N) \X Seq(Span) -> Seq(Span)]
  <2>1. ASSUME NEW spans \in Seq(Span), NEW i \in 1 .. N PROVE D!Taken(spans, i) \in Seq(Span)
    <3>1. i \in Nat
      OBVIOUS
    <3> HIDE DEF Span
    <3> QED BY <3>1, TakenIs, Zenon
  <2> HIDE DEF Span, N, Ops
  <2> QED BY <2>1
<1>3. PICK f \in [0 .. N -> Seq(Span)] : Follows(N, <<>>, G, f)
  <2> DEFINE T == Seq(Span)
             base == <<>>
  <2>1. N \in Nat /\ base \in T /\ G \in [(1 .. N) \X T -> T]
    BY <1>1, <1>2
  <2> HIDE DEF N, G, T, base
  <2>2. \E f \in [0 .. N -> T] : Follows(N, base, G, f)
    BY <2>1, Stepped, Zenon
  <2> QED BY <2>2 DEF T, base
<1>4. ASSUME NEW n \in 1 .. N PROVE f[n] = IF D!IsChange(ops[n]) THEN D!Taken(f[n - 1], n) ELSE f[n - 1]
  <2>1. n - 1 \in 0 .. N
    OBVIOUS
  <2>2. f[n - 1] \in Seq(Span)
    BY <2>1
  <2> QED BY <1>3, <2>2 DEF Follows
<1>5. Rec(f)
  <2>1. f = [k \in 0 .. N |-> f[k]]
    OBVIOUS
  <2>2. ASSUME NEW k \in 0 .. N
        PROVE  f[k] = IF k = 0 THEN <<>> ELSE IF D!IsChange(ops[k]) THEN D!Taken(f[k - 1], k) ELSE f[k - 1]
    <3>1. k # 0 => k \in 1 .. N
      OBVIOUS
    <3> QED BY <1>3, <1>4, <3>1 DEF Follows
  <2> QED BY <2>1, <2>2
<1>6. Rec(upTo)
  <2> HIDE DEF Rec
  <2> QED BY <1>5
<1>7. upTo \in [0 .. N -> Seq(Span)] /\ Spanning(ops, upTo)
  <2> DEFINE u == upTo
  <2> HIDE DEF u
  <2>1. Rec(u)
    BY <1>6 DEF u
  <2>2. u = [k \in 0 .. N |-> u[k]]
    BY <2>1
  <2>3. u[0] = <<>>
    BY <2>1
  <2>4. ASSUME NEW k \in 1 .. N PROVE u[k] = IF D!IsChange(ops[k]) THEN D!Taken(u[k - 1], k) ELSE u[k - 1]
    <3>1. k \in 0 .. N /\ k # 0
      OBVIOUS
    <3> QED BY <2>1, <3>1
  <2>5. ASSUME NEW n \in 1 .. N, u[n - 1] \in Seq(Span) PROVE u[n] \in Seq(Span)
    <3>0. n \in Nat
      OBVIOUS
    <3>1. D!Taken(u[n - 1], n) \in Seq(Span)
      BY <2>5, <3>0, TakenIs, Zenon
    <3> QED BY <2>4, <2>5, <3>1
  <2>6. u \in [0 .. N -> Seq(Span)]
    <3> HIDE DEF N
    <3>1. u[0] \in Seq(Span)
      BY <1>1, <2>3
    <3> QED BY <1>1, <2>2, <2>5, <3>1, StepsStay, Zenon
  <2> QED BY <2>3, <2>4, <2>6 DEF u, Spanning
<1>8. D!Spans(ops) = upTo[Len(ops)]
  BY DEF D!Spans
<1> QED BY <1>7, <1>8

\* What the spans of the first i ops are: from a change to a change, apart, and
\* around every change.
SpansHold(ops, spans, i) ==
  /\ spans \in Seq(Span)
  /\ \A n \in 1 .. Len(spans) :
       /\ 1 <= spans[n].from /\ spans[n].from <= spans[n].to /\ spans[n].to <= i
       /\ D!IsChange(ops[spans[n].from]) /\ D!IsChange(ops[spans[n].to])
  /\ \A n, m \in 1 .. Len(spans) : n < m => spans[n].to + 2 * Context + 1 < spans[m].from
  /\ \A j \in 1 .. i : D!IsChange(ops[j]) =>
       \E n \in 1 .. Len(spans) : spans[n].from <= j /\ j <= spans[n].to

\* They are still so when a change is taken in.
LEMMA TakenHolds ==
  ASSUME D!Bounds, NEW ops, NEW i \in Nat, i >= 1, D!IsChange(ops[i]), NEW spans, SpansHold(ops, spans, i - 1)
  PROVE  SpansHold(ops, D!Taken(spans, i), i)
<1> DEFINE more == D!Taken(spans, i)
           N == Len(spans)
<1>1. spans \in Seq(Span) /\ N \in Nat /\ 2 * Context \in Nat
  BY DEF SpansHold, D!Bounds
<1>2. \A n \in 1 .. N : spans[n].from \in Nat /\ spans[n].to \in Nat
  <2>1. \A n \in 1 .. N : spans[n] \in Span
    BY <1>1
  <2> QED BY <2>1 DEF Span
<1>3. \A n \in 1 .. N : 1 <= spans[n].from /\ spans[n].from <= spans[n].to /\ spans[n].to <= i - 1
                        /\ D!IsChange(ops[spans[n].from]) /\ D!IsChange(ops[spans[n].to])
  BY DEF SpansHold
<1>4. \A n, m \in 1 .. N : n < m => spans[n].to + 2 * Context + 1 < spans[m].from
  BY DEF SpansHold
<1>5. \A j \in 1 .. (i - 1) : D!IsChange(ops[j]) => \E n \in 1 .. N : spans[n].from <= j /\ j <= spans[n].to
  BY DEF SpansHold
<1> DEFINE C == 2 * Context
<1>6. CASE /\ N > 0 /\ Len(more) = N /\ \A n \in 1 .. (N - 1) : more[n] = spans[n]
           /\ more[N] = [from |-> spans[N].from, to |-> i]
  <2> HIDE DEF more, N, C
  <2>1. more[N].from = spans[N].from /\ more[N].to = i /\ N \in 1 .. N
    BY <1>1, <1>6
  <2>2. ASSUME NEW n \in 1 .. N
        PROVE  /\ 1 <= more[n].from /\ more[n].from <= more[n].to /\ more[n].to <= i
               /\ D!IsChange(ops[more[n].from]) /\ D!IsChange(ops[more[n].to])
    <3>1. n = N \/ more[n] = spans[n]
      BY <1>1, <1>6
    <3> QED BY <1>2, <1>3, <2>1, <3>1
  <2>3. ASSUME NEW n \in 1 .. N, NEW m \in 1 .. N, n < m
        PROVE  more[n].to + C + 1 < more[m].from
    <3>1. more[n] = spans[n]
      BY <1>1, <1>6, <2>3
    <3>2. more[m].from = spans[m].from
      BY <1>1, <1>6, <2>1
    <3> QED BY <1>4, <2>3, <3>1, <3>2 DEF C
  <2>4. ASSUME NEW j \in 1 .. i, D!IsChange(ops[j])
        PROVE  \E n \in 1 .. N : more[n].from <= j /\ j <= more[n].to
    <3>1. CASE j = i
      <4>1. more[N].from <= j /\ j <= more[N].to
        BY <1>2, <1>3, <2>1, <3>1
      <4> QED BY <2>1, <4>1
    <3>2. CASE j # i
      <4>1. PICK n \in 1 .. N : spans[n].from <= j /\ j <= spans[n].to
        BY <1>5, <2>4, <3>2
      <4>2. more[n].from <= j /\ j <= more[n].to
        <5>1. n = N \/ more[n] = spans[n]
          BY <1>1, <1>6
        <5> QED BY <1>2, <1>3, <2>1, <4>1, <5>1
      <4> QED BY <4>2
    <3> QED BY <3>1, <3>2
  <2> QED BY <1>6, <2>2, <2>3, <2>4, TakenIs, <1>1 DEF SpansHold, more, C, N
<1>7. CASE /\ spans = <<>> \/ ~D!Near(spans[N], i)
           /\ Len(more) = N + 1 /\ \A n \in 1 .. N : more[n] = spans[n]
           /\ more[N + 1] = [from |-> i, to |-> i]
  <2>0. \A n \in 1 .. N : spans[n].to + C + 1 < i
    <3>1. ASSUME NEW n \in 1 .. N PROVE spans[n].to + C + 1 < i
      <4>1. N \in 1 .. N /\ spans # <<>>
        BY <1>1
      <4>2. ~(i - spans[N].to - 1 <= C)
        BY <1>7, <4>1 DEF D!Near
      <4>3. spans[N].to \in Nat /\ spans[n].to \in Nat /\ spans[N].from \in Nat /\ spans[N].from <= spans[N].to
        BY <1>2, <1>3, <4>1
      <4> HIDE DEF N, C
      <4>4. spans[N].to + C + 1 < i
        BY <1>1, <4>2, <4>3 DEF C
      <4>5. CASE n = N
        BY <4>4, <4>5
      <4>6. CASE n # N
        <5>1. spans[n].to + C + 1 < spans[N].from
          BY <1>1, <1>4, <4>1, <4>6 DEF C
        <5>2. C \in Nat /\ i \in Nat
          BY <1>1 DEF C
        <5> QED BY <4>3, <4>4, <5>1, <5>2
      <4> QED BY <4>5, <4>6
    <3> QED BY <3>1
  <2> HIDE DEF more, N, C
  <2>1. more[N + 1].from = i /\ more[N + 1].to = i /\ N + 1 \in 1 .. (N + 1)
    BY <1>1, <1>7
  <2>2. ASSUME NEW n \in 1 .. (N + 1)
        PROVE  /\ 1 <= more[n].from /\ more[n].from <= more[n].to /\ more[n].to <= i
               /\ D!IsChange(ops[more[n].from]) /\ D!IsChange(ops[more[n].to])
    <3>1. n = N + 1 \/ n \in 1 .. N
      BY <1>1
    <3> QED BY <1>2, <1>3, <1>7, <2>1, <3>1
  <2>3. ASSUME NEW n \in 1 .. (N + 1), NEW m \in 1 .. (N + 1), n < m
        PROVE  more[n].to + C + 1 < more[m].from
    <3>1. n \in 1 .. N /\ more[n] = spans[n]
      BY <1>1, <1>7, <2>3
    <3>2. CASE m = N + 1
      BY <2>0, <2>1, <3>1, <3>2
    <3>3. CASE m # N + 1
      <4>1. m \in 1 .. N
        BY <1>1, <3>3
      <4>2. spans[n].to + C + 1 < spans[m].from
        BY <1>4, <2>3, <3>1, <4>1 DEF C
      <4> QED BY <1>7, <3>1, <4>1, <4>2
    <3> QED BY <3>2, <3>3
  <2>4. ASSUME NEW j \in 1 .. i, D!IsChange(ops[j])
        PROVE  \E n \in 1 .. (N + 1) : more[n].from <= j /\ j <= more[n].to
    <3>1. CASE j = i
      BY <2>1, <3>1
    <3>2. CASE j # i
      <4>1. PICK n \in 1 .. N : spans[n].from <= j /\ j <= spans[n].to
        BY <1>5, <2>4, <3>2
      <4>2. n \in 1 .. (N + 1) /\ more[n] = spans[n]
        BY <1>1, <1>7
      <4> QED BY <4>1, <4>2
    <3> QED BY <3>1, <3>2
  <2> QED BY <1>7, <2>2, <2>3, <2>4, TakenIs, <1>1 DEF SpansHold, more, C, N
<1>8. spans = <<>> \/ spans # <<>>
  OBVIOUS
<1> QED BY <1>1, <1>6, <1>7, TakenIs

\* The spans of a script are as said.
LEMMA SpansAreApart ==
  ASSUME D!Bounds, NEW ops \in Seq(Ops)
  PROVE  SpansHold(ops, D!Spans(ops), Len(ops))
<1> DEFINE N == Len(ops)
<1>1. PICK f \in [0 .. N -> Seq(Span)] : Spanning(ops, f) /\ D!Spans(ops) = f[N]
  BY SpansAre
<1> DEFINE S == {i \in 0 .. N : SpansHold(ops, f[i], i)}
<1>2. N \in Nat
  OBVIOUS
<1> HIDE DEF N
<1>3. 0 \in S
  <2>1. f[0] = <<>>
    BY <1>1 DEF Spanning
  <2>2. SpansHold(ops, <<>>, 0)
    BY DEF SpansHold
  <2> QED BY <1>2, <2>1, <2>2
<1>4. ASSUME NEW i \in 1 .. N, i - 1 \in S PROVE i \in S
  <2>1. i \in Nat /\ i >= 1 /\ SpansHold(ops, f[i - 1], i - 1)
    BY <1>2, <1>4
  <2>2. f[i] = IF D!IsChange(ops[i]) THEN D!Taken(f[i - 1], i) ELSE f[i - 1]
    BY <1>1 DEF Spanning, N
  <2>3. CASE D!IsChange(ops[i])
    <3>1. SpansHold(ops, D!Taken(f[i - 1], i), i)
      BY <2>1, <2>3, TakenHolds
    <3> QED BY <1>2, <2>2, <2>3, <3>1
  <2>4. CASE ~D!IsChange(ops[i])
    <3> DEFINE s == f[i - 1]
    <3>0. SpansHold(ops, s, i - 1)
      BY <2>1
    <3> HIDE DEF s
    <3>1. \A n \in 1 .. Len(s) : s[n].from \in Nat /\ s[n].to \in Nat
      <4>1. \A n \in 1 .. Len(s) : s[n] \in Span
        BY <3>0 DEF SpansHold
      <4> QED BY <4>1 DEF Span
    <3>2. \A n \in 1 .. Len(s) : s[n].to <= i
      <4>1. \A n \in 1 .. Len(s) : s[n].to <= i - 1
        BY <3>0 DEF SpansHold
      <4> QED BY <2>1, <3>1, <4>1
    <3>3. \A j \in 1 .. i : D!IsChange(ops[j]) => j \in 1 .. (i - 1)
      BY <2>1, <2>4
    <3>4. SpansHold(ops, s, i)
      BY <3>0, <3>2, <3>3 DEF SpansHold
    <3>5. f[i] = s
      BY <2>2, <2>4 DEF s
    <3> QED BY <1>2, <3>4, <3>5
  <2> QED BY <2>3, <2>4
<1> HIDE DEF S
<1>5. \A i \in 0 .. N : i \in S
  BY <1>2, <1>3, <1>4, Upto, Zenon
<1>6. N \in S
  BY <1>2, <1>5
<1> QED BY <1>1, <1>6 DEF S, N

\* Two lists with the same members are the same.
LEMMA SameSeq ==
  ASSUME NEW T, NEW s \in Seq(T), NEW t \in Seq(T), Len(s) = Len(t), \A n \in 1 .. Len(s) : s[n] = t[n]
  PROVE  s = t
<1>1. s = [n \in 1 .. Len(s) |-> s[n]] /\ t = [n \in 1 .. Len(t) |-> t[n]]
  OBVIOUS
<1> QED BY <1>1

\* Spans, one op further down.
Further(span) == [from |-> span.from + 1, to |-> span.to + 1]
FurtherAll(spans) == [n \in 1 .. Len(spans) |-> Further(spans[n])]

\* Such a list of spans has as many.
LEMMA FurtherIs ==
  ASSUME NEW spans \in Seq(Span)
  PROVE  /\ FurtherAll(spans) \in Seq(Span) /\ Len(FurtherAll(spans)) = Len(spans)
         /\ \A n \in 1 .. Len(spans) : FurtherAll(spans)[n] = Further(spans[n])
<1>1. ASSUME NEW s \in Span PROVE Further(s) \in Span
  BY DEF Further, Span
<1> HIDE DEF Span
<1> QED BY <1>1 DEF FurtherAll

\* A change is taken in further down as it is where it was.
LEMMA TakenFurther ==
  ASSUME D!Bounds, NEW spans \in Seq(Span), NEW i \in Nat
  PROVE  D!Taken(FurtherAll(spans), i + 1) = FurtherAll(D!Taken(spans, i))
<1> DEFINE far == FurtherAll(spans)
           N == Len(spans)
           a == D!Taken(far, i + 1)
           b == FurtherAll(D!Taken(spans, i))
           t == D!Taken(spans, i)
<1>1. far \in Seq(Span) /\ Len(far) = N /\ \A n \in 1 .. N : far[n] = Further(spans[n])
  BY FurtherIs
<1>2. N \in Nat /\ (spans = <<>> <=> N = 0) /\ (far = <<>> <=> N = 0) /\ i + 1 \in Nat
  <2> HIDE DEF far
  <2> QED BY <1>1
<1>3. N > 0 => (D!Near(far[N], i + 1) <=> D!Near(spans[N], i))
  <2>1. SUFFICES ASSUME N > 0 PROVE D!Near(far[N], i + 1) <=> D!Near(spans[N], i)
    OBVIOUS
  <2>2. spans[N] \in Span /\ far[N] = Further(spans[N])
    BY <1>1, <1>2, <2>1
  <2>3. far[N].to = spans[N].to + 1 /\ spans[N].to \in Nat
    BY <2>2 DEF Further, Span
  <2>4. 2 * Context \in Nat
    BY DEF D!Bounds
  <2> HIDE DEF far, N
  <2>5. (i + 1) - far[N].to - 1 = i - spans[N].to - 1
    BY <2>3
  <2>6. D!Near(far[N], i + 1) <=> (i + 1) - far[N].to - 1 <= 2 * Context
    BY Zenon DEF D!Near
  <2>7. D!Near(spans[N], i) <=> i - spans[N].to - 1 <= 2 * Context
    BY Zenon DEF D!Near
  <2> HIDE DEF D!Near
  <2> QED BY <2>5, <2>6, <2>7, Zenon
<1>4. t \in Seq(Span) /\ a \in Seq(Span)
  <2>1. t \in Seq(Span)
    BY TakenIs
  <2> HIDE DEF far
  <2>2. a \in Seq(Span)
    BY <1>1, <1>2, TakenIs, Zenon
  <2> QED BY <2>1, <2>2
<1>5. b \in Seq(Span) /\ Len(b) = Len(t) /\ \A n \in 1 .. Len(t) : b[n] = Further(t[n])
  BY <1>4, FurtherIs
<1>6. /\ \/ /\ spans # <<>> /\ D!Near(spans[N], i) /\ Len(t) = N /\ N > 0
            /\ \A n \in 1 .. (N - 1) : t[n] = spans[n]
            /\ t[N] = [from |-> spans[N].from, to |-> i]
         \/ /\ spans = <<>> \/ ~D!Near(spans[N], i)
            /\ Len(t) = N + 1
            /\ \A n \in 1 .. N : t[n] = spans[n]
            /\ t[N + 1] = [from |-> i, to |-> i]
  BY TakenIs
<1>7. /\ \/ /\ far # <<>> /\ D!Near(far[N], i + 1) /\ Len(a) = N /\ N > 0
            /\ \A n \in 1 .. (N - 1) : a[n] = far[n]
            /\ a[N] = [from |-> far[N].from, to |-> i + 1]
         \/ /\ far = <<>> \/ ~D!Near(far[N], i + 1)
            /\ Len(a) = N + 1
            /\ \A n \in 1 .. N : a[n] = far[n]
            /\ a[N + 1] = [from |-> i + 1, to |-> i + 1]
  <2> HIDE DEF far
  <2>1. /\ D!Taken(far, i + 1) \in Seq(Span)
        /\ \/ /\ far # <<>> /\ D!Near(far[Len(far)], i + 1) /\ Len(D!Taken(far, i + 1)) = Len(far)
              /\ Len(far) > 0
              /\ \A n \in 1 .. (Len(far) - 1) : D!Taken(far, i + 1)[n] = far[n]
              /\ D!Taken(far, i + 1)[Len(far)] = [from |-> far[Len(far)].from, to |-> i + 1]
           \/ /\ far = <<>> \/ ~D!Near(far[Len(far)], i + 1)
              /\ Len(D!Taken(far, i + 1)) = Len(far) + 1
              /\ \A n \in 1 .. Len(far) : D!Taken(far, i + 1)[n] = far[n]
              /\ D!Taken(far, i + 1)[Len(far) + 1] = [from |-> i + 1, to |-> i + 1]
    BY <1>1, <1>2, TakenIs, Zenon
  <2> QED BY <1>1, <2>1
<1> HIDE DEF a, b, t, far, N
<1>8. CASE /\ N > 0 /\ Len(t) = N /\ Len(a) = N
           /\ \A n \in 1 .. (N - 1) : t[n] = spans[n] /\ a[n] = far[n]
           /\ t[N] = [from |-> spans[N].from, to |-> i] /\ a[N] = [from |-> far[N].from, to |-> i + 1]
  <2>1. ASSUME NEW n \in 1 .. N PROVE a[n] = b[n]
    <3>1. CASE n = N
      <4>1. far[N].from = spans[N].from + 1
        BY <1>1, <2>1, <3>1 DEF Further
      <4> QED BY <1>5, <1>8, <2>1, <3>1, <4>1 DEF Further
    <3>2. CASE n # N
      BY <1>1, <1>2, <1>5, <1>8, <2>1, <3>2
    <3> QED BY <3>1, <3>2
  <2> QED BY <1>4, <1>5, <1>8, <2>1, SameSeq DEF a, b, t, far
<1>9. CASE /\ Len(t) = N + 1 /\ Len(a) = N + 1
           /\ \A n \in 1 .. N : t[n] = spans[n] /\ a[n] = far[n]
           /\ t[N + 1] = [from |-> i, to |-> i] /\ a[N + 1] = [from |-> i + 1, to |-> i + 1]
  <2>1. ASSUME NEW n \in 1 .. (N + 1) PROVE a[n] = b[n]
    <3>1. CASE n = N + 1
      BY <1>5, <1>9, <2>1, <3>1 DEF Further
    <3>2. CASE n # N + 1
      BY <1>1, <1>2, <1>5, <1>9, <2>1, <3>2
    <3> QED BY <3>1, <3>2
  <2> QED BY <1>4, <1>5, <1>9, <2>1, SameSeq DEF a, b, t, far
<1> QED BY <1>2, <1>3, <1>6, <1>7, <1>8, <1>9

\* A script lowered behind one line in common.
BehindLine(line, ops) == <<D!Op("context", 1, line)>> \o LoweredAll(ops)

\* The script behind a line that both texts begin with.
LEMMA BehindIs ==
  ASSUME NEW ops \in Seq(Ops), NEW line \in TextLine
  PROVE  /\ BehindLine(line, ops) \in Seq(Ops) /\ Len(BehindLine(line, ops)) = Len(ops) + 1
         /\ ~D!IsChange(BehindLine(line, ops)[1])
         /\ \A k \in 1 .. Len(ops) : BehindLine(line, ops)[k + 1] = Lowered(ops[k])
         /\ \A k \in 1 .. Len(ops) : D!IsChange(BehindLine(line, ops)[k + 1]) <=> D!IsChange(ops[k])
<1> DEFINE low == LoweredAll(ops)
           top == D!Op("context", 1, line)
<1>1. ASSUME NEW o \in Ops PROVE Lowered(o) \in Ops /\ (D!IsChange(Lowered(o)) <=> D!IsChange(o))
  BY DEF Lowered, Ops, D!IsChange
<1>2. top \in Ops /\ ~D!IsChange(top)
  BY DEF D!Op, Ops, D!IsChange
<1> HIDE DEF Ops
<1>3. low \in Seq(Ops) /\ Len(low) = Len(ops) /\ \A k \in 1 .. Len(ops) : low[k] = Lowered(ops[k])
  BY <1>1 DEF LoweredAll
<1> HIDE DEF low, top
<1> DEFINE all == <<top>> \o low
<1>4. /\ all \in Seq(Ops) /\ Len(all) = Len(low) + 1 /\ all[1] = top
      /\ \A k \in 1 .. Len(low) : all[k + 1] = low[k]
  BY <1>2, <1>3, LedIs
<1> HIDE DEF all
<1>5. all = BehindLine(line, ops)
  BY DEF all, low, top, BehindLine
<1>6. \A k \in 1 .. Len(ops) : ops[k] \in Ops
  OBVIOUS
<1>7. all \in Seq(Ops) /\ Len(all) = Len(ops) + 1 /\ ~D!IsChange(all[1])
  BY <1>1, <1>2, <1>3, <1>4
<1>8. \A k \in 1 .. Len(ops) : all[k + 1] = Lowered(ops[k])
  BY <1>1, <1>2, <1>3, <1>4
<1>9. \A k \in 1 .. Len(ops) : D!IsChange(all[k + 1]) <=> D!IsChange(ops[k])
  BY <1>1, <1>6, <1>8
<1> QED BY <1>5, <1>7, <1>8, <1>9, Zenon

\* Its spans are the script's, one op further down.
LEMMA SpansBelow ==
  ASSUME D!Bounds, NEW ops \in Seq(Ops), NEW line \in TextLine
  PROVE  D!Spans(BehindLine(line, ops)) = FurtherAll(D!Spans(ops))
<1> DEFINE ops2 == BehindLine(line, ops)
           N == Len(ops)
<1>1. /\ ops2 \in Seq(Ops) /\ Len(ops2) = N + 1 /\ ~D!IsChange(ops2[1]) /\ N \in Nat
      /\ \A k \in 1 .. N : D!IsChange(ops2[k + 1]) <=> D!IsChange(ops[k])
  BY BehindIs
<1>2. PICK f \in [0 .. N -> Seq(Span)] : Spanning(ops, f) /\ D!Spans(ops) = f[N]
  BY SpansAre
<1> HIDE DEF ops2
<1>3. PICK g \in [0 .. Len(ops2) -> Seq(Span)] : Spanning(ops2, g) /\ D!Spans(ops2) = g[Len(ops2)]
  BY <1>1, SpansAre
<1> HIDE DEF N
<1> DEFINE S == {i \in 0 .. N : g[i + 1] = FurtherAll(f[i])}
<1>4. 0 \in S
  <2>1. f[0] = <<>> /\ g[0] = <<>>
    BY <1>2, <1>3 DEF Spanning
  <2>2. g[1] = IF D!IsChange(ops2[1]) THEN D!Taken(g[1 - 1], 1) ELSE g[1 - 1]
    <3>1. 1 \in 1 .. Len(ops2)
      BY <1>1
    <3> QED BY <1>3, <3>1 DEF Spanning
  <2>3. g[1] = <<>>
    BY <1>1, <2>1, <2>2
  <2>4. FurtherAll(<<>>) = <<>>
    BY DEF FurtherAll
  <2> QED BY <1>1, <2>1, <2>3, <2>4
<1>5. ASSUME NEW i \in 1 .. N, i - 1 \in S PROVE i \in S
  <2>1. i + 1 \in 1 .. Len(ops2) /\ (i + 1) - 1 = i /\ i \in Nat /\ i - 1 \in 0 .. N /\ (i - 1) + 1 = i
    BY <1>1
  <2>2. g[i + 1] = IF D!IsChange(ops2[i + 1]) THEN D!Taken(g[i], i + 1) ELSE g[i]
    BY <1>3, <2>1 DEF Spanning
  <2>3. f[i] = IF D!IsChange(ops[i]) THEN D!Taken(f[i - 1], i) ELSE f[i - 1]
    BY <1>2 DEF Spanning, N
  <2>4. g[i] = FurtherAll(f[i - 1])
    BY <1>5, <2>1
  <2>5. f[i - 1] \in Seq(Span)
    BY <1>2, <2>1
  <2>6. D!Taken(FurtherAll(f[i - 1]), i + 1) = FurtherAll(D!Taken(f[i - 1], i))
    BY <2>1, <2>5, TakenFurther
  <2>7. g[i + 1] = FurtherAll(f[i])
    BY <1>1, <2>2, <2>3, <2>4, <2>6
  <2> QED BY <1>1, <2>7
<1> HIDE DEF S
<1>6. \A i \in 0 .. N : i \in S
  BY <1>1, <1>4, <1>5, Upto, Zenon
<1>7. N \in S
  BY <1>1, <1>6
<1> QED BY <1>1, <1>2, <1>3, <1>7 DEF S, ops2

-------------------------------------------------------------------------------
(* What a hunk says.                                                         *)

\* List t is s with d members above it; what is picked of them is of s.
Above(s, I, t, J, d) ==
  /\ d \in Nat /\ Len(t) = Len(s) + d
  /\ \A k \in 1 .. d : k \notin J
  /\ \A k \in 1 .. Len(s) : t[k + d] = s[k] /\ (k + d \in J <=> k \in I)

\* What is picked of a list is picked of one that has more above it.
LEMMA PickedBehind ==
  ASSUME NEW V, NEW s \in Seq(V), NEW t \in Seq(V), NEW I, NEW J, NEW d, Above(s, I, t, J, d)
  PROVE  D!Picked(t, J) = D!Picked(s, I)
<1>0. d \in Nat /\ Len(t) = Len(s) + d /\ \A k \in 1 .. d : k \notin J
  BY DEF Above
<1>1. PICK f \in [0 .. Len(s) -> Seq(V)] : Growing(s, I, f) /\ D!Picked(s, I) = f[Len(s)]
  BY PickedIs
<1>2. PICK g \in [0 .. Len(t) -> Seq(V)] : Growing(t, J, g) /\ D!Picked(t, J) = g[Len(t)]
  BY PickedIs
<1> DEFINE N == Len(s)
           U == {k \in 0 .. d : g[k] = <<>>}
           S == {k \in 0 .. N : g[k + d] = f[k]}
<1>3. N \in Nat
  OBVIOUS
<1>4. f[0] = <<>> /\ \A k \in 1 .. N : f[k] = IF k \in I THEN Append(f[k - 1], s[k]) ELSE f[k - 1]
  BY <1>1 DEF Growing
<1>5. g[0] = <<>> /\ \A k \in 1 .. (N + d) : g[k] = IF k \in J THEN Append(g[k - 1], t[k]) ELSE g[k - 1]
  BY <1>0, <1>2 DEF Growing
<1>6. \A k \in 1 .. N : t[k + d] = s[k] /\ (k + d \in J <=> k \in I)
  BY DEF Above
<1> HIDE DEF N
<1>7. 0 \in U
  BY <1>0, <1>5
<1>8. ASSUME NEW k \in 1 .. d, k - 1 \in U PROVE k \in U
  <2>1. k \in 1 .. (N + d) /\ k \notin J
    BY <1>0, <1>3
  <2> QED BY <1>5, <1>8, <2>1
<1> HIDE DEF U
<1>9. \A k \in 0 .. d : k \in U
  BY <1>0, <1>7, <1>8, Upto, Zenon
<1>10. g[d] = <<>>
  <2>1. d \in U
    BY <1>0, <1>9
  <2> QED BY <2>1 DEF U
<1>11. 0 \in S
  BY <1>0, <1>3, <1>4, <1>10
<1>12. ASSUME NEW k \in 1 .. N, k - 1 \in S PROVE k \in S
  <2>1. k + d \in 1 .. (N + d) /\ (k + d) - 1 = (k - 1) + d
    BY <1>0, <1>3
  <2>2. g[(k + d) - 1] = f[k - 1]
    BY <1>12, <2>1
  <2> DEFINE kd == k + d
  <2>3. g[kd] = IF kd \in J THEN Append(g[kd - 1], t[kd]) ELSE g[kd - 1]
    BY <1>5, <2>1
  <2>4. g[kd] = f[k]
    BY <1>4, <1>6, <2>2, <2>3
  <2> QED BY <1>3, <2>4
<1> HIDE DEF S
<1>13. \A k \in 0 .. N : k \in S
  BY <1>3, <1>11, <1>12, Upto, Zenon
<1>14. N \in S
  BY <1>3, <1>13
<1> QED BY <1>0, <1>1, <1>2, <1>14 DEF S, N

\* What a hunk says is the same of its lines lowered, and behind a line in common.
LEMMA SaidBelow ==
  ASSUME NEW s \in Seq(Ops), NEW t \in Seq(Ops), NEW d \in Nat, Len(t) = Len(s) + d,
         \A k \in 1 .. d : ~D!IsChange(t[k]), \A k \in 1 .. Len(s) : t[k + d] = Lowered(s[k])
  PROVE  D!Said(t) = D!Said(s)
<1> DEFINE V == {"context", "del", "add"} \X TextLine
           a == [n \in 1 .. Len(s) |-> <<s[n].kind, s[n].text>>]
           b == [n \in 1 .. Len(t) |-> <<t[n].kind, t[n].text>>]
           I == D!Altered(s)
           J == D!Altered(t)
<1>1. /\ DOMAIN s = 1 .. Len(s) /\ DOMAIN t = 1 .. Len(t) /\ Len(s) \in Nat
      /\ \A n \in 1 .. Len(s) : s[n] \in Ops
      /\ \A n \in 1 .. Len(t) : t[n] \in Ops
  <2> HIDE DEF Ops
  <2> QED OBVIOUS
<1>2. a \in Seq(V) /\ b \in Seq(V) /\ Len(a) = Len(s) /\ Len(b) = Len(t)
  <2>1. \A op \in Ops : <<op.kind, op.text>> \in V
    BY DEF Ops
  <2> HIDE DEF V, Ops
  <2> QED BY <1>1, <2>1
<1>3. \A n \in 1 .. Len(s) : n \in I <=> D!IsChange(s[n])
  BY <1>1 DEF D!Altered
<1>4. \A n \in 1 .. Len(t) : n \in J <=> D!IsChange(t[n])
  BY <1>1 DEF D!Altered
<1>5. ASSUME NEW k \in 1 .. Len(a) PROVE b[k + d] = a[k] /\ (k + d \in J <=> k \in I)
  <2>1. k + d \in 1 .. Len(t) /\ k \in 1 .. Len(s)
    BY <1>1, <1>2
  <2>2. t[k + d] = Lowered(s[k])
    BY <2>1
  <2>3. t[k + d].kind = s[k].kind /\ t[k + d].text = s[k].text
    BY <2>2 DEF Lowered
  <2>4. D!IsChange(t[k + d]) <=> D!IsChange(s[k])
    BY <2>3 DEF D!IsChange
  <2>5. b[k + d] = <<t[k + d].kind, t[k + d].text>> /\ a[k] = <<s[k].kind, s[k].text>>
    BY <2>1
  <2> HIDE DEF a, b, I, J
  <2>6. b[k + d] = a[k]
    BY <2>3, <2>5
  <2> QED BY <1>3, <1>4, <2>1, <2>4, <2>6
<1>6. \A k \in 1 .. d : k \notin J
  BY <1>1, <1>4
<1> HIDE DEF a, b, I, J, V
<1>7. D!Picked(b, J) = D!Picked(a, I)
  <2>1. Len(b) = Len(a) + d
    BY <1>2
  <2>2. Above(a, I, b, J, d)
    BY <1>5, <1>6, <2>1 DEF Above
  <2> QED BY <1>2, <2>2, PickedBehind
<1> QED BY <1>1, <1>7 DEF D!Said, a, b, I, J

\* A span that is one.
SpanOf(ops, span) == span \in Span /\ 1 <= span.from /\ span.from <= span.to /\ span.to <= Len(ops)

\* The lines of a hunk.
LEMMA AroundIs ==
  ASSUME D!Bounds, NEW ops \in Seq(Ops), NEW span, SpanOf(ops, span)
  PROVE  /\ D!Top(span) \in 1 .. span.from /\ D!Bottom(ops, span) \in span.to .. Len(ops)
         /\ D!Around(ops, span) \in Seq(Ops)
         /\ Len(D!Around(ops, span)) = D!Bottom(ops, span) - D!Top(span) + 1
         /\ \A k \in 1 .. Len(D!Around(ops, span)) : D!Around(ops, span)[k] = ops[D!Top(span) + k - 1]
<1> DEFINE a == D!Top(span)
           b == D!Bottom(ops, span)
<1>1. span.from \in Nat /\ span.to \in Nat /\ Context \in Nat /\ Context > 0 /\ Len(ops) \in Nat
  BY DEF SpanOf, Span, D!Bounds
<1>2. a \in 1 .. span.from /\ b \in span.to .. Len(ops)
  BY <1>1 DEF SpanOf, D!Top, D!Bottom
<1> HIDE DEF a, b, Ops
<1>3. a \in Nat /\ b \in Nat /\ 1 <= a /\ a <= b /\ b <= Len(ops)
  BY <1>1, <1>2 DEF SpanOf
<1>4. /\ SubSeq(ops, a, b) \in Seq(Ops) /\ Len(SubSeq(ops, a, b)) = b - a + 1
      /\ \A k \in 1 .. (b - a + 1) : SubSeq(ops, a, b)[k] = ops[a + k - 1]
  BY <1>3
<1> QED BY <1>2, <1>4 DEF D!Around, a, b

\* A hunk says the same when a line is put above both texts.
LEMMA HunkBelow ==
  ASSUME D!Bounds, NEW ops \in Seq(Ops), NEW line \in TextLine, NEW span, SpanOf(ops, span)
  PROVE  D!Said(D!Around(BehindLine(line, ops), Further(span))) = D!Said(D!Around(ops, span))
<1> DEFINE ops2 == BehindLine(line, ops)
           far == Further(span)
           s == D!Around(ops, span)
           t == D!Around(ops2, far)
           d == IF span.from > Context THEN 0 ELSE 1
<1>1. /\ ops2 \in Seq(Ops) /\ Len(ops2) = Len(ops) + 1 /\ ~D!IsChange(ops2[1])
      /\ \A k \in 1 .. Len(ops) : ops2[k + 1] = Lowered(ops[k])
  BY BehindIs
<1>2. /\ span.from \in Nat /\ span.to \in Nat /\ 1 <= span.from /\ span.from <= span.to
      /\ span.to <= Len(ops) /\ Context \in Nat /\ Context > 0 /\ Len(ops) \in Nat
  BY DEF SpanOf, Span, D!Bounds
<1>3. far.from = span.from + 1 /\ far.to = span.to + 1 /\ far \in Span
  BY <1>2 DEF Further, Span
<1> HIDE DEF ops2, far
<1>4. SpanOf(ops2, far)
  BY <1>1, <1>2, <1>3 DEF SpanOf
<1>5. /\ D!Top(far) = D!Top(span) + 1 - d /\ D!Bottom(ops2, far) = D!Bottom(ops, span) + 1
      /\ d = 1 => D!Top(span) = 1 /\ D!Top(far) = 1
  BY <1>1, <1>2, <1>3 DEF D!Top, D!Bottom
<1>6. d \in {0, 1}
  OBVIOUS
<1>7. /\ D!Top(span) \in 1 .. span.from /\ D!Bottom(ops, span) \in span.to .. Len(ops)
      /\ s \in Seq(Ops) /\ Len(s) = D!Bottom(ops, span) - D!Top(span) + 1
      /\ \A k \in 1 .. Len(s) : s[k] = ops[D!Top(span) + k - 1]
  BY AroundIs
<1>8. /\ t \in Seq(Ops) /\ Len(t) = D!Bottom(ops2, far) - D!Top(far) + 1
      /\ \A k \in 1 .. Len(t) : t[k] = ops2[D!Top(far) + k - 1]
  BY <1>1, <1>4, AroundIs
<1> HIDE DEF s, t, d
<1>9. Len(t) = Len(s) + d /\ Len(s) \in Nat
  BY <1>2, <1>5, <1>6, <1>7, <1>8
<1>10. ASSUME NEW k \in 1 .. d PROVE ~D!IsChange(t[k])
  <2>1. k = 1 /\ d = 1
    BY <1>6
  <2>2. 1 \in 1 .. Len(t)
    BY <1>9, <2>1
  <2>3. t[1] = ops2[1]
    BY <1>5, <1>8, <2>1, <2>2
  <2> QED BY <1>1, <2>1, <2>3
<1>11. ASSUME NEW k \in 1 .. Len(s) PROVE t[k + d] = Lowered(s[k])
  <2>1. k + d \in 1 .. Len(t) /\ D!Top(span) + k - 1 \in 1 .. Len(ops)
    BY <1>2, <1>6, <1>7, <1>9
  <2>2. D!Top(far) + (k + d) - 1 = (D!Top(span) + k - 1) + 1
    BY <1>2, <1>5, <1>6, <1>7
  <2>3. t[k + d] = ops2[(D!Top(span) + k - 1) + 1]
    BY <1>8, <2>1, <2>2
  <2>4. t[k + d] = Lowered(ops[D!Top(span) + k - 1])
    BY <1>1, <2>1, <2>3
  <2> QED BY <1>7, <2>4
<1>12. d \in Nat
  BY <1>6
<1>13. D!Said(t) = D!Said(s)
  BY <1>7, <1>8, <1>9, <1>10, <1>11, <1>12, SaidBelow
<1> QED BY <1>13 DEF s, t, ops2, far

-------------------------------------------------------------------------------
(* The hunks of two texts.                                                   *)

SaidIn(ops) == [n \in 1 .. Len(D!Spans(ops)) |-> D!Said(D!Around(ops, D!Spans(ops)[n]))]

\* A hunk is drawn around its span, and told by what it says and which of those it is.
Drawn(old, new, ops) ==
  \A n \in 1 .. Len(D!Spans(ops)) :
    /\ SpanOf(ops, D!Spans(ops)[n])
    /\ D!DiffText(old, new)[n].id = [changes |-> SaidIn(ops)[n], nth |-> D!Nth(SaidIn(ops), n)]
    /\ D!DiffText(old, new)[n].lines = D!Around(ops, D!Spans(ops)[n])

\* The hunks of two texts are as many as the spans, and drawn around them.
LEMMA HunksAre ==
  ASSUME D!Bounds, NEW old \in Seq(TextLine), NEW new \in Seq(TextLine), NEW ops, ops = D!EditScript(old, new)
  PROVE  /\ ops \in Seq(Ops)
         /\ DOMAIN D!DiffText(old, new) = 1 .. Len(D!Spans(ops)) /\ Len(D!Spans(ops)) \in Nat
         /\ Len(D!DiffText(old, new)) = Len(D!Spans(ops))
         /\ Drawn(old, new, ops)
<1> DEFINE spans == D!Spans(ops)
<1>1. ops \in Seq(Ops)
  <2>1. PICK w : Walks(old, new, ops, <<1, 1>>, w)
    BY ScriptWalks
  <2> QED BY <2>1 DEF Walks
<1>2. SpansHold(ops, spans, Len(ops))
  BY <1>1, SpansAreApart
<1>3. DOMAIN spans = 1 .. Len(spans) /\ Len(spans) \in Nat /\ \A n \in 1 .. Len(spans) : spans[n] \in Span
  BY <1>2 DEF SpansHold
<1> HIDE DEF spans
<1>4. \A n \in 1 .. Len(spans) : SpanOf(ops, spans[n])
  BY <1>2, <1>3 DEF SpansHold, SpanOf
<1> DEFINE said == [n \in 1 .. Len(spans) |-> D!Said(D!Around(ops, spans[n]))]
<1>5. D!DiffText(old, new) = [n \in 1 .. Len(spans) |->
         [id |-> [changes |-> said[n], nth |-> D!Nth(said, n)], lines |-> D!Around(ops, spans[n])]]
  BY <1>3 DEF D!DiffText, spans
<1>6. said = SaidIn(ops)
  BY DEF SaidIn, spans
<1> HIDE DEF said
<1>7. Len(D!DiffText(old, new)) = Len(spans)
  BY <1>3, <1>5
<1>8. Drawn(old, new, ops)
  BY <1>3, <1>4, <1>5, <1>6 DEF spans, Drawn
<1> QED BY <1>1, <1>3, <1>5, <1>7, <1>8 DEF spans

\* What a hunk is drawn with.
LEMMA LinesAre ==
  ASSUME D!Bounds, NEW old \in Seq(TextLine), NEW new \in Seq(TextLine), NEW ops, ops = D!EditScript(old, new),
         NEW n \in 1 .. Len(D!Spans(ops))
  PROVE  D!DiffText(old, new)[n].lines = D!Around(ops, D!Spans(ops)[n])
<1>1. Drawn(old, new, ops)
  BY HunksAre
<1> QED BY <1>1 DEF Drawn

\* With a line above both texts there are the same hunks, by the same ids.
LEMMA IdsBelow ==
  ASSUME D!Bounds, NEW old \in Seq(TextLine), NEW new \in Seq(TextLine), NEW line \in TextLine
  PROVE  LET a == D!DiffText(old, new)
             b == D!DiffText(<<line>> \o old, <<line>> \o new)
         IN  DOMAIN b = DOMAIN a /\ \A n \in DOMAIN a : b[n].id = a[n].id
<1> DEFINE old2 == <<line>> \o old
           new2 == <<line>> \o new
           ops == D!EditScript(old, new)
           ops2 == D!EditScript(old2, new2)
           a == D!DiffText(old, new)
           b == D!DiffText(old2, new2)
<1>1. old2 \in Seq(TextLine) /\ new2 \in Seq(TextLine)
  BY LineAbove
<1>2. ops2 = BehindLine(line, ops)
  BY ScriptBelow DEF BehindLine
<1> HIDE DEF ops, ops2, old2, new2
<1>3. /\ ops \in Seq(Ops)
      /\ DOMAIN a = 1 .. Len(D!Spans(ops)) /\ Len(D!Spans(ops)) \in Nat
      /\ \A n \in 1 .. Len(D!Spans(ops)) :
           SpanOf(ops, D!Spans(ops)[n]) /\ a[n].id = [changes |-> SaidIn(ops)[n], nth |-> D!Nth(SaidIn(ops), n)]
  BY HunksAre DEF ops, Drawn
<1>4. /\ DOMAIN b = 1 .. Len(D!Spans(ops2))
      /\ \A n \in 1 .. Len(D!Spans(ops2)) :
           b[n].id = [changes |-> SaidIn(ops2)[n], nth |-> D!Nth(SaidIn(ops2), n)]
  BY <1>1, HunksAre DEF ops2, Drawn
<1>5. D!Spans(ops2) = FurtherAll(D!Spans(ops))
  BY <1>2, <1>3, SpansBelow
<1>6. D!Spans(ops) \in Seq(Span)
  BY <1>3, SpansAreApart DEF SpansHold
<1>7. Len(D!Spans(ops2)) = Len(D!Spans(ops)) /\ \A n \in 1 .. Len(D!Spans(ops)) : D!Spans(ops2)[n] = Further(D!Spans(ops)[n])
  BY <1>5, <1>6, FurtherIs
<1>8. \A n \in 1 .. Len(D!Spans(ops)) : D!Said(D!Around(ops2, D!Spans(ops2)[n])) = D!Said(D!Around(ops, D!Spans(ops)[n]))
  BY <1>2, <1>3, <1>7, HunkBelow
<1>9. SaidIn(ops2) = SaidIn(ops)
  BY <1>7, <1>8 DEF SaidIn
<1> HIDE DEF a, b
<1>10. DOMAIN b = DOMAIN a /\ \A n \in DOMAIN a : b[n].id = a[n].id
  BY <1>3, <1>4, <1>7, <1>9
<1> QED BY <1>10 DEF a, b, old2, new2

\* No two hunks have one id: equal ones are numbered.
LEMMA IdsApart ==
  ASSUME D!Bounds, NEW old \in Seq(TextLine), NEW new \in Seq(TextLine),
         NEW n \in DOMAIN D!DiffText(old, new), NEW m \in DOMAIN D!DiffText(old, new),
         D!DiffText(old, new)[n].id = D!DiffText(old, new)[m].id
  PROVE  n = m
<1> DEFINE ops == D!EditScript(old, new)
           said == SaidIn(ops)
<1>1. /\ DOMAIN D!DiffText(old, new) = 1 .. Len(D!Spans(ops)) /\ Len(D!Spans(ops)) \in Nat
      /\ \A k \in 1 .. Len(D!Spans(ops)) :
           D!DiffText(old, new)[k].id = [changes |-> said[k], nth |-> D!Nth(said, k)]
  <2>1. Drawn(old, new, ops)
    BY HunksAre
  <2>2. DOMAIN D!DiffText(old, new) = 1 .. Len(D!Spans(ops)) /\ Len(D!Spans(ops)) \in Nat
    BY HunksAre
  <2> HIDE DEF ops
  <2> QED BY <2>1, <2>2 DEF Drawn
<1> HIDE DEF ops, said
<1>2. said[n] = said[m] /\ D!Nth(said, n) = D!Nth(said, m) /\ n \in Nat /\ m \in Nat /\ 1 <= n /\ 1 <= m
  <2>1. n \in 1 .. Len(D!Spans(ops)) /\ m \in 1 .. Len(D!Spans(ops))
    BY <1>1
  <2>2. [changes |-> said[n], nth |-> D!Nth(said, n)] = [changes |-> said[m], nth |-> D!Nth(said, m)]
    BY <1>1, <2>1
  <2> DEFINE x == [changes |-> said[n], nth |-> D!Nth(said, n)]
             y == [changes |-> said[m], nth |-> D!Nth(said, m)]
  <2>3. x.changes = said[n] /\ x.nth = D!Nth(said, n) /\ y.changes = said[m] /\ y.nth = D!Nth(said, m)
    OBVIOUS
  <2>4. x = y
    BY <2>2
  <2> HIDE DEF x, y
  <2> QED BY <1>1, <2>1, <2>3, <2>4
<1>3. ASSUME NEW i \in Nat, NEW j \in Nat, 1 <= i, i < j, said[i] = said[j], D!Nth(said, i) = D!Nth(said, j)
      PROVE  FALSE
  <2> DEFINE A == {k \in 1 .. (i - 1) : said[k] = said[i]}
             B == {k \in 1 .. (j - 1) : said[k] = said[j]}
  <2>1. A \subseteq B /\ i \in B /\ i \notin A
    BY <1>3
  <2>2. IsFiniteSet(1 .. (j - 1)) /\ B \subseteq 1 .. (j - 1)
    BY <1>3, FS_Interval
  <2>3. IsFiniteSet(B)
    BY <2>2, FS_Subset
  <2>4. Cardinality(A) = Cardinality(B)
    <3>1. D!Nth(said, i) = Cardinality(A) /\ D!Nth(said, j) = Cardinality(B)
      BY DEF D!Nth, D!Cardinality, Cardinality
    <3> HIDE DEF A, B
    <3> QED BY <1>3, <3>1
  <2> HIDE DEF A, B
  <2> QED BY <2>1, <2>3, <2>4, FS_Subset
<1> QED BY <1>2, <1>3

-------------------------------------------------------------------------------
(* The text put together.                                                    *)

\* The end of a list, and what is put behind it.
LEMMA SubSeqMore ==
  ASSUME NEW T, NEW s \in Seq(T), NEW x \in Seq(T), NEW i \in Nat, NEW j \in Nat,
         1 <= i, i <= j, j <= Len(s)
  PROVE  x \o SubSeq(s, i, j) = Append(x \o SubSeq(s, i, j - 1), s[j])
<1> DEFINE a == SubSeq(s, i, j)
           b == SubSeq(s, i, j - 1)
           y == x \o a
           xb == x \o b
           z == Append(xb, s[j])
<1>1. a \in Seq(T) /\ Len(a) = j - i + 1 /\ \A k \in 1 .. (j - i + 1) : a[k] = s[i + k - 1]
  OBVIOUS
<1>2. b \in Seq(T) /\ Len(b) = j - i /\ \A k \in 1 .. (j - i) : b[k] = s[i + k - 1]
  <2>1. CASE i = j
    <3>1. b = <<>>
      BY <2>1
    <3> QED BY <2>1, <3>1
  <2>2. CASE i < j
    BY <2>2
  <2> QED BY <2>1, <2>2
<1>3. s[j] \in T /\ Len(x) \in Nat
  OBVIOUS
<1> HIDE DEF a, b
<1>4. y \in Seq(T) /\ Len(y) = Len(x) + (j - i + 1)
  BY <1>1
<1>5. /\ xb \in Seq(T) /\ Len(xb) = Len(x) + (j - i)
      /\ \A k \in 1 .. Len(x) : xb[k] = x[k]
      /\ \A k \in 1 .. (j - i) : xb[Len(x) + k] = b[k]
  <2>0. b \in Seq(T) /\ Len(b) = j - i
    BY <1>2
  <2>1. xb \in Seq(T) /\ Len(xb) = Len(x) + Len(b)
    BY <2>0
  <2>2. \A k \in 1 .. Len(x) : xb[k] = x[k]
    BY <2>0
  <2>3. \A k \in 1 .. Len(b) : xb[Len(x) + k] = b[k]
    BY <2>0
  <2> HIDE DEF xb
  <2> QED BY <2>0, <2>1, <2>2, <2>3
<1> HIDE DEF xb
<1>50. /\ z \in Seq(T) /\ Len(z) = Len(x) + (j - i + 1)
       /\ \A k \in 1 .. (Len(x) + (j - i)) : z[k] = xb[k]
       /\ z[Len(x) + (j - i + 1)] = s[j]
  <2>1. Len(xb) + 1 = Len(x) + (j - i + 1)
    BY <1>3, <1>5
  <2> QED BY <1>3, <1>5, <2>1
<1>6. ASSUME NEW k \in 1 .. Len(y) PROVE y[k] = z[k]
  <2>0. k \in Nat /\ 1 <= k /\ k <= Len(x) + (j - i + 1) /\ Len(x) \in Nat
    BY <1>3, <1>4
  <2>1. CASE k <= Len(x)
    <3>1. y[k] = x[k]
      BY <1>1, <2>0, <2>1
    <3>2. k \in 1 .. Len(x) /\ k \in 1 .. (Len(x) + (j - i))
      BY <2>0, <2>1
    <3> HIDE DEF y, z
    <3> QED BY <1>5, <1>50, <3>1, <3>2
  <2>2. CASE k > Len(x) /\ k <= Len(x) + (j - i)
    <3> DEFINE n == k - Len(x)
    <3>1. n \in 1 .. (j - i) /\ n \in 1 .. (j - i + 1) /\ k = Len(x) + n /\ k \in 1 .. (Len(x) + (j - i))
      BY <2>0, <2>2
    <3>2. y[k] = a[n]
      BY <1>1, <2>0, <2>2, <3>1
    <3> HIDE DEF y, z, n
    <3>3. z[k] = b[n]
      BY <1>5, <1>50, <3>1
    <3> QED BY <1>1, <1>2, <3>1, <3>2, <3>3
  <2>3. CASE k = Len(x) + (j - i + 1)
    <3>1. j - i + 1 \in 1 .. (j - i + 1) /\ i + (j - i + 1) - 1 = j
      OBVIOUS
    <3>2. y[k] = a[j - i + 1]
      BY <1>1, <2>0, <2>3
    <3>3. a[j - i + 1] = s[j]
      BY <1>1, <3>1
    <3> HIDE DEF y, z
    <3> QED BY <1>50, <2>3, <3>2, <3>3
  <2>4. k <= Len(x) \/ (k > Len(x) /\ k <= Len(x) + (j - i)) \/ k = Len(x) + (j - i + 1)
    BY <2>0
  <2> HIDE DEF y, z
  <2> QED BY <2>1, <2>2, <2>3, <2>4
<1> HIDE DEF y, z
<1>7. y = z
  BY <1>4, <1>50, <1>6, SameSeq
<1> QED BY <1>7 DEF y, z, xb, a, b

\* Nothing of a list, put behind another.
LEMMA SubSeqNone ==
  ASSUME NEW T, NEW s \in Seq(T), NEW x \in Seq(T), NEW i \in Nat
  PROVE  x \o SubSeq(s, i, i - 1) = x
<1>1. SubSeq(s, i, i - 1) = <<>>
  OBVIOUS
<1> QED BY <1>1

\* What the ops at the places I write, as they are walked.
Writes(ops, I, mix) ==
  /\ mix \in [0 .. Len(ops) -> Seq(TextLine)] /\ mix[0] = <<>>
  /\ \A k \in 1 .. Len(ops) :
       mix[k] = IF k \in I THEN Append(mix[k - 1], ops[k].text) ELSE mix[k - 1]

\* One op: where it leads, and what it says.
LEMMA OpIs ==
  ASSUME NEW old \in Seq(TextLine), NEW new \in Seq(TextLine), NEW ops, NEW w,
         Walks(old, new, ops, <<1, 1>>, w), NEW k \in 1 .. Len(ops)
  PROVE  /\ Len(ops) \in Nat /\ k - 1 \in 0 .. Len(ops) /\ k \in 0 .. Len(ops)
         /\ w[k - 1][1] \in 1 .. (Len(old) + 1) /\ w[k - 1][2] \in 1 .. (Len(new) + 1)
         /\ w[k][1] \in 1 .. (Len(old) + 1) /\ w[k][2] \in 1 .. (Len(new) + 1)
         /\ \/ /\ ops[k].kind = "context" /\ ops[k].old = w[k - 1][1]
               /\ w[k - 1][1] <= Len(old) /\ w[k - 1][2] <= Len(new)
               /\ w[k][1] = w[k - 1][1] + 1 /\ w[k][2] = w[k - 1][2] + 1
               /\ ops[k].text = old[w[k - 1][1]] /\ ops[k].text = new[w[k - 1][2]]
            \/ /\ ops[k].kind = "del" /\ ops[k].old = w[k - 1][1] /\ w[k - 1][1] <= Len(old)
               /\ w[k][1] = w[k - 1][1] + 1 /\ w[k][2] = w[k - 1][2]
               /\ ops[k].text = old[w[k - 1][1]]
            \/ /\ ops[k].kind = "add" /\ ops[k].old = 0 /\ w[k - 1][2] <= Len(new)
               /\ w[k][1] = w[k - 1][1] /\ w[k][2] = w[k - 1][2] + 1
               /\ ops[k].text = new[w[k - 1][2]]
<1>1. ops \in Seq(Ops) /\ Len(ops) \in Nat /\ w \in [0 .. Len(ops) -> D!Places(old, new)]
  BY DEF Walks
<1>2. k - 1 \in 0 .. Len(ops) /\ k \in 0 .. Len(ops)
  BY <1>1
<1> DEFINE p == w[k - 1]
           q == w[k]
           op == ops[k]
<1>3. p \in D!Places(old, new) /\ q \in D!Places(old, new)
  BY <1>1, <1>2
<1>4. OpLeads(old, new, op, p, q)
  BY DEF Walks
<1> HIDE DEF p, q, op
<1>5. /\ p[1] \in 1 .. (Len(old) + 1) /\ p[2] \in 1 .. (Len(new) + 1)
      /\ q[1] \in 1 .. (Len(old) + 1) /\ q[2] \in 1 .. (Len(new) + 1)
  BY <1>3, PlacesAre
<1>6. CASE D!Common(old, new, p) /\ q = D!Both(p) /\ op = D!Op("context", p[1], old[p[1]])
  <2>1. op.kind = "context" /\ op.old = p[1] /\ op.text = old[p[1]] /\ q[1] = p[1] + 1 /\ q[2] = p[2] + 1
    BY <1>6 DEF D!Op, D!Both
  <2>2. p[1] <= Len(old) /\ p[2] <= Len(new) /\ old[p[1]] = new[p[2]]
    BY <1>6 DEF D!Common
  <2> QED BY <1>1, <1>2, <1>5, <2>1, <2>2 DEF p, q, op
<1>7. CASE p[1] <= Len(old) /\ q = D!Down(p) /\ op = D!Op("del", p[1], old[p[1]])
  <2>1. op.kind = "del" /\ op.old = p[1] /\ op.text = old[p[1]] /\ q[1] = p[1] + 1 /\ q[2] = p[2]
    BY <1>7 DEF D!Op, D!Down
  <2> QED BY <1>1, <1>2, <1>5, <1>7, <2>1 DEF p, q, op
<1>8. CASE p[2] <= Len(new) /\ q = D!Right(p) /\ op = D!Op("add", 0, new[p[2]])
  <2>1. op.kind = "add" /\ op.old = 0 /\ op.text = new[p[2]] /\ q[1] = p[1] /\ q[2] = p[2] + 1
    BY <1>8 DEF D!Op, D!Right
  <2> QED BY <1>1, <1>2, <1>5, <1>8, <2>1 DEF p, q, op
<1> QED BY <1>4, <1>6, <1>7, <1>8 DEF OpLeads

\* Of the ops after j and up to k those that are in the live text are taken.
OnlyOld(ops, I, j, k) == \A i \in (j + 1) .. k : i \in I <=> ops[i].kind # "add"

\* From where op j has led to where op k has, the old text is copied when all
\* its lines stay and no other.
LEMMA OldCopied ==
  ASSUME NEW old \in Seq(TextLine), NEW new \in Seq(TextLine), NEW ops, NEW w,
         Walks(old, new, ops, <<1, 1>>, w), NEW I, NEW mix, Writes(ops, I, mix),
         NEW j \in 0 .. Len(ops), NEW k \in j .. Len(ops),
         OnlyOld(ops, I, j, k)
  PROVE  /\ mix[k] = mix[j] \o SubSeq(old, w[j][1], w[k][1] - 1)
         /\ w[j][1] <= w[k][1]
<1>1. Len(ops) \in Nat /\ w \in [0 .. Len(ops) -> D!Places(old, new)] /\ j \in Nat /\ k \in Nat
  BY DEF Walks
<1> DEFINE N == k - j
           S == {n \in 0 .. N : /\ mix[j + n] = mix[j] \o SubSeq(old, w[j][1], w[j + n][1] - 1)
                                /\ w[j][1] <= w[j + n][1]}
<1>2. N \in Nat
  BY <1>1
<1>3. /\ w[j][1] \in Nat /\ w[j][1] >= 1 /\ mix[j] \in Seq(TextLine)
      /\ \A i \in 1 .. Len(ops) :
           mix[i] = IF i \in I THEN Append(mix[i - 1], ops[i].text) ELSE mix[i - 1]
  <2>1. w[j] \in D!Places(old, new)
    BY <1>1
  <2> DEFINE p == w[j]
  <2> HIDE DEF p
  <2>2. p \in D!Places(old, new)
    BY <2>1 DEF p
  <2>3. p[1] \in 1 .. (Len(old) + 1)
    BY <2>2, PlacesAre
  <2>4. mix \in [0 .. Len(ops) -> Seq(TextLine)]
    BY DEF Writes
  <2>5. mix[j] \in Seq(TextLine)
    BY <2>4
  <2>6. p[1] \in Nat /\ p[1] >= 1
    BY <2>3
  <2> QED BY <2>5, <2>6 DEF Writes, p
<1>4. 0 \in S
  <2>1. mix[j] = mix[j] \o SubSeq(old, w[j][1], w[j][1] - 1)
    BY <1>3, SubSeqNone
  <2>2. j + 0 = j /\ 0 \in 0 .. N
    BY <1>1, <1>2
  <2>3. w[j][1] <= w[j][1]
    BY <1>3
  <2> HIDE DEF N
  <2> QED BY <2>1, <2>2, <2>3
<1>5. ASSUME NEW n \in 1 .. N, n - 1 \in S PROVE n \in S
  <2> DEFINE i == j + n
  <2>1. i \in 1 .. Len(ops) /\ i \in (j + 1) .. k /\ j + (n - 1) = i - 1 /\ n \in 0 .. N
    BY <1>1, <1>2
  <2>2. mix[i - 1] = mix[j] \o SubSeq(old, w[j][1], w[i - 1][1] - 1) /\ w[j][1] <= w[i - 1][1]
    BY <1>5, <2>1
  <2>3. mix[i] = IF i \in I THEN Append(mix[i - 1], ops[i].text) ELSE mix[i - 1]
    BY <1>3, <2>1
  <2>4. i \in I <=> ops[i].kind # "add"
    BY <2>1 DEF OnlyOld
  <2> HIDE DEF i
  <2>5. /\ w[i - 1][1] \in 1 .. (Len(old) + 1) /\ w[i][1] \in 1 .. (Len(old) + 1)
        /\ \/ /\ ops[i].kind # "add" /\ w[i - 1][1] <= Len(old) /\ w[i][1] = w[i - 1][1] + 1
              /\ ops[i].text = old[w[i - 1][1]]
           \/ ops[i].kind = "add" /\ w[i][1] = w[i - 1][1]
    <3>1. /\ w[i - 1][1] \in 1 .. (Len(old) + 1) /\ w[i][1] \in 1 .. (Len(old) + 1)
          /\ \/ /\ ops[i].kind = "context" /\ w[i - 1][1] <= Len(old) /\ w[i][1] = w[i - 1][1] + 1
                /\ ops[i].text = old[w[i - 1][1]]
             \/ /\ ops[i].kind = "del" /\ w[i - 1][1] <= Len(old) /\ w[i][1] = w[i - 1][1] + 1
                /\ ops[i].text = old[w[i - 1][1]]
             \/ ops[i].kind = "add" /\ w[i][1] = w[i - 1][1]
      BY <2>1, OpIs
    <3> QED BY <3>1
  <2>6. CASE ops[i].kind = "add"
    <3>1. mix[i] = mix[i - 1] /\ w[i][1] = w[i - 1][1]
      BY <2>3, <2>4, <2>5, <2>6
    <3> QED BY <2>1, <2>2, <3>1 DEF i
  <2>7. CASE ops[i].kind # "add"
    <3> DEFINE c == w[i - 1][1]
    <3>1. mix[i] = Append(mix[i - 1], old[c]) /\ w[i][1] = c + 1 /\ c \in Nat /\ c <= Len(old)
      <4>1. c <= Len(old) /\ w[i][1] = c + 1 /\ ops[i].text = old[c]
        BY <2>5, <2>7, Zenon
      <4>2. mix[i] = Append(mix[i - 1], ops[i].text)
        BY <2>3, <2>4, <2>7, Zenon
      <4>3. c \in 1 .. (Len(old) + 1)
        BY <2>5, Zenon
      <4> HIDE DEF c
      <4>4. c \in Nat
        BY <4>3
      <4> QED BY <4>1, <4>2, <4>4, Zenon
    <3>2. mix[i - 1] = mix[j] \o SubSeq(old, w[j][1], c - 1) /\ w[j][1] <= c
      BY <2>2
    <3> HIDE DEF c
    <3>3. mix[j] \o SubSeq(old, w[j][1], c) = Append(mix[j] \o SubSeq(old, w[j][1], c - 1), old[c])
      BY <1>3, <3>1, <3>2, SubSeqMore
    <3>4. mix[i] = mix[j] \o SubSeq(old, w[j][1], w[i][1] - 1) /\ w[j][1] <= w[i][1]
      <4>1. w[i][1] - 1 = c
        BY <3>1
      <4>2. mix[i] = mix[j] \o SubSeq(old, w[j][1], c)
        BY <3>1, <3>2, <3>3, Zenon
      <4>3. w[j][1] <= w[i][1]
        BY <1>3, <3>1, <3>2
      <4> QED BY <4>1, <4>2, <4>3, Zenon
    <3> QED BY <2>1, <3>4 DEF i
  <2> QED BY <2>6, <2>7
<1> HIDE DEF S, N
<1>6. \A n \in 0 .. N : n \in S
  BY <1>2, <1>4, <1>5, Upto, Zenon
<1>7. N \in S
  BY <1>2, <1>6
<1>8. j + N = k
  BY <1>1 DEF N
<1> QED BY <1>7, <1>8 DEF S

\* The new text is written when all its lines are and no other.
LEMMA NewCopied ==
  ASSUME NEW old \in Seq(TextLine), NEW new \in Seq(TextLine), NEW ops, NEW w,
         Walks(old, new, ops, <<1, 1>>, w), NEW I, NEW mix, Writes(ops, I, mix),
         \A i \in 1 .. Len(ops) : i \in I <=> ops[i].kind # "del"
  PROVE  mix[Len(ops)] = new
<1>1. Len(ops) \in Nat /\ w[0] = <<1, 1>> /\ w[Len(ops)] = <<Len(old) + 1, Len(new) + 1>> /\ Len(new) \in Nat
  BY DEF Walks
<1> DEFINE N == Len(ops)
           S == {n \in 0 .. N : mix[n] = SubSeq(new, 1, w[n][2] - 1)}
<1>2. /\ mix[0] = <<>>
      /\ \A i \in 1 .. Len(ops) :
           mix[i] = IF i \in I THEN Append(mix[i - 1], ops[i].text) ELSE mix[i - 1]
  BY DEF Writes
<1>3. 0 \in S
  <2>1. w[0][2] = 1
    BY <1>1
  <2>2. SubSeq(new, 1, 1 - 1) = <<>>
    OBVIOUS
  <2>3. mix[0] = SubSeq(new, 1, w[0][2] - 1)
    BY <1>2, <2>1, <2>2, Zenon
  <2>4. 0 \in 0 .. N
    BY <1>1
  <2> QED BY <2>3, <2>4
<1>4. ASSUME NEW i \in 1 .. N, i - 1 \in S PROVE i \in S
  <2>1. mix[i - 1] = SubSeq(new, 1, w[i - 1][2] - 1)
    BY <1>4
  <2>2. mix[i] = IF i \in I THEN Append(mix[i - 1], ops[i].text) ELSE mix[i - 1]
    BY <1>2
  <2>3. i \in I <=> ops[i].kind # "del"
    OBVIOUS
  <2>4. /\ w[i - 1][2] \in 1 .. (Len(new) + 1)
        /\ \/ /\ ops[i].kind # "del" /\ w[i - 1][2] <= Len(new) /\ w[i][2] = w[i - 1][2] + 1
              /\ ops[i].text = new[w[i - 1][2]]
           \/ ops[i].kind = "del" /\ w[i][2] = w[i - 1][2]
    <3>1. /\ w[i - 1][2] \in 1 .. (Len(new) + 1)
          /\ \/ /\ ops[i].kind = "context" /\ w[i - 1][2] <= Len(new) /\ w[i][2] = w[i - 1][2] + 1
                /\ ops[i].text = new[w[i - 1][2]]
             \/ /\ ops[i].kind = "add" /\ w[i - 1][2] <= Len(new) /\ w[i][2] = w[i - 1][2] + 1
                /\ ops[i].text = new[w[i - 1][2]]
             \/ ops[i].kind = "del" /\ w[i][2] = w[i - 1][2]
      BY OpIs
    <3> QED BY <3>1
  <2>5. CASE ops[i].kind = "del"
    <3>1. mix[i] = mix[i - 1] /\ w[i][2] = w[i - 1][2]
      BY <2>2, <2>3, <2>4, <2>5
    <3>2. mix[i] = SubSeq(new, 1, w[i][2] - 1)
      BY <2>1, <3>1, Zenon
    <3>3. i \in 0 .. N
      BY <1>1
    <3> QED BY <3>2, <3>3
  <2>6. CASE ops[i].kind # "del"
    <3> DEFINE c == w[i - 1][2]
    <3>1. mix[i] = Append(mix[i - 1], new[c]) /\ w[i][2] = c + 1 /\ c \in Nat /\ c >= 1 /\ c <= Len(new)
      BY <2>2, <2>3, <2>4, <2>6
    <3>2. mix[i - 1] = SubSeq(new, 1, c - 1)
      BY <2>1
    <3> HIDE DEF c
    <3>3. <<>> \in Seq(TextLine)
      OBVIOUS
    <3>4. <<>> \o SubSeq(new, 1, c) = Append(<<>> \o SubSeq(new, 1, c - 1), new[c])
      BY <3>1, <3>3, SubSeqMore
    <3>5. SubSeq(new, 1, c) \in Seq(TextLine) /\ SubSeq(new, 1, c - 1) \in Seq(TextLine)
      BY <3>1
    <3>6. SubSeq(new, 1, c) = Append(SubSeq(new, 1, c - 1), new[c])
      BY <3>4, <3>5
    <3>7. w[i][2] - 1 = c
      BY <3>1
    <3>8. mix[i] = SubSeq(new, 1, w[i][2] - 1)
      BY <3>1, <3>2, <3>6, <3>7, Zenon
    <3>9. i \in 0 .. N
      BY <1>1
    <3> QED BY <3>8, <3>9
  <2> QED BY <2>5, <2>6
<1> HIDE DEF S
<1>5. \A n \in 0 .. N : n \in S
  BY <1>1, <1>3, <1>4, Upto
<1>6. mix[N] = SubSeq(new, 1, w[N][2] - 1)
  BY <1>1, <1>5 DEF S
<1>7. w[N][2] - 1 = Len(new)
  BY <1>1
<1>8. SubSeq(new, 1, Len(new)) = new
  OBVIOUS
<1> QED BY <1>6, <1>7, <1>8


\* The text put together when op k has been dealt with.
DoneAt(mix, w, k) == [out |-> mix[k], cursor |-> w[k][1] - 1]

\* What has been written so far, and how far the live text has been read.
LEMMA DoneIs ==
  ASSUME NEW old \in Seq(TextLine), NEW new \in Seq(TextLine), NEW ops, NEW w,
         Walks(old, new, ops, <<1, 1>>, w), NEW I, NEW mix, Writes(ops, I, mix), NEW k \in 0 .. Len(ops)
  PROVE  /\ mix[k] \in Seq(TextLine) /\ w[k][1] \in 1 .. (Len(old) + 1)
         /\ DoneAt(mix, w, k).out = mix[k] /\ DoneAt(mix, w, k).cursor = w[k][1] - 1
<1>1. mix[k] \in Seq(TextLine)
  BY DEF Writes
<1> DEFINE p == w[k]
<1>2. p \in D!Places(old, new)
  BY DEF Walks
<1> HIDE DEF p
<1>3. p[1] \in 1 .. (Len(old) + 1)
  BY <1>2, PlacesAre
<1> QED BY <1>1, <1>3 DEF DoneAt, p

\* What is copied is what stands between two ops when the live text stays there.
LEMMA CopiedIs ==
  ASSUME NEW old \in Seq(TextLine), NEW new \in Seq(TextLine), NEW ops, NEW w,
         Walks(old, new, ops, <<1, 1>>, w), NEW I, NEW mix, Writes(ops, I, mix),
         NEW j \in 0 .. Len(ops), NEW k \in j .. Len(ops),
         OnlyOld(ops, I, j, k)
  PROVE  D!Copied(old, DoneAt(mix, w, j), w[k][1] - 1) = DoneAt(mix, w, k)
<1>0. Len(ops) \in Nat
  BY DEF Walks
<1>1. k \in 0 .. Len(ops)
  BY <1>0
<1>2. /\ mix[k] = mix[j] \o SubSeq(old, w[j][1], w[k][1] - 1)
      /\ w[j][1] <= w[k][1]
  BY OldCopied, Zenon
<1>3. w[j][1] \in Nat /\ w[k][1] \in Nat /\ w[j][1] >= 1 /\ w[k][1] >= 1
  <2>1. w[j][1] \in 1 .. (Len(old) + 1) /\ w[k][1] \in 1 .. (Len(old) + 1)
    BY <1>1, DoneIs
  <2> QED BY <2>1
<1> DEFINE x == w[j][1]
           y == w[k][1]
<1>4. D!Copied(old, DoneAt(mix, w, j), y - 1) =
        [out |-> mix[j] \o SubSeq(old, (x - 1) + 1, y - 1), cursor |-> IF x - 1 < y - 1 THEN y - 1 ELSE x - 1]
  BY DEF D!Copied, DoneAt
<1>5. (x - 1) + 1 = x /\ (IF x - 1 < y - 1 THEN y - 1 ELSE x - 1) = y - 1
  BY <1>2, <1>3
<1>6. DoneAt(mix, w, k) = [out |-> mix[k], cursor |-> y - 1]
  BY DEF DoneAt
<1> HIDE DEF x, y
<1>7. D!Copied(old, DoneAt(mix, w, j), y - 1) = [out |-> mix[j] \o SubSeq(old, x, y - 1), cursor |-> y - 1]
  BY <1>4, <1>5
<1>8. mix[k] = mix[j] \o SubSeq(old, x, y - 1)
  BY <1>2 DEF x, y
<1> QED BY <1>6, <1>7, <1>8 DEF y

\* One line of a hunk that is kept.
LEMMA OneIs ==
  ASSUME NEW old \in Seq(TextLine), NEW new \in Seq(TextLine), NEW ops, NEW w,
         Walks(old, new, ops, <<1, 1>>, w), NEW I, NEW mix, Writes(ops, I, mix),
         NEW k \in 1 .. Len(ops), k \in I <=> ops[k].kind # "del"
  PROVE  D!One(old, DoneAt(mix, w, k - 1), ops[k]) = DoneAt(mix, w, k)
<1> DEFINE d == DoneAt(mix, w, k - 1)
           op == ops[k]
           x == w[k - 1][1]
           y == w[k][1]
<1>1. mix[k] = IF k \in I THEN Append(mix[k - 1], op.text) ELSE mix[k - 1]
  BY DEF Writes
<1>2. /\ x \in 1 .. (Len(old) + 1)
      /\ \/ op.kind = "context" /\ y = x + 1 /\ op.text = old[x]
         \/ op.kind = "del" /\ y = x + 1
         \/ op.kind = "add" /\ y = x
  <2>1. /\ w[k - 1][1] \in 1 .. (Len(old) + 1)
        /\ \/ ops[k].kind = "context" /\ w[k][1] = w[k - 1][1] + 1 /\ ops[k].text = old[w[k - 1][1]]
           \/ ops[k].kind = "del" /\ w[k][1] = w[k - 1][1] + 1
           \/ ops[k].kind = "add" /\ w[k][1] = w[k - 1][1]
    BY OpIs
  <2> QED BY <2>1
<1>3. d = [out |-> mix[k - 1], cursor |-> x - 1] /\ DoneAt(mix, w, k) = [out |-> mix[k], cursor |-> y - 1]
  BY DEF DoneAt
<1>4. k \in I <=> op.kind # "del"
  OBVIOUS
<1> HIDE DEF d, op, x, y
<1>5. x \in Nat /\ x >= 1
  BY <1>2
<1>6. CASE op.kind = "context"
  <2>1. D!One(old, d, op) = [out |-> Append(d.out, old[d.cursor + 1]), cursor |-> d.cursor + 1]
    BY <1>6 DEF D!One
  <2>2. d.out = mix[k - 1] /\ d.cursor + 1 = x /\ y - 1 = x
    BY <1>2, <1>3, <1>5, <1>6
  <2>3. mix[k] = Append(mix[k - 1], old[x])
    BY <1>1, <1>2, <1>4, <1>6
  <2> QED BY <1>3, <2>1, <2>2, <2>3 DEF d, op
<1>7. CASE op.kind = "del"
  <2>1. D!One(old, d, op) = [d EXCEPT !.cursor = @ + 1]
    BY <1>7 DEF D!One
  <2>2. D!One(old, d, op) = [out |-> mix[k - 1], cursor |-> (x - 1) + 1]
    BY <1>3, <2>1
  <2>3. (x - 1) + 1 = y - 1
    BY <1>2, <1>5, <1>7
  <2>4. mix[k] = mix[k - 1]
    BY <1>1, <1>4, <1>7
  <2> QED BY <1>3, <2>2, <2>3, <2>4 DEF d, op
<1>8. CASE op.kind = "add"
  <2>1. D!One(old, d, op) = [d EXCEPT !.out = Append(@, op.text)]
    BY <1>8 DEF D!One
  <2>2. D!One(old, d, op) = [out |-> Append(mix[k - 1], op.text), cursor |-> x - 1]
    BY <1>3, <2>1
  <2>3. x = y
    BY <1>2, <1>5, <1>8
  <2>4. mix[k] = Append(mix[k - 1], op.text)
    BY <1>1, <1>4, <1>8
  <2> QED BY <1>3, <2>2, <2>3, <2>4 DEF d, op
<1> QED BY <1>2, <1>6, <1>7, <1>8

\* The lines of a hunk are the ops from a to b.
LinesOf(ops, a, b, lines) ==
  /\ 1 <= a /\ a <= b /\ b <= Len(ops)
  /\ lines \in Seq(Ops) /\ Len(lines) = b - a + 1
  /\ \A k \in 1 .. Len(lines) : lines[k] = ops[a + k - 1]

\* Op a comes next, or changes nothing.
NextOrPlain(done, ops, w, a) == done.cursor = w[a - 1][1] - 1 \/ ~D!IsChange(ops[a])

\* A hunk starts where the live text is before its first line.
LEMMA StartIs ==
  ASSUME NEW old \in Seq(TextLine), NEW new \in Seq(TextLine), NEW ops, NEW w,
         Walks(old, new, ops, <<1, 1>>, w), NEW done, NEW a \in Nat, NEW b \in Nat, NEW lines,
         LinesOf(ops, a, b, lines),
         NextOrPlain(done, ops, w, a)
  PROVE  D!Start(done, lines) = w[a - 1][1] - 1
<1> DEFINE at == {n \in DOMAIN lines : lines[n].old # 0}
<1>1. /\ Len(ops) \in Nat /\ DOMAIN lines = 1 .. Len(lines) /\ Len(lines) = b - a + 1
      /\ 1 <= a /\ a <= b /\ b <= Len(ops)
  BY DEF LinesOf, Walks
<1>2. ASSUME NEW n \in 1 .. Len(lines)
      PROVE  /\ a + n - 1 \in 1 .. Len(ops) /\ (a + n - 1) - 1 = a + n - 2
             /\ w[a + n - 2][1] \in 1 .. (Len(old) + 1)
             /\ lines[n].old = 0 => w[a + n - 1][1] = w[a + n - 2][1]
             /\ lines[n].old # 0 => lines[n].old = w[a + n - 2][1]
             /\ lines[n].kind = "context" => lines[n].old # 0
  <2> DEFINE k == a + n - 1
  <2>a. k \in 1 .. Len(ops)
    BY <1>1
  <2>b. k - 1 = a + n - 2
    BY <1>1
  <2>c. lines[n] = ops[k]
    BY <1>1 DEF LinesOf
  <2>1. k \in 1 .. Len(ops) /\ k - 1 = a + n - 2 /\ lines[n] = ops[k]
    BY <2>a, <2>b, <2>c
  <2> HIDE DEF k
  <2>2. /\ w[k - 1][1] \in 1 .. (Len(old) + 1)
        /\ \/ ops[k].kind = "context" /\ ops[k].old = w[k - 1][1]
           \/ ops[k].kind = "del" /\ ops[k].old = w[k - 1][1]
           \/ ops[k].kind = "add" /\ ops[k].old = 0 /\ w[k][1] = w[k - 1][1]
    BY <2>1, OpIs
  <2>3. w[k - 1][1] # 0
    BY <2>2
  <2>4. k = a + n - 1
    BY DEF k
  <2>5. /\ lines[n].old = 0 => w[k][1] = w[k - 1][1]
        /\ lines[n].old # 0 => lines[n].old = w[k - 1][1]
        /\ lines[n].kind = "context" => lines[n].old # 0
    BY <2>1, <2>2, <2>3
  <2> QED BY <2>1, <2>2, <2>4, <2>5
<1>3. CASE at = {}
  <2>1. 1 \in 1 .. Len(lines) /\ a + 1 - 1 = a
    BY <1>1
  <2>2. lines[1] = ops[a]
    BY <2>1 DEF LinesOf
  <2>3. lines[1].kind # "context"
    BY <1>1, <1>2, <1>3, <2>1
  <2>4. done.cursor = w[a - 1][1] - 1
    BY <2>2, <2>3 DEF D!IsChange, NextOrPlain
  <2> QED BY <1>3, <2>4 DEF D!Start
<1>4. CASE at # {}
  <2> DEFINE m == CHOOSE n \in at : \A k \in at : n <= k
  <2>1. \A x \in at : x \in Nat
    BY <1>1
  <2>2. \E x \in at : \A y \in at : x <= y
    <3> HIDE DEF at
    <3> QED BY <1>4, <2>1, LeastOf, Zenon
  <2>3. m \in at /\ \A k \in at : m <= k
    <3> HIDE DEF at
    <3> QED BY <2>2
  <2>4. m \in 1 .. Len(lines) /\ lines[m].old # 0
    BY <1>1, <2>3
  <2>5. D!Start(done, lines) = lines[m].old - 1
    BY <1>4 DEF D!Start
  <2>6. ASSUME NEW n \in 1 .. Len(lines), n < m PROVE lines[n].old = 0
    <3>1. n \in at => m <= n
      BY <2>3
    <3>2. m \in Nat /\ n \in Nat /\ n \in DOMAIN lines
      BY <1>1, <2>4
    <3> HIDE DEF m
    <3>3. n \notin at
      BY <2>6, <3>1, <3>2
    <3> QED BY <3>2, <3>3
  <2> HIDE DEF m, at
  <2> DEFINE S == {n \in 0 .. (m - 1) : w[a + n - 1][1] = w[a - 1][1]}
  <2>7. 0 \in S
    <3>1. a + 0 - 1 = a - 1 /\ 0 \in 0 .. (m - 1)
      BY <1>1, <2>4
    <3> QED BY <3>1
  <2>8. ASSUME NEW n \in 1 .. (m - 1), n - 1 \in S PROVE n \in S
    <3>1. n \in 1 .. Len(lines) /\ n < m /\ a + (n - 1) - 1 = a + n - 2 /\ n \in 0 .. (m - 1)
      BY <1>1, <2>4
    <3>2. w[a + n - 2][1] = w[a - 1][1]
      BY <2>8, <3>1
    <3>3. w[a + n - 1][1] = w[a + n - 2][1]
      BY <1>2, <2>6, <3>1
    <3> QED BY <3>1, <3>2, <3>3
  <2> HIDE DEF S
  <2>9. m - 1 \in Nat
    BY <2>4
  <2>10. \A n \in 0 .. (m - 1) : n \in S
    <3> DEFINE M == m - 1
    <3>1. M \in Nat /\ \A n \in 1 .. M : n - 1 \in S => n \in S
      BY <2>8, <2>9
    <3> HIDE DEF M
    <3>2. \A n \in 0 .. M : n \in S
      BY <2>7, <3>1, Upto, Zenon
    <3> QED BY <3>2 DEF M
  <2>11. m - 1 \in S
    BY <2>9, <2>10
  <2>12. w[a + (m - 1) - 1][1] = w[a - 1][1]
    BY <2>11 DEF S
  <2>13. a + (m - 1) - 1 = a + m - 2
    BY <1>1, <2>4
  <2>14. lines[m].old = w[a + m - 2][1]
    BY <1>2, <2>4
  <2> QED BY <2>5, <2>12, <2>13, <2>14
<1> QED BY <1>3, <1>4

\* Of the ops from a to b those that are in the proposed text are taken.
OnlyNew(ops, I, a, b) == \A k \in a .. b : k \in I <=> ops[k].kind # "del"

\* What starts the same and goes on the same is the same.
LEMMA SameSteps ==
  ASSUME NEW N \in Nat, NEW f, NEW g, f[0] = g[0], \A n \in 1 .. N : f[n - 1] = g[n - 1] => f[n] = g[n]
  PROVE  f[N] = g[N]
<1> DEFINE S == {n \in 0 .. N : f[n] = g[n]}
<1>1. 0 \in S /\ \A n \in 1 .. N : n - 1 \in S => n \in S
  OBVIOUS
<1> HIDE DEF S
<1>2. \A n \in 0 .. N : n \in S
  BY <1>1, Upto, Zenon
<1>3. N \in S
  BY <1>2
<1> QED BY <1>3 DEF S

\* Between ops e and a there may be others only when op a changes nothing.
Reaches(ops, e, a) == e < a /\ (e = a - 1 \/ ~D!IsChange(ops[a]))

\* A hunk that is kept is written whole, behind the live text before it.
LEMMA WholeIs ==
  ASSUME NEW old \in Seq(TextLine), NEW new \in Seq(TextLine), NEW ops, NEW w,
         Walks(old, new, ops, <<1, 1>>, w), NEW I, NEW mix, Writes(ops, I, mix),
         NEW e \in Nat, NEW a \in Nat, NEW b \in Nat, NEW lines, LinesOf(ops, a, b, lines),
         Reaches(ops, e, a), OnlyOld(ops, I, e, a - 1), OnlyNew(ops, I, a, b)
  PROVE  D!Whole(old, DoneAt(mix, w, e), lines) = DoneAt(mix, w, b)
<1> DEFINE N == Len(lines)
           done == DoneAt(mix, w, e)
           Rec(f) == f = [n \in 0 .. Len(lines) |->
                            IF n = 0 THEN D!Copied(old, done, D!Start(done, lines))
                            ELSE D!One(old, f[n - 1], lines[n])]
           upTo == CHOOSE f : Rec(f)
           put == [n \in 0 .. N |-> DoneAt(mix, w, a - 1 + n)]
<1>0. e < a /\ (e = a - 1 \/ ~D!IsChange(ops[a]))
  BY DEF Reaches
<1>1. /\ Len(ops) \in Nat /\ N \in Nat /\ N = b - a + 1 /\ a >= 1 /\ a <= b /\ b <= Len(ops)
      /\ a - 1 + N = b
  BY DEF LinesOf, Walks
<1>2. D!Copied(old, done, D!Start(done, lines)) = DoneAt(mix, w, a - 1)
  <2> DEFINE k == a - 1
  <2>1. e \in 0 .. Len(ops) /\ k \in e .. Len(ops)
    BY <1>0, <1>1
  <2>2. done.cursor = w[e][1] - 1
    BY DEF DoneAt
  <2>3. NextOrPlain(done, ops, w, a)
    BY <1>0, <2>2 DEF NextOrPlain
  <2> HIDE DEF done
  <2>4. D!Start(done, lines) = w[a - 1][1] - 1
    BY <2>3, StartIs
  <2>5. OnlyOld(ops, I, e, k)
    OBVIOUS
  <2>6. D!Start(done, lines) = w[k][1] - 1
    BY <2>4
  <2> HIDE DEF k
  <2>7. D!Copied(old, done, w[k][1] - 1) = DoneAt(mix, w, k)
    BY <2>1, <2>5, CopiedIs DEF done
  <2>8. D!Copied(old, done, D!Start(done, lines)) = DoneAt(mix, w, k)
    BY <2>6, <2>7
  <2> QED BY <2>8 DEF k
<1>3. ASSUME NEW n \in 1 .. N
      PROVE D!One(old, DoneAt(mix, w, a - 1 + (n - 1)), lines[n]) = DoneAt(mix, w, a - 1 + n)
  <2> DEFINE k == a - 1 + n
  <2>1. k \in 1 .. Len(ops) /\ k \in a .. b /\ a - 1 + (n - 1) = k - 1 /\ a + n - 1 = k
    BY <1>1
  <2>2. lines[n] = ops[k]
    BY <2>1 DEF LinesOf
  <2>3. k \in I <=> ops[k].kind # "del"
    BY <2>1 DEF OnlyNew
  <2> HIDE DEF k
  <2>4. D!One(old, DoneAt(mix, w, k - 1), ops[k]) = DoneAt(mix, w, k)
    BY <2>1, <2>3, OneIs
  <2> QED BY <2>1, <2>2, <2>4 DEF k
<1> HIDE DEF done, N
<1>4. put[0] = D!Copied(old, done, D!Start(done, lines))
  <2>1. a - 1 + 0 = a - 1 /\ 0 \in 0 .. N
    BY <1>1
  <2> QED BY <1>2, <2>1
<1>5. ASSUME NEW n \in 1 .. N PROVE put[n] = D!One(old, put[n - 1], lines[n])
  <2>1. n \in 0 .. N /\ n - 1 \in 0 .. N
    BY <1>1
  <2> QED BY <1>3, <2>1
<1>6. Rec(put)
  <2>1. put = [n \in 0 .. N |-> put[n]]
    OBVIOUS
  <2> HIDE DEF put
  <2>2. ASSUME NEW n \in 0 .. N
        PROVE  put[n] = IF n = 0 THEN D!Copied(old, done, D!Start(done, lines)) ELSE D!One(old, put[n - 1], lines[n])
    <3>1. n # 0 => n \in 1 .. N
      BY <1>1
    <3> QED BY <1>4, <1>5, <3>1
  <2> QED BY <2>1, <2>2 DEF N
<1>7. Rec(upTo)
  <2> HIDE DEF Rec, put
  <2> QED BY <1>6
<1>8. D!Whole(old, done, lines) = upTo[N]
  BY DEF D!Whole, N
<1>9. upTo[N] = put[N]
  <2> DEFINE u == upTo
  <2> HIDE DEF u, put
  <2>1. Rec(u)
    BY <1>7 DEF u
  <2>2. u[0] = D!Copied(old, done, D!Start(done, lines))
    BY <1>1, <2>1 DEF N
  <2>3. ASSUME NEW n \in 1 .. N PROVE u[n] = D!One(old, u[n - 1], lines[n])
    <3>1. n \in 0 .. N /\ n # 0
      BY <1>1
    <3> QED BY <2>1, <3>1 DEF N
  <2>4. \A n \in 1 .. N : u[n - 1] = put[n - 1] => u[n] = put[n]
    BY <1>5, <2>3
  <2>5. u[0] = put[0]
    BY <1>4, <2>2
  <2>6. u[N] = put[N]
    BY <1>1, <2>4, <2>5, SameSteps
  <2> QED BY <2>6 DEF u
<1>10. put[N] = DoneAt(mix, w, b)
  BY <1>1
<1> QED BY <1>8, <1>9, <1>10 DEF done

-------------------------------------------------------------------------------
(* The hunks applied.                                                        *)

\* A span, and the hunk around it.
LEMMA HunkIs ==
  ASSUME D!Bounds, NEW ops \in Seq(Ops), NEW spans, SpansHold(ops, spans, Len(ops)), NEW n \in 1 .. Len(spans)
  PROVE  /\ Len(ops) \in Nat /\ Len(spans) \in Nat /\ SpanOf(ops, spans[n])
         /\ spans[n].from \in Nat /\ spans[n].to \in Nat
         /\ D!Top(spans[n]) \in Nat /\ D!Bottom(ops, spans[n]) \in Nat
         /\ 1 <= D!Top(spans[n]) /\ D!Top(spans[n]) <= spans[n].from /\ spans[n].from <= spans[n].to
         /\ spans[n].to <= D!Bottom(ops, spans[n]) /\ D!Bottom(ops, spans[n]) <= Len(ops)
<1> DEFINE s == spans[n]
<1>1. s \in Span /\ 1 <= s.from /\ s.from <= s.to /\ s.to <= Len(ops)
  BY DEF SpansHold
<1>2. Len(ops) \in Nat /\ Len(spans) \in Nat
  BY DEF SpansHold
<1> HIDE DEF s
<1>3. SpanOf(ops, s) /\ s.from \in Nat /\ s.to \in Nat
  BY <1>1 DEF SpanOf, Span
<1>4. D!Top(s) \in 1 .. s.from /\ D!Bottom(ops, s) \in s.to .. Len(ops)
  BY <1>3, AroundIs
<1>5. D!Top(s) \in Nat /\ D!Bottom(ops, s) \in Nat /\ 1 <= D!Top(s) /\ D!Top(s) <= s.from /\ s.to <= D!Bottom(ops, s) /\ D!Bottom(ops, s) <= Len(ops)
  BY <1>2, <1>3, <1>4
<1> QED BY <1>1, <1>2, <1>3, <1>5 DEF s

\* Two hunks do not overlap.
LEMMA HunksApart ==
  ASSUME D!Bounds, NEW ops \in Seq(Ops), NEW spans, SpansHold(ops, spans, Len(ops)),
         NEW n \in 1 .. Len(spans), NEW m \in 1 .. Len(spans), n < m
  PROVE  /\ D!Bottom(ops, spans[n]) < D!Top(spans[m])
         /\ spans[n].to < D!Top(spans[m]) /\ D!Bottom(ops, spans[n]) < spans[m].from
         /\ spans[n].to < spans[m].from
<1>1. spans[n].to + 2 * Context + 1 < spans[m].from
  BY DEF SpansHold
<1> DEFINE s == spans[n]
           t == spans[m]
<1>2. /\ s.to \in Nat /\ s.to >= 1 /\ t.from \in Nat /\ Len(ops) \in Nat
      /\ s.to <= D!Bottom(ops, s) /\ D!Bottom(ops, s) \in Nat /\ D!Top(t) \in Nat /\ D!Top(t) <= t.from
  <2>1. /\ s.from \in Nat /\ s.to \in Nat /\ s.from >= 1 /\ s.from <= s.to /\ Len(ops) \in Nat
        /\ s.to <= D!Bottom(ops, s) /\ D!Bottom(ops, s) \in Nat
    BY HunkIs DEF SpanOf
  <2>2. t.from \in Nat /\ D!Top(t) \in Nat /\ D!Top(t) <= t.from
    BY HunkIs
  <2> QED BY <2>1, <2>2
<1>3. s.to + 2 * Context + 1 < t.from /\ Context \in Nat
  BY <1>1 DEF D!Bounds
<1> HIDE DEF s, t
<1>4. D!Bottom(ops, s) <= s.to + Context
  BY <1>2, <1>3 DEF D!Bottom
<1>5. D!Top(t) = t.from - Context
  BY <1>2, <1>3 DEF D!Top
<1>6. D!Bottom(ops, s) < D!Top(t)
  BY <1>2, <1>3, <1>4, <1>5
<1>7. s.to < D!Top(t) /\ D!Bottom(ops, s) < t.from /\ s.to < t.from
  BY <1>2, <1>6
<1> QED BY <1>6, <1>7 DEF s, t

\* A hunk starts with a line that does not change, or at the top.
LEMMA TopIs ==
  ASSUME D!Bounds, NEW ops \in Seq(Ops), NEW spans, SpansHold(ops, spans, Len(ops)), NEW n \in 1 .. Len(spans)
  PROVE  D!Top(spans[n]) = 1 \/ ~D!IsChange(ops[D!Top(spans[n])])
<1> DEFINE a == D!Top(spans[n])
<1>1. SUFFICES ASSUME a # 1, D!IsChange(ops[a]) PROVE FALSE
  OBVIOUS
<1>2. /\ spans[n].from \in Nat /\ a \in Nat /\ 1 <= a /\ a <= spans[n].from /\ a <= Len(ops) /\ Len(ops) \in Nat
      /\ Len(spans) \in Nat
  <2>1. /\ spans[n].from \in Nat /\ a \in Nat /\ 1 <= a /\ a <= spans[n].from /\ Len(ops) \in Nat
        /\ spans[n].to \in Nat /\ spans[n].from <= spans[n].to
        /\ spans[n].to <= D!Bottom(ops, spans[n]) /\ D!Bottom(ops, spans[n]) <= Len(ops)
        /\ D!Bottom(ops, spans[n]) \in Nat /\ Len(spans) \in Nat
    BY HunkIs
  <2> HIDE DEF a
  <2> QED BY <2>1
<1>3. a < spans[n].from
  <2>1. Context \in Nat /\ Context > 0
    BY DEF D!Bounds
  <2> DEFINE x == spans[n].from
  <2>2. a = IF x > Context THEN x - Context ELSE 1
    BY DEF D!Top
  <2>3. x \in Nat
    BY <1>2
  <2> HIDE DEF a, x
  <2>4. a < x
    BY <1>1, <2>1, <2>2, <2>3
  <2> QED BY <2>4 DEF x
<1> HIDE DEF a
<1>4. PICK m \in 1 .. Len(spans) : spans[m].from <= a /\ a <= spans[m].to
  <2>1. a \in 1 .. Len(ops)
    BY <1>2
  <2> QED BY <1>1, <2>1 DEF SpansHold
<1>5. spans[m].from \in Nat /\ spans[m].to \in Nat
  BY HunkIs
<1>6. m < n \/ m = n \/ n < m
  BY <1>2
<1>7. ~(m < n)
  <2>1. m < n => spans[m].to < a
    BY HunksApart DEF a
  <2> QED BY <1>2, <1>4, <1>5, <2>1
<1>8. ~(n < m)
  <2>1. n < m => spans[n].to < spans[m].from
    BY HunksApart
  <2>2. spans[n].to \in Nat /\ spans[n].from <= spans[n].to
    BY HunkIs
  <2> QED BY <1>2, <1>3, <1>4, <1>5, <2>1, <2>2
<1>9. m # n
  BY <1>2, <1>3, <1>4, <1>5
<1> QED BY <1>6, <1>7, <1>8, <1>9

\* Op i is in a hunk that was turned down.
TurnedDown(spans, R, i) == \E n \in R : i \in spans[n].from .. spans[n].to

\* The places in I are the ops that stay when the hunks R are turned down.
Staying(ops, spans, R, I) ==
  /\ R \subseteq 1 .. Len(spans)
  /\ \A i \in 1 .. Len(ops) :
       i \in I <=> \/ ops[i].kind = "context"
                   \/ ops[i].kind = "del" /\ TurnedDown(spans, R, i)
                   \/ ops[i].kind = "add" /\ ~TurnedDown(spans, R, i)

\* In a hunk that is kept the proposed text is taken.
LEMMA KeptTakesNew ==
  ASSUME D!Bounds, NEW ops \in Seq(Ops), NEW spans, SpansHold(ops, spans, Len(ops)),
         NEW R, NEW I, Staying(ops, spans, R, I), NEW n \in 1 .. Len(spans), n \notin R
  PROVE  OnlyNew(ops, I, D!Top(spans[n]), D!Bottom(ops, spans[n]))
<1> SUFFICES ASSUME NEW i \in D!Top(spans[n]) .. D!Bottom(ops, spans[n]) PROVE i \in I <=> ops[i].kind # "del"
  BY DEF OnlyNew
<1>1. /\ Len(ops) \in Nat /\ Len(spans) \in Nat
      /\ D!Top(spans[n]) \in Nat /\ D!Bottom(ops, spans[n]) \in Nat /\ 1 <= D!Top(spans[n]) /\ D!Bottom(ops, spans[n]) <= Len(ops)
  BY HunkIs
<1>2. i \in 1 .. Len(ops) /\ i \in Nat /\ D!Top(spans[n]) <= i /\ i <= D!Bottom(ops, spans[n])
  BY <1>1
<1>3. ~TurnedDown(spans, R, i)
  <2> SUFFICES ASSUME NEW m \in R, i \in spans[m].from .. spans[m].to PROVE FALSE
    BY DEF TurnedDown
  <2>1. m \in 1 .. Len(spans) /\ m # n
    BY DEF Staying
  <2>2. spans[m].from \in Nat /\ spans[m].to \in Nat
    BY <2>1, HunkIs
  <2>3. spans[m].from <= i /\ i <= spans[m].to
    BY <1>2, <2>2
  <2>4. m < n => spans[m].to < D!Top(spans[n])
    BY <2>1, HunksApart
  <2>5. n < m => D!Bottom(ops, spans[n]) < spans[m].from
    BY <2>1, HunksApart
  <2>6. m < n \/ n < m
    BY <1>1, <2>1
  <2> QED BY <1>1, <1>2, <2>2, <2>3, <2>4, <2>5, <2>6
<1>4. ops[i].kind \in {"context", "del", "add"}
  <2>1. ops[i] \in Ops
    BY <1>2
  <2> QED BY <2>1 DEF Ops
<1>5. i \in I <=> ops[i].kind = "context" \/ ops[i].kind = "add"
  BY <1>2, <1>3 DEF Staying
<1> QED BY <1>4, <1>5

\* Where the last hunk that is kept ends, of the first n.
EndsAt(ops, spans, R, n, x) ==
  /\ x \in Nat /\ x <= Len(ops)
  /\ \A m \in 1 .. n : m \notin R => D!Bottom(ops, spans[m]) <= x
  /\ \A m \in 1 .. Len(spans) : n < m => x < D!Top(spans[m])

\* After it, up to the next hunk, the live text is taken.
LEMMA BetweenTakesOld ==
  ASSUME D!Bounds, NEW ops \in Seq(Ops), NEW spans, SpansHold(ops, spans, Len(ops)),
         NEW R, NEW I, Staying(ops, spans, R, I), NEW n \in Nat, NEW x, EndsAt(ops, spans, R, n, x),
         NEW k \in Nat, k <= Len(ops), \A m \in 1 .. Len(spans) : n < m => k < spans[m].from
  PROVE  OnlyOld(ops, I, x, k)
<1> SUFFICES ASSUME NEW i \in (x + 1) .. k PROVE i \in I <=> ops[i].kind # "add"
  BY DEF OnlyOld
<1>1. Len(ops) \in Nat /\ Len(spans) \in Nat /\ x \in Nat
  BY DEF SpansHold, EndsAt
<1>2. i \in Nat /\ i \in 1 .. Len(ops) /\ x < i /\ i <= k
  BY <1>1
<1>3. ops[i].kind \in {"context", "del", "add"}
  <2>1. ops[i] \in Ops
    BY <1>2
  <2> QED BY <2>1 DEF Ops
<1>4. /\ i \in I <=> \/ ops[i].kind = "context"
                     \/ ops[i].kind = "del" /\ TurnedDown(spans, R, i)
                     \/ ops[i].kind = "add" /\ ~TurnedDown(spans, R, i)
  BY <1>2 DEF Staying
<1>5. ASSUME D!IsChange(ops[i]) PROVE TurnedDown(spans, R, i)
  <2>1. PICK m \in 1 .. Len(spans) : spans[m].from <= i /\ i <= spans[m].to
    BY <1>2, <1>5 DEF SpansHold
  <2>2. /\ spans[m].from \in Nat /\ spans[m].to \in Nat /\ D!Bottom(ops, spans[m]) \in Nat
        /\ spans[m].to <= D!Bottom(ops, spans[m])
    BY HunkIs
  <2>3. ~(n < m)
    BY <1>2, <2>1, <2>2
  <2>4. m \in 1 .. n
    BY <2>3
  <2>5. m \notin R => D!Bottom(ops, spans[m]) <= x
    BY <2>4 DEF EndsAt
  <2>6. m \in R
    BY <1>1, <1>2, <2>1, <2>2, <2>5
  <2>7. i \in spans[m].from .. spans[m].to
    BY <1>2, <2>1, <2>2
  <2> QED BY <2>6, <2>7 DEF TurnedDown
<1> QED BY <1>3, <1>4, <1>5 DEF D!IsChange

\* The next hunk is kept, or turned down.
EndAfter(ops, spans, R, n, x) == IF n \in R THEN x ELSE D!Bottom(ops, spans[n])

\* The end moves to the hunk that is kept, or stays.
LEMMA EndsGoOn ==
  ASSUME D!Bounds, NEW ops \in Seq(Ops), NEW spans, SpansHold(ops, spans, Len(ops)),
         NEW R, NEW n \in 1 .. Len(spans), NEW x, EndsAt(ops, spans, R, n - 1, x)
  PROVE  EndsAt(ops, spans, R, n, EndAfter(ops, spans, R, n, x))
<1>1. /\ Len(ops) \in Nat /\ Len(spans) \in Nat /\ D!Bottom(ops, spans[n]) \in Nat /\ D!Top(spans[n]) \in Nat
      /\ D!Bottom(ops, spans[n]) <= Len(ops) /\ D!Top(spans[n]) <= D!Bottom(ops, spans[n])
  <2>1. /\ Len(ops) \in Nat /\ Len(spans) \in Nat /\ D!Bottom(ops, spans[n]) \in Nat /\ D!Top(spans[n]) \in Nat
        /\ D!Bottom(ops, spans[n]) <= Len(ops) /\ D!Top(spans[n]) <= spans[n].from /\ spans[n].from <= spans[n].to
        /\ spans[n].to <= D!Bottom(ops, spans[n]) /\ spans[n].from \in Nat /\ spans[n].to \in Nat
    BY HunkIs
  <2> QED BY <2>1
<1>2. /\ x \in Nat /\ x <= Len(ops)
      /\ \A m \in 1 .. (n - 1) : m \notin R => D!Bottom(ops, spans[m]) <= x
      /\ \A m \in 1 .. Len(spans) : n - 1 < m => x < D!Top(spans[m])
  BY DEF EndsAt
<1>3. CASE n \in R
  <2>1. \A m \in 1 .. n : m \notin R => D!Bottom(ops, spans[m]) <= x
    <3>1. \A m \in 1 .. n : m \notin R => m \in 1 .. (n - 1)
      BY <1>3
    <3> QED BY <1>2, <3>1
  <2>2. \A m \in 1 .. Len(spans) : n < m => x < D!Top(spans[m])
    <3>1. \A m \in 1 .. Len(spans) : n < m => n - 1 < m
      BY <1>1
    <3> QED BY <1>2, <3>1
  <2> QED BY <1>2, <1>3, <2>1, <2>2 DEF EndsAt, EndAfter
<1>4. CASE n \notin R
  <2>1. ASSUME NEW m \in 1 .. n PROVE D!Bottom(ops, spans[m]) <= D!Bottom(ops, spans[n])
    <3>1. CASE m = n
      BY <1>1, <3>1
    <3>2. CASE m < n
      <4>1. m \in 1 .. Len(spans)
        BY <1>1
      <4>2. D!Bottom(ops, spans[m]) < D!Top(spans[n]) /\ D!Bottom(ops, spans[m]) \in Nat
        BY <3>2, <4>1, HunksApart, HunkIs
      <4> QED BY <1>1, <4>2
    <3> QED BY <3>1, <3>2
  <2>2. \A m \in 1 .. Len(spans) : n < m => D!Bottom(ops, spans[n]) < D!Top(spans[m])
    BY HunksApart
  <2> QED BY <1>1, <1>4, <2>1, <2>2 DEF EndsAt, EndAfter
<1> QED BY <1>3, <1>4

\* How far the hunks that are kept have been written.
Ending(ops, spans, R, e) ==
  /\ e[0] = 0
  /\ \A n \in 0 .. Len(spans) : EndsAt(ops, spans, R, n, e[n])
  /\ \A n \in 1 .. Len(spans) : e[n] = EndAfter(ops, spans, R, n, e[n - 1])

\* There are such ends.
LEMMA EndsAre ==
  ASSUME D!Bounds, NEW ops \in Seq(Ops), NEW spans, SpansHold(ops, spans, Len(ops)), NEW R
  PROVE  \E e : Ending(ops, spans, R, e)
<1> DEFINE M == Len(spans)
           T == Nat
           base == 0
           G == [q \in (1 .. M) \X Nat |-> EndAfter(ops, spans, R, q[1], q[2])]
<1>1. M \in Nat /\ Len(ops) \in Nat
  BY DEF SpansHold
<1>2. \A n \in 1 .. M : \A x \in Nat : EndAfter(ops, spans, R, n, x) \in Nat
  <2> SUFFICES ASSUME NEW n \in 1 .. M, NEW x \in Nat PROVE EndAfter(ops, spans, R, n, x) \in Nat
    OBVIOUS
  <2>1. D!Bottom(ops, spans[n]) \in Nat
    BY HunkIs
  <2> QED BY <2>1 DEF EndAfter
<1>3. base \in T /\ G \in [(1 .. M) \X T -> T]
  BY <1>2
<1>4. \E f \in [0 .. M -> T] : Follows(M, base, G, f)
  <2> HIDE DEF M, T, base, G
  <2> QED BY <1>1, <1>3, Stepped, Zenon
<1>5. PICK e \in [0 .. M -> Nat] : e[0] = 0 /\ \A n \in 1 .. M : e[n] = G[<<n, e[n - 1]>>]
  BY <1>4 DEF Follows
<1> HIDE DEF M
<1>6. ASSUME NEW n \in 1 .. M PROVE e[n] = EndAfter(ops, spans, R, n, e[n - 1])
  <2>1. n - 1 \in 0 .. M
    BY <1>1
  <2>2. e[n - 1] \in Nat
    BY <2>1
  <2> QED BY <1>5, <2>2
<1> DEFINE S == {n \in 0 .. M : EndsAt(ops, spans, R, n, e[n])}
<1>7. 0 \in S
  <2>1. ASSUME NEW m \in 1 .. M PROVE 0 < D!Top(spans[m])
    <3>1. D!Top(spans[m]) \in Nat /\ 1 <= D!Top(spans[m])
      BY HunkIs DEF M
    <3> QED BY <3>1
  <2>2. \A m \in 1 .. 0 : FALSE
    OBVIOUS
  <2>3. EndsAt(ops, spans, R, 0, 0)
    BY <1>1, <2>1, <2>2 DEF EndsAt, M
  <2> QED BY <1>1, <1>5, <2>3
<1>8. \A n \in 1 .. M : n - 1 \in S => n \in S
  <2> SUFFICES ASSUME NEW n \in 1 .. M, n - 1 \in S PROVE n \in S
    OBVIOUS
  <2>1. EndsAt(ops, spans, R, n - 1, e[n - 1])
    OBVIOUS
  <2>2. EndsAt(ops, spans, R, n, EndAfter(ops, spans, R, n, e[n - 1]))
    BY <2>1, EndsGoOn DEF M
  <2>3. n \in 0 .. M
    BY <1>1
  <2> QED BY <1>6, <2>2, <2>3
<1> HIDE DEF S
<1>9. \A n \in 0 .. M : n \in S
  BY <1>1, <1>7, <1>8, Upto, Zenon
<1>10. \A n \in 0 .. M : EndsAt(ops, spans, R, n, e[n])
  BY <1>9 DEF S
<1> QED BY <1>5, <1>6, <1>10 DEF Ending, M

\* The hunks R of drawn are the ones whose ids were turned down.
TurnsDown(drawn, turned, R) ==
  R \subseteq DOMAIN drawn /\ \A n \in DOMAIN drawn : drawn[n].id \in turned <=> n \in R

\* The text put together is what stays.
LEMMA AppliedIs ==
  ASSUME D!Bounds, NEW old \in Seq(TextLine), NEW new \in Seq(TextLine), NEW ops, ops = D!EditScript(old, new),
         NEW w, Walks(old, new, ops, <<1, 1>>, w), NEW I, NEW mix, Writes(ops, I, mix),
         NEW turned, NEW R, TurnsDown(D!DiffText(old, new), turned, R), Staying(ops, D!Spans(ops), R, I)
  PROVE  D!ApplyHunks(old, D!DiffText(old, new), turned) = mix[Len(ops)]
<1>0. /\ ops \in Seq(Ops)
      /\ DOMAIN D!DiffText(old, new) = 1 .. Len(D!Spans(ops)) /\ Len(D!Spans(ops)) \in Nat
      /\ Len(D!DiffText(old, new)) = Len(D!Spans(ops))
      /\ \A n \in 1 .. Len(D!Spans(ops)) : D!DiffText(old, new)[n].lines = D!Around(ops, D!Spans(ops)[n])
  <2>1. ASSUME NEW n \in 1 .. Len(D!Spans(ops))
        PROVE  D!DiffText(old, new)[n].lines = D!Around(ops, D!Spans(ops)[n])
    BY LinesAre
  <2>2. DOMAIN D!DiffText(old, new) = 1 .. Len(D!Spans(ops)) /\ Len(D!Spans(ops)) \in Nat
    BY HunksAre
  <2>3. ops \in Seq(Ops)
    BY HunksAre
  <2>4. Len(D!DiffText(old, new)) = Len(D!Spans(ops))
    BY HunksAre
  <2> QED BY <2>1, <2>2, <2>3, <2>4
<1> DEFINE drawn == D!DiffText(old, new)
           spans == D!Spans(ops)
           M == Len(spans)
<1>1. /\ ops \in Seq(Ops) /\ DOMAIN drawn = 1 .. M /\ M \in Nat /\ Len(drawn) = M
      /\ \A n \in 1 .. M : drawn[n].lines = D!Around(ops, spans[n])
  BY <1>0
<1>2. SpansHold(ops, spans, Len(ops))
  BY <1>1, SpansAreApart
<1>3. TurnsDown(drawn, turned, R) /\ Staying(ops, spans, R, I)
  OBVIOUS
<1>4. Len(ops) \in Nat /\ w[0] = <<1, 1>> /\ w[Len(ops)][1] = Len(old) + 1 /\ mix[0] = <<>> /\ Len(old) \in Nat
  BY <1>1 DEF Walks, Writes
<1>5. ops \in Seq(Ops) /\ Walks(old, new, ops, <<1, 1>>, w)
  BY <1>1
<1> DEFINE Rec(f) == f = [n \in 0 .. Len(drawn) |->
                            IF n = 0 THEN [out |-> <<>>, cursor |-> 0]
                            ELSE IF drawn[n].id \in turned THEN f[n - 1]
                            ELSE D!Whole(old, f[n - 1], drawn[n].lines)]
           upTo == CHOOSE f : Rec(f)
<1>6. D!ApplyHunks(old, drawn, turned) = D!Copied(old, upTo[M], Len(old)).out
  BY <1>1 DEF D!ApplyHunks
<1> HIDE DEF drawn, spans, M
<1>7. PICK e : Ending(ops, spans, R, e)
  BY <1>1, <1>2, EndsAre
<1> DEFINE put == [n \in 0 .. M |-> DoneAt(mix, w, e[n])]
<1>8. put[0] = [out |-> <<>>, cursor |-> 0]
  <2>1. e[0] = 0 /\ w[0][1] = 1 /\ 0 \in 0 .. M
    BY <1>1, <1>4, <1>7 DEF Ending
  <2>2. DoneAt(mix, w, 0) = [out |-> <<>>, cursor |-> 1 - 1]
    BY <1>4, <2>1 DEF DoneAt
  <2> QED BY <2>1, <2>2
<1>9. ASSUME NEW n \in 1 .. M
      PROVE  put[n] = IF drawn[n].id \in turned THEN put[n - 1] ELSE D!Whole(old, put[n - 1], drawn[n].lines)
  <2>1. n \in 0 .. M /\ n - 1 \in 0 .. M /\ n \in DOMAIN drawn /\ n \in 1 .. Len(spans) /\ n - 1 \in 0 .. Len(spans)
    BY <1>1 DEF M
  <2>2. put[n] = DoneAt(mix, w, e[n]) /\ put[n - 1] = DoneAt(mix, w, e[n - 1])
    BY <2>1
  <2>3. e[n] = EndAfter(ops, spans, R, n, e[n - 1]) /\ EndsAt(ops, spans, R, n - 1, e[n - 1])
    BY <1>7, <2>1 DEF Ending
  <2>4. drawn[n].id \in turned <=> n \in R
    BY <1>3, <2>1 DEF TurnsDown
  <2> HIDE DEF put
  <2>5. CASE n \in R
    BY <2>2, <2>3, <2>4, <2>5 DEF EndAfter
  <2>6. CASE n \notin R
    <3> DEFINE a == D!Top(spans[n])
               b == D!Bottom(ops, spans[n])
               x == e[n - 1]
               lines == drawn[n].lines
    <3>1. /\ a \in Nat /\ b \in Nat /\ 1 <= a /\ a <= b /\ b <= Len(ops) /\ SpanOf(ops, spans[n])
          /\ a <= spans[n].from /\ spans[n].from \in Nat
      <4>1. /\ a \in Nat /\ b \in Nat /\ 1 <= a /\ a <= spans[n].from /\ spans[n].from <= spans[n].to
            /\ spans[n].to <= b /\ b <= Len(ops) /\ SpanOf(ops, spans[n])
            /\ spans[n].from \in Nat /\ spans[n].to \in Nat
        BY <1>1, <1>2, <2>1, HunkIs
      <4> HIDE DEF a, b
      <4> QED BY <4>1
    <3>2. lines = D!Around(ops, spans[n])
      BY <1>1
    <3>3. /\ D!Around(ops, spans[n]) \in Seq(Ops) /\ Len(D!Around(ops, spans[n])) = b - a + 1
          /\ \A k \in 1 .. Len(D!Around(ops, spans[n])) : D!Around(ops, spans[n])[k] = ops[a + k - 1]
      BY <1>1, <3>1, AroundIs
    <3>4. x \in Nat /\ x < a
      <4>1. n - 1 < n
        BY <1>1
      <4> QED BY <2>1, <2>3, <4>1 DEF EndsAt
    <3>5. a = 1 \/ ~D!IsChange(ops[a])
      BY <1>1, <1>2, <2>1, TopIs
    <3>6. OnlyNew(ops, I, a, b)
      BY <1>1, <1>2, <1>3, <2>1, <2>6, KeptTakesNew
    <3>7. ASSUME NEW m \in 1 .. Len(spans), n - 1 < m PROVE a - 1 < spans[m].from
      <4>1. m = n \/ n < m
        BY <1>1, <3>7
      <4>2. CASE m = n
        <5> HIDE DEF a
        <5> QED BY <3>1, <4>2
      <4>3. CASE n < m
        <5>1. /\ b < spans[m].from /\ spans[m].from \in Nat
          BY <1>1, <1>2, <2>1, <4>3, HunksApart, HunkIs
        <5> HIDE DEF a, b
        <5> QED BY <3>1, <5>1
      <4> QED BY <4>1, <4>2, <4>3
    <3> HIDE DEF a, b, x, lines
    <3>8. LinesOf(ops, a, b, lines)
      BY <3>1, <3>2, <3>3 DEF LinesOf
    <3>9. OnlyOld(ops, I, x, a - 1)
      <4> DEFINE k == a - 1
                 j == n - 1
      <4>1. k \in Nat /\ k <= Len(ops) /\ j \in Nat
        BY <1>1, <1>4, <3>1
      <4>2. \A m \in 1 .. Len(spans) : j < m => k < spans[m].from
        BY <3>7 DEF a
      <4>3. EndsAt(ops, spans, R, j, x)
        BY <2>3 DEF x
      <4> HIDE DEF k, j
      <4>4. OnlyOld(ops, I, x, k)
        BY <1>1, <1>2, <1>3, <4>1, <4>2, <4>3, BetweenTakesOld
      <4> QED BY <4>4 DEF k
    <3>10. Reaches(ops, x, a)
      BY <3>1, <3>4, <3>5 DEF Reaches
    <3>11. D!Whole(old, DoneAt(mix, w, x), lines) = DoneAt(mix, w, b)
      BY <1>5, <3>1, <3>4, <3>6, <3>8, <3>9, <3>10, WholeIs
    <3>12. e[n] = b
      BY <2>3, <2>6 DEF EndAfter, b
    <3> QED BY <2>2, <2>4, <2>6, <3>11, <3>12 DEF x, lines
  <2> QED BY <2>5, <2>6
<1>10. Rec(put)
  <2>1. put = [n \in 0 .. M |-> put[n]]
    OBVIOUS
  <2> HIDE DEF put
  <2>2. ASSUME NEW n \in 0 .. M
        PROVE  put[n] = IF n = 0 THEN [out |-> <<>>, cursor |-> 0]
                      ELSE IF drawn[n].id \in turned THEN put[n - 1]
                      ELSE D!Whole(old, put[n - 1], drawn[n].lines)
    <3>1. n # 0 => n \in 1 .. M
      BY <1>1
    <3> QED BY <1>8, <1>9, <3>1
  <2> QED BY <1>1, <2>1, <2>2
<1>11. Rec(upTo)
  <2> HIDE DEF Rec, put
  <2> QED BY <1>10
<1>12. upTo[M] = put[M]
  <2> DEFINE u == upTo
  <2> HIDE DEF u, put
  <2>1. Rec(u)
    BY <1>11 DEF u
  <2>2. u[0] = [out |-> <<>>, cursor |-> 0]
    BY <1>1, <2>1
  <2>3. ASSUME NEW n \in 1 .. M
        PROVE  u[n] = IF drawn[n].id \in turned THEN u[n - 1] ELSE D!Whole(old, u[n - 1], drawn[n].lines)
    <3>1. n \in 0 .. M /\ n # 0
      BY <1>1
    <3> QED BY <1>1, <2>1, <3>1
  <2>4. \A n \in 1 .. M : u[n - 1] = put[n - 1] => u[n] = put[n]
    BY <1>9, <2>3
  <2>5. u[0] = put[0]
    BY <1>8, <2>2
  <2>6. u[M] = put[M]
    BY <1>1, <2>4, <2>5, SameSteps
  <2> QED BY <2>6 DEF u
<1> HIDE DEF upTo
<1>13. D!Copied(old, put[M], Len(old)) = DoneAt(mix, w, Len(ops))
  <2> DEFINE x == e[M]
             k == Len(ops)
  <2>1. EndsAt(ops, spans, R, M, x)
    BY <1>1, <1>7 DEF Ending, M
  <2>2. put[M] = DoneAt(mix, w, x)
    BY <1>1
  <2>3. \A m \in 1 .. Len(spans) : M < m => k < spans[m].from
    BY <1>1 DEF M
  <2>4. k \in Nat /\ k <= Len(ops)
    BY <1>4
  <2>5. x \in 0 .. Len(ops) /\ k \in x .. Len(ops)
    BY <1>4, <2>1 DEF EndsAt
  <2>6. w[k][1] - 1 = Len(old)
    BY <1>4
  <2> HIDE DEF x, put
  <2>7. OnlyOld(ops, I, x, k)
    <3> HIDE DEF k
    <3> QED BY <1>1, <1>2, <1>3, <2>1, <2>3, <2>4, BetweenTakesOld
  <2> HIDE DEF k
  <2>8. D!Copied(old, DoneAt(mix, w, x), w[k][1] - 1) = DoneAt(mix, w, k)
    BY <1>5, <2>5, <2>7, CopiedIs
  <2> QED BY <2>2, <2>6, <2>8 DEF k
<1>14. DoneAt(mix, w, Len(ops)).out = mix[Len(ops)]
  BY DEF DoneAt
<1> QED BY <1>6, <1>12, <1>13, <1>14 DEF drawn

-------------------------------------------------------------------------------
(* What the pane shows.                                                      *)

\* With some hunks turned down, the text is what stays of the two.
LEMMA MixedIs ==
  ASSUME D!Bounds, live \in Seq(TextLine), proposed \in Seq(TextLine), hunks = D!DiffText(live, proposed),
         TurnsDown(hunks, rejected, refused)
  PROVE  /\ D!ApplyHunks(live, hunks, rejected) = D!Mixed
         /\ refused = {} => D!Mixed = proposed
         /\ refused = DOMAIN hunks => D!Mixed = live
<1> DEFINE ops == D!EditScript(live, proposed)
           spans == D!Spans(ops)
           texts == [i \in DOMAIN ops |-> ops[i].text]
           I == {i \in DOMAIN ops : D!Stays(ops, i)}
<1>1. /\ ops \in Seq(Ops) /\ DOMAIN hunks = 1 .. Len(spans)
  BY HunksAre
<1>2. PICK w : Walks(live, proposed, ops, <<1, 1>>, w)
  BY ScriptWalks
<1>3. SpansHold(ops, spans, Len(ops))
  BY <1>1, SpansAreApart
<1>4. D!Mixed = D!Picked(texts, I)
  BY DEF D!Mixed
<1>5. ops = D!EditScript(live, proposed)
  OBVIOUS
<1> HIDE DEF ops
<1>6. DOMAIN ops = 1 .. Len(ops) /\ Len(ops) \in Nat /\ \A i \in 1 .. Len(ops) : ops[i] \in Ops
  BY <1>1
<1>7. texts \in Seq(TextLine) /\ Len(texts) = Len(ops) /\ \A i \in 1 .. Len(ops) : texts[i] = ops[i].text
  <2>1. \A i \in 1 .. Len(ops) : ops[i].text \in TextLine
    BY <1>6 DEF Ops
  <2> QED BY <1>6, <2>1
<1>8. Staying(ops, spans, refused, I)
  <2>1. refused \subseteq 1 .. Len(spans)
    BY <1>1 DEF TurnsDown
  <2>2. ASSUME NEW i \in 1 .. Len(ops)
        PROVE  i \in I <=> \/ ops[i].kind = "context"
                           \/ ops[i].kind = "del" /\ TurnedDown(spans, refused, i)
                           \/ ops[i].kind = "add" /\ ~TurnedDown(spans, refused, i)
    BY <1>6 DEF D!Stays, D!Refused, TurnedDown
  <2> QED BY <2>1, <2>2 DEF Staying
<1> HIDE DEF texts, I, spans
<1>9. PICK mix \in [0 .. Len(texts) -> Seq(TextLine)] : Growing(texts, I, mix) /\ D!Picked(texts, I) = mix[Len(texts)]
  <2>1. texts \in Seq(TextLine)
    BY <1>7
  <2> QED BY <2>1, PickedIs, Zenon
<1>10. Writes(ops, I, mix) /\ D!Mixed = mix[Len(ops)]
  <2>1. mix \in [0 .. Len(ops) -> Seq(TextLine)] /\ mix[0] = <<>>
    BY <1>7, <1>9 DEF Growing
  <2>2. \A k \in 1 .. Len(ops) : mix[k] = IF k \in I THEN Append(mix[k - 1], ops[k].text) ELSE mix[k - 1]
    BY <1>7, <1>9 DEF Growing
  <2> QED BY <1>4, <1>7, <1>9, <2>1, <2>2 DEF Writes
<1>11. D!ApplyHunks(live, hunks, rejected) = D!Mixed
  <2>1. TurnsDown(D!DiffText(live, proposed), rejected, refused)
    OBVIOUS
  <2>2. Staying(ops, D!Spans(ops), refused, I)
    BY <1>8 DEF spans
  <2>3. D!ApplyHunks(live, D!DiffText(live, proposed), rejected) = mix[Len(ops)]
    BY <1>2, <1>5, <1>10, <2>1, <2>2, AppliedIs
  <2> QED BY <1>10, <2>3
<1>12. \A i \in 1 .. Len(ops) : ops[i].kind \in {"context", "del", "add"}
  BY <1>6 DEF Ops
<1>13. ASSUME refused = {} PROVE D!Mixed = proposed
  <2>1. \A i \in 1 .. Len(ops) : ~TurnedDown(spans, refused, i)
    BY <1>13 DEF TurnedDown
  <2>2. \A i \in 1 .. Len(ops) : i \in I <=> ops[i].kind # "del"
    BY <1>8, <1>12, <2>1 DEF Staying
  <2>3. mix[Len(ops)] = proposed
    BY <1>2, <1>10, <2>2, NewCopied
  <2> QED BY <1>10, <2>3
<1>14. ASSUME refused = DOMAIN hunks PROVE D!Mixed = live
  <2>1. ASSUME NEW i \in 1 .. Len(ops), D!IsChange(ops[i]) PROVE TurnedDown(spans, refused, i)
    <3>1. PICK n \in 1 .. Len(spans) : spans[n].from <= i /\ i <= spans[n].to
      BY <1>3, <2>1 DEF SpansHold
    <3>2. spans[n].from \in Nat /\ spans[n].to \in Nat
      BY <1>1, <1>3, HunkIs
    <3>3. i \in spans[n].from .. spans[n].to
      BY <3>1, <3>2
    <3> QED BY <1>1, <1>14, <3>3 DEF TurnedDown
  <2>2. \A i \in 1 .. Len(ops) : i \in I <=> ops[i].kind # "add"
    BY <1>8, <1>12, <2>1 DEF Staying, D!IsChange
  <2> DEFINE j == 0
             k == Len(ops)
  <2>3. j \in 0 .. Len(ops) /\ k \in j .. Len(ops) /\ OnlyOld(ops, I, j, k)
    BY <1>6, <2>2 DEF OnlyOld
  <2>4. w[j] = <<1, 1>> /\ w[k] = <<Len(live) + 1, Len(proposed) + 1>> /\ mix[j] = <<>> /\ Len(live) \in Nat
    BY <1>2, <1>10 DEF Walks, Writes
  <2> HIDE DEF j, k
  <2>5. /\ mix[k] = mix[j] \o SubSeq(live, w[j][1], w[k][1] - 1)
        /\ w[j][1] <= w[k][1]
    BY <1>2, <1>10, <2>3, OldCopied
  <2>6. w[j][1] = 1 /\ w[k][1] - 1 = Len(live)
    BY <2>4
  <2>7. mix[k] = <<>> \o SubSeq(live, 1, Len(live))
    BY <2>4, <2>5, <2>6
  <2>8. <<>> \o SubSeq(live, 1, Len(live)) = live
    OBVIOUS
  <2> QED BY <1>10, <2>7, <2>8 DEF k
<1> QED BY <1>11, <1>13, <1>14

\* One more list has something of its own in front of the other.
InFront(N, said, more) == \A n \in 1 .. N : more[n + 1] = said[n] /\ more[1] # said[n]

\* What comes after it is numbered as it was.
LEMMA NumbersKept ==
  ASSUME NEW N \in Nat, NEW said, NEW more, InFront(N, said, more), NEW n \in 1 .. N
  PROVE  D!Nth(more, n + 1) = D!Nth(said, n)
<1>0. \A k \in 1 .. N : more[k + 1] = said[k] /\ more[1] # said[k]
  BY DEF InFront
<1> DEFINE A == {k \in 1 .. (n - 1) : said[k] = said[n]}
           B == {k \in 1 .. ((n + 1) - 1) : more[k] = more[n + 1]}
           f == [k \in A |-> k + 1]
<1>1. /\ n \in Nat /\ 1 <= n /\ n <= N /\ (n + 1) - 1 = n /\ more[n + 1] = said[n]
      /\ \A k \in 1 .. (n - 1) : k \in 1 .. N /\ k + 1 \in 1 .. n
  BY <1>0
<1>2. ASSUME NEW k \in A PROVE k + 1 \in B
  <2>1. k \in 1 .. (n - 1) /\ said[k] = said[n] /\ more[k + 1] = said[k]
    BY <1>0, <1>1
  <2> QED BY <1>1, <2>1
<1>3. ASSUME NEW j \in B PROVE j - 1 \in A /\ (j - 1) + 1 = j
  <2>1. j \in 1 .. n /\ more[j] = said[n]
    BY <1>1
  <2>2. j # 1
    BY <1>0, <1>1, <2>1
  <2>3. j - 1 \in 1 .. (n - 1) /\ (j - 1) + 1 = j
    BY <1>1, <2>1, <2>2
  <2>4. j - 1 \in 1 .. N
    BY <1>1, <2>3
  <2>5. more[(j - 1) + 1] = said[j - 1]
    BY <1>0, <2>4
  <2> QED BY <2>1, <2>3, <2>5
<1>4. \A k \in A : k \in Int
  BY <1>1
<1>5. IsFiniteSet(A)
  <2>1. IsFiniteSet(1 .. (n - 1))
    BY <1>1, FS_Interval
  <2>2. A \subseteq 1 .. (n - 1)
    OBVIOUS
  <2> HIDE DEF A
  <2> QED BY <2>1, <2>2, FS_Subset
<1>6. D!Nth(more, n + 1) = Cardinality(B) /\ D!Nth(said, n) = Cardinality(A)
  BY DEF D!Nth, D!Cardinality, Cardinality
<1> HIDE DEF A, B
<1>7. f \in Bijection(A, B)
  BY <1>2, <1>3, <1>4 DEF Bijection, Injection, Surjection, IsInjective
<1>8. Cardinality(B) = Cardinality(A)
  BY <1>5, <1>7, FS_Bijection DEF ExistsBijection
<1> QED BY <1>6, <1>8

\* The ids below a line that is a hunk of its own are what they were.
LEMMA IdsUnder ==
  ASSUME D!Bounds, NEW old \in Seq(TextLine), NEW new \in Seq(TextLine), NEW line \in TextLine,
         hunks = D!DiffText(old, new), D!Apart(D!DiffText(<<line>> \o old, new))
  PROVE  LET b == D!DiffText(<<line>> \o old, new)
         IN  /\ DOMAIN b = 1 .. (Len(hunks) + 1) /\ DOMAIN hunks = 1 .. Len(hunks) /\ Len(hunks) \in Nat
             /\ \A n \in DOMAIN hunks : b[n + 1].id = hunks[n].id /\ b[1].id # hunks[n].id
<1> DEFINE old2 == <<line>> \o old
           ops == D!EditScript(old, new)
           ops2 == D!EditScript(old2, new)
           b == D!DiffText(old2, new)
           said == SaidIn(ops)
           more == SaidIn(ops2)
           N == Len(hunks)
<1>1. old2 \in Seq(TextLine)
  BY LineAbove
<1>2. /\ DOMAIN hunks = 1 .. N /\ N \in Nat
      /\ \A n \in 1 .. N : hunks[n].id = [changes |-> said[n], nth |-> D!Nth(said, n)]
  BY HunksAre DEF Drawn
<1> HIDE DEF old2
<1>3. /\ DOMAIN b = 1 .. Len(b)
      /\ \A n \in 1 .. Len(b) : b[n].id = [changes |-> more[n], nth |-> D!Nth(more, n)]
  <2>1. /\ DOMAIN b = 1 .. Len(D!Spans(ops2)) /\ Len(b) = Len(D!Spans(ops2)) /\ Drawn(old2, new, ops2)
    BY <1>1, HunksAre
  <2> HIDE DEF b, ops2
  <2> QED BY <2>1 DEF Drawn, b
<1>4. /\ Len(b) = N + 1
      /\ \A n \in DOMAIN hunks :
           b[n + 1].id.changes = hunks[n].id.changes /\ b[1].id.changes # hunks[n].id.changes
  BY DEF D!Apart, old2
<1> HIDE DEF ops, ops2, b, said, more, N
<1>5. ASSUME NEW n \in 1 .. N PROVE more[n + 1] = said[n] /\ more[1] # said[n]
  <2>1. n + 1 \in 1 .. Len(b) /\ 1 \in 1 .. Len(b)
    BY <1>2, <1>4
  <2>2. hunks[n].id.changes = said[n] /\ b[n + 1].id.changes = more[n + 1] /\ b[1].id.changes = more[1]
    <3> DEFINE one(s, k) == [changes |-> s[k], nth |-> D!Nth(s, k)]
    <3>1. \A s, k : one(s, k).changes = s[k]
      OBVIOUS
    <3>2. hunks[n].id = one(said, n) /\ b[n + 1].id = one(more, n + 1) /\ b[1].id = one(more, 1)
      BY <1>2, <1>3, <2>1
    <3> HIDE DEF one
    <3> QED BY <3>1, <3>2
  <2> QED BY <1>2, <1>4, <2>2
<1>6. ASSUME NEW n \in 1 .. N PROVE b[n + 1].id = hunks[n].id /\ b[1].id # hunks[n].id
  <2>1. n + 1 \in 1 .. Len(b)
    BY <1>2, <1>4
  <2>2. D!Nth(more, n + 1) = D!Nth(said, n)
    <3>1. InFront(N, said, more)
      BY <1>5 DEF InFront
    <3> QED BY <1>2, <3>1, NumbersKept
  <2>3. b[n + 1].id = hunks[n].id
    BY <1>2, <1>3, <1>5, <2>1, <2>2
  <2>4. b[1].id # hunks[n].id
    BY <1>2, <1>4
  <2> QED BY <2>3, <2>4
<1> QED BY <1>2, <1>3, <1>4, <1>6 DEF b, old2, N

\* The hunks are of these texts, and those turned down are told by their ids.
DiffInv ==
  /\ live \in Seq(TextLine) /\ proposed \in Seq(TextLine) /\ shifted \in BOOLEAN
  /\ live # <<"">> /\ proposed # <<"">>
  /\ hunks = D!DiffText(live, proposed)
  /\ TurnsDown(hunks, rejected, refused)
  /\ ~shifted => rejected = {hunks[n].id : n \in refused}

\* The pane shows what will be sent.
LEMMA DiffMeans ==
  ASSUME D!Bounds, DiffInv
  PROVE  D!TypeOK /\ D!SentAsShown
<1>1. D!TypeOK
  BY DEF DiffInv, D!TypeOK, TurnsDown
<1>2. /\ D!ApplyHunks(live, hunks, rejected) = D!Mixed
      /\ refused = {} => D!Mixed = proposed
      /\ refused = DOMAIN hunks => D!Mixed = live
  BY MixedIs DEF DiffInv
<1>3. D!Body = D!Joined(D!Mixed)
  BY <1>2 DEF D!Body
<1>4. D!Joined(live) = live /\ D!Joined(proposed) = proposed
  BY DEF D!Joined, DiffInv
<1> QED BY <1>1, <1>2, <1>3, <1>4 DEF D!SentAsShown

\* It does from the start.
LEMMA DiffInit ==
  ASSUME D!Bounds, D!Init
  PROVE  DiffInv
<1>1. ASSUME NEW t \in D!Texts PROVE t \in Seq(TextLine) /\ t # <<"">>
  <2>1. t \in UNION {[1 .. n -> TextLine] : n \in 0 .. MaxLines} /\ t # <<"">>
    BY <1>1 DEF D!Texts
  <2>2. PICK n \in 0 .. MaxLines : t \in [1 .. n -> TextLine]
    BY <2>1
  <2>3. n \in Nat
    BY DEF D!Bounds
  <2>4. t \in Seq(TextLine)
    BY <2>2, <2>3
  <2> QED BY <2>1, <2>4
<1> QED BY <1>1 DEF D!Init, DiffInv, TurnsDown

\* It does when a hunk is turned down or kept, and when a line comes in above both
\* texts or above the live one.
LEMMA DiffStep ==
  ASSUME D!Bounds, DiffInv, D!Next
  PROVE  DiffInv'
<1>1. /\ live \in Seq(TextLine) /\ proposed \in Seq(TextLine) /\ hunks = D!DiffText(live, proposed)
      /\ live # <<"">> /\ proposed # <<"">> /\ shifted \in BOOLEAN
      /\ refused \subseteq DOMAIN hunks /\ \A n \in DOMAIN hunks : hunks[n].id \in rejected <=> n \in refused
      /\ ~shifted => rejected = {hunks[n].id : n \in refused}
  BY DEF DiffInv, TurnsDown
<1>2. \A n, m \in DOMAIN hunks : hunks[n].id = hunks[m].id => n = m
  BY <1>1, IdsApart
<1>3. ASSUME NEW n \in DOMAIN hunks, D!Reject(n) PROVE DiffInv'
  <2>1. /\ rejected' = rejected \cup {hunks[n].id} /\ refused' = refused \cup {n}
        /\ UNCHANGED <<live, proposed, hunks, shifted>>
    BY <1>3 DEF D!Reject
  <2>2. TurnsDown(hunks, rejected', refused')
    BY <1>1, <1>2, <2>1 DEF TurnsDown
  <2>3. ~shifted => rejected' = {hunks[m].id : m \in refused'}
    BY <1>1, <2>1
  <2> QED BY <1>1, <2>1, <2>2, <2>3 DEF DiffInv
<1>4. ASSUME NEW n \in DOMAIN hunks, D!Keep(n) PROVE DiffInv'
  <2>1. /\ rejected' = rejected \ {hunks[n].id} /\ refused' = refused \ {n}
        /\ UNCHANGED <<live, proposed, hunks, shifted>>
    BY <1>4 DEF D!Keep
  <2>2. TurnsDown(hunks, rejected', refused')
    BY <1>1, <1>2, <2>1 DEF TurnsDown
  <2>3. ~shifted => rejected' = {hunks[m].id : m \in refused'}
    <3> SUFFICES ASSUME ~shifted PROVE rejected' = {hunks[m].id : m \in refused'}
      OBVIOUS
    <3>1. rejected = {hunks[m].id : m \in refused} /\ \A m \in refused : hunks[m].id = hunks[n].id => m = n
      BY <1>1, <1>2
    <3>2. rejected' = rejected \ {hunks[n].id} /\ refused' = refused \ {n}
      BY <2>1
    <3> QED BY <3>1, <3>2
  <2> QED BY <1>1, <2>1, <2>2, <2>3 DEF DiffInv
<1>5. ASSUME NEW text \in Seq(TextLine), NEW line \in TextLine, text # <<>>
      PROVE  <<line>> \o text \in Seq(TextLine) /\ <<line>> \o text # <<"">>
  <2> DEFINE more == <<line>> \o text
  <2>1. more \in Seq(TextLine) /\ Len(more) > 1
    BY <1>5
  <2>2. 2 \in DOMAIN more /\ 2 \notin DOMAIN <<"">>
    BY <2>1
  <2> HIDE DEF more
  <2>3. more # <<"">>
    BY <2>2
  <2> QED BY <2>1, <2>3 DEF more
<1>6. CASE D!Shift
  <2>1. PICK line \in TextLine :
          /\ ~shifted /\ live # <<>> /\ proposed # <<>> /\ shifted' = TRUE
          /\ live' = <<line>> \o live /\ proposed' = <<line>> \o proposed
          /\ hunks' = D!DiffText(live', proposed')
          /\ UNCHANGED <<rejected, refused>>
    BY <1>6 DEF D!Shift
  <2>2. /\ live' \in Seq(TextLine) /\ proposed' \in Seq(TextLine)
        /\ live' # <<"">> /\ proposed' # <<"">>
    BY <1>1, <1>5, <2>1
  <2>3. DOMAIN hunks' = DOMAIN hunks /\ \A n \in DOMAIN hunks : hunks'[n].id = hunks[n].id
    <3> DEFINE a == D!DiffText(live, proposed)
               b == D!DiffText(<<line>> \o live, <<line>> \o proposed)
    <3>1. DOMAIN b = DOMAIN a /\ \A n \in DOMAIN a : b[n].id = a[n].id
      BY <1>1, IdsBelow
    <3>2. hunks' = b /\ hunks = a
      BY <1>1, <2>1
    <3> HIDE DEF a, b
    <3> QED BY <3>1, <3>2
  <2>4. TurnsDown(hunks', rejected', refused')
    BY <1>1, <2>1, <2>3 DEF TurnsDown
  <2> QED BY <2>1, <2>2, <2>4 DEF DiffInv
<1>7. CASE D!Drift
  <2>1. PICK line \in TextLine :
          /\ ~shifted /\ live # <<>> /\ shifted' = TRUE
          /\ live' = <<line>> \o live /\ UNCHANGED <<proposed, rejected>>
          /\ hunks' = D!DiffText(live', proposed)
          /\ refused' = IF D!Apart(hunks') THEN {n + 1 : n \in refused}
                        ELSE {n \in DOMAIN hunks' : hunks'[n].id \in rejected}
    BY <1>7 DEF D!Drift
  <2>2. live' \in Seq(TextLine) /\ live' # <<"">>
    BY <1>1, <1>5, <2>1
  <2>3. TurnsDown(hunks', rejected', refused')
    <3>1. CASE D!Apart(hunks')
      <4> DEFINE b == D!DiffText(<<line>> \o live, proposed)
                 N == Len(hunks)
      <4>1. hunks' = b /\ D!Apart(b)
        BY <2>1, <3>1
      <4>2. /\ DOMAIN b = 1 .. (N + 1) /\ DOMAIN hunks = 1 .. N /\ N \in Nat
            /\ \A n \in DOMAIN hunks : b[n + 1].id = hunks[n].id /\ b[1].id # hunks[n].id
        BY <1>1, <4>1, IdsUnder
      <4> HIDE DEF b, N
      <4>3. refused' = {n + 1 : n \in refused} /\ refused \subseteq 1 .. N /\ rejected' = rejected
        BY <1>1, <2>1, <3>1, <4>2
      <4>4. refused' \subseteq DOMAIN b
        BY <4>2, <4>3
      <4>5. ASSUME NEW m \in 1 .. (N + 1) PROVE b[m].id \in rejected <=> m \in refused'
        <5>1. CASE m = 1
          <6>1. 1 \notin refused'
            BY <4>2, <4>3
          <6>2. b[1].id \notin rejected
            <7>1. rejected = {hunks[n].id : n \in refused} /\ \A n \in refused : n \in DOMAIN hunks
              BY <1>1, <2>1
            <7>2. \A n \in DOMAIN hunks : b[1].id # hunks[n].id
              BY <4>2
            <7> QED BY <7>1, <7>2
          <6> QED BY <5>1, <6>1, <6>2
        <5>2. CASE m # 1
          <6> DEFINE n == m - 1
          <6>1. n \in 1 .. N /\ n + 1 = m
            BY <4>2, <5>2
          <6>2. m \in refused' <=> n \in refused
            <7>1. \A k \in refused : k \in 1 .. N
              BY <4>3
            <7> QED BY <4>2, <4>3, <6>1, <7>1
          <6> HIDE DEF n
          <6>3. b[m].id = hunks[n].id /\ n \in DOMAIN hunks
            BY <4>2, <6>1
          <6> QED BY <1>1, <6>2, <6>3
        <5> QED BY <5>1, <5>2
      <4> QED BY <4>1, <4>2, <4>3, <4>4, <4>5 DEF TurnsDown
    <3>2. CASE ~D!Apart(hunks')
      BY <2>1, <3>2 DEF TurnsDown
    <3> QED BY <3>1, <3>2
  <2> QED BY <1>1, <2>1, <2>2, <2>3 DEF DiffInv
<1> QED BY <1>3, <1>4, <1>6, <1>7 DEF D!Next

\* And it does while nothing happens.
LEMMA DiffStutter == ASSUME DiffInv, UNCHANGED D!vars PROVE DiffInv'
BY DEF DiffInv, D!vars

\* The changes of the hunks the reader kept are made and no others, the proposal
\* with all of them and the live text with none, also after a line was put above
\* both, or above the live one alone as a change of its own, for any texts, lines
\* and context (text-diff.js applyHunks, diffText).
THEOREM RewriteIsAsShown == ASSUME D!Bounds PROVE D!Spec => [](D!TypeOK /\ D!SentAsShown)
<1>1. DiffInv /\ [D!Next]_D!vars => DiffInv'
  BY DiffStep, DiffStutter
<1>2. D!Init => DiffInv
  BY DiffInit
<1>3. D!Spec => []DiffInv
  BY <1>1, <1>2, PTL DEF D!Spec
<1>4. DiffInv => D!TypeOK /\ D!SentAsShown
  BY DiffMeans
<1> QED BY <1>3, <1>4, PTL
===============================================================================
