--------------------------- MODULE WorkspaceProofs ---------------------------
(***************************************************************************)
(* Theorems about Workspace for every table of screens, queries, commands  *)
(* and families that satisfies its assumptions, and a record that changes  *)
(* any number of times.                                                    *)
(***************************************************************************)
EXTENDS Workspace, SequenceTheorems, TLAPS

Change(f) == [situation : SituationsOf(f), shown : BOOLEAN, told : BOOLEAN]
Entry == [has : BOOLEAN, held : Nat, marked : BOOLEAN, busy : BOOLEAN, asked : Nat]
Response == [outcome : {"made", "kept", "refused"}, at : Nat]
Commands == DOMAIN Server \cup {""}
Command == [command : Commands, view : Nat, left : 0..2, made : SUBSET Nat,
            results : Seq(Response)]

\* The record is one of the family, and goes through the family's situations.
RecordTyped ==
    /\ screen \in ScreenNames /\ watched \in QueryNames
    /\ first \in SituationsOf(Family)
    /\ log \in Seq(Change(Family))
    /\ Now <= MaxChanges

\* The browser holds and asks for answers to prefixes of the log.
CacheTyped ==
    /\ answer \in Entry /\ answer.held <= Now /\ answer.asked <= Now
    /\ live \in BOOLEAN
    /\ wire \subseteq 1..Now /\ lost \subseteq 1..Now /\ swallowed \subseteq 1..Now

PressTyped ==
    /\ press \in Command
    /\ press.view <= Now
    /\ press.made \subseteq (press.view + 1)..Now
    /\ press.left + Len(press.results) <= 2
    /\ \A k \in DOMAIN press.results : press.results[k].at <= Now

\* The command pressed is one the screen offers, for what it showed.
PressIsOffered ==
    \/ press = NoPress
    \/ /\ press.command \in DOMAIN Screens[screen].offers
       /\ Pressed.on # "" => Situation(press.view) \in Pressed.offered
       /\ Pressed.once => /\ press.left + Len(press.results) <= 1
                          /\ press.left = 1 => press.made = {}

\* A change that an answer may miss for a known reason.
Excused(i) == ~log[i].shown \/ ~log[i].told \/ i \in wire \cup lost \cup swallowed
Covered(n) == \A i \in (n + 1)..Now : Excused(i)

\* What the cache holds on display, or will hold once its fetch is answered,
\* misses excused changes only; so does what it kept unmarked of a closed page.
Fed ==
    /\ answer.busy => Covered(answer.asked)
    /\ answer.has /\ ~answer.busy /\ (Mounted(screen) \/ ~answer.marked) => Covered(answer.held)
    /\ Mounted(screen) => answer.has \/ answer.busy

\* What a response says is true of the log, and of what the user looked at.
IsTrue(c, view, response) ==
    /\ response.outcome = "made" =>
          response.at > 0 /\ (log[response.at].shown <=> Shown(Server[c].changes))
    /\ response.outcome = "refused" =>
          response.at > view \/ <<c, Situation(view)>> \in Disagreements
ResponsesAreTrue ==
    \A k \in DOMAIN press.results : IsTrue(press.command, press.view, press.results[k])

\* A command that can be pressed again, and is not listed, is spent once made.
SpentOf(f, c) == CHOOSE spent \in SUBSET SituationsOf(f) : Spent(f, c, spent)
MayRepeat(c) == Pressed.once \/ Server[c].ends \/ c \in Repeatable
CommandIsSpent ==
    LET c == press.command IN
    press.made # {} /\ ~MayRepeat(c) /\ (c \in Reopened => Now \in press.made) =>
        Situation(Now) \in SpentOf(Family, c)

Typed == RecordTyped /\ CacheTyped /\ PressTyped
IInv == Typed /\ Fed /\ PressIsOffered /\ ResponsesAreTrue /\ CommandIsSpent /\ TakesEffectOnce

-------------------------------------------------------------------------------
(* The cache entry.                                                           *)
LEMMA FetchingFacts ==
    ASSUME NEW e \in Entry, Now \in Nat
    PROVE  /\ Fetching(e) \in Entry
           /\ Fetching(e).busy
           /\ Fetching(e).asked = Now
           /\ Fetching(e).held = e.held
           /\ Fetching(e).has <=> e.has
           /\ Fetching(e).marked <=> e.marked
  BY DEF Fetching, Entry

LEMMA MountFacts ==
    ASSUME NEW e \in Entry, Now \in Nat, NEW old \in BOOLEAN
    PROVE  /\ Mount(e, old) \in Entry
           /\ Mount(e, old).held = e.held
           /\ Mount(e, old).has <=> e.has
           /\ Mount(e, old).marked <=> e.marked
           /\ \/ Mount(e, old) = e /\ (e.busy \/ (e.has /\ ~e.marked))
              \/ Mount(e, old).busy /\ Mount(e, old).asked = Now
  BY FetchingFacts DEF Mount

LEMMA InvalidateFacts ==
    ASSUME NEW e \in Entry, Now \in Nat
    PROVE  /\ Invalidate(e) \in Entry
           /\ Invalidate(e).held = e.held
           /\ Invalidate(e).has <=> e.has
           /\ Invalidate(e).marked <=> e.has
           /\ IF Mounted(screen) /\ e.has
              THEN Invalidate(e).busy /\ Invalidate(e).asked = Now
              ELSE (Invalidate(e).busy <=> e.busy) /\ Invalidate(e).asked = e.asked
<1>1. CASE Mounted(screen) /\ e.has
  <2> DEFINE m == [e EXCEPT !.marked = TRUE]
  <2>1. /\ m \in Entry
        /\ m.held = e.held
        /\ m.has <=> e.has
        /\ m.marked
    BY DEF Entry
  <2>2. Invalidate(e) = Fetching(m)
    BY <1>1 DEF Invalidate
  <2> HIDE DEF m
  <2> QED
    BY <1>1, <2>1, <2>2, FetchingFacts
<1>2. CASE ~(Mounted(screen) /\ e.has)
  <2>1. Invalidate(e) = [e EXCEPT !.marked = e.has]
    BY <1>2 DEF Invalidate
  <2> QED
    BY <1>2, <2>1 DEF Entry
<1> QED
  BY <1>1, <1>2

LEMMA WrittenFacts ==
    ASSUME NEW e \in Entry, NEW n \in Nat
    PROVE  /\ Written(e, n) \in Entry
           /\ Written(e, n).busy <=> e.busy
           /\ Written(e, n).asked = e.asked
           /\ watched \notin Pressed.writes => Written(e, n) = e
           /\ watched \in Pressed.writes =>
                Written(e, n).has /\ ~Written(e, n).marked /\ Written(e, n).held = n
<1>1. CASE watched \in Pressed.writes
  <2>1. Written(e, n) = [e EXCEPT !.has = TRUE, !.held = n, !.marked = FALSE]
    BY <1>1 DEF Written
  <2> QED
    BY <1>1, <2>1 DEF Entry
<1>2. CASE watched \notin Pressed.writes
  BY <1>2 DEF Written
<1> QED
  BY <1>1, <1>2

-------------------------------------------------------------------------------
(* The record and its log.                                                    *)

\* A change of the record by the user's command or by somebody else.
Advances(to, changes, announces) ==
    /\ to \in SituationsOf(Family)
    /\ Commit(to, changes, announces)
    /\ UNCHANGED <<screen, watched, first, answer, live, swallowed>>

LEMMA CommitFacts ==
    ASSUME RecordTyped, NEW to, NEW changes, NEW announces, Advances(to, changes, announces)
    PROVE  /\ log' \in Seq(Change(Family))
           /\ Now \in Nat /\ Now' = Now + 1 /\ Now' <= MaxChanges
           /\ \A i \in 1..Now : log'[i] = log[i]
           /\ log'[Now + 1].situation = to
           /\ log'[Now + 1].shown <=> Shown(changes)
           /\ wire \subseteq wire' /\ lost \subseteq lost'
           /\ wire' \subseteq wire \cup {Now + 1} /\ lost' \subseteq lost \cup {Now + 1}
           /\ log'[Now + 1].told => Now + 1 \in wire' \cup lost'
<1> DEFINE row == [situation |-> to, shown |-> Shown(changes), told |-> Told(announces)]
<1>1. row \in Change(Family)
  BY DEF Advances, Change, Shown, Told
<1>2. Now < MaxChanges /\ log' = Append(log, row)
  BY DEF Advances, Commit
<1>3. /\ log' \in Seq(Change(Family))
      /\ Len(log') = Len(log) + 1
      /\ \A i \in 1..Len(log) : log'[i] = log[i]
      /\ log'[Len(log) + 1] = row
  BY <1>1, <1>2, AppendProperties DEF RecordTyped
<1>4. Now \in Nat /\ MaxChanges \in Nat
  BY BoundAssumption, LenProperties DEF RecordTyped, Now
<1>5. Now' = Now + 1
  BY <1>3 DEF Now
<1>6. row.situation = to /\ (row.shown <=> Shown(changes)) /\ (row.told <=> Told(announces))
  OBVIOUS
<1>7. /\ wire \subseteq wire' /\ lost \subseteq lost'
      /\ wire' \subseteq wire \cup {Now + 1} /\ lost' \subseteq lost \cup {Now + 1}
      /\ Told(announces) => Now + 1 \in wire' \cup lost'
  BY DEF Advances, Commit
<1> HIDE DEF row
<1> QED
  BY <1>2, <1>3, <1>4, <1>5, <1>6, <1>7 DEF Now

LEMMA LogFacts ==
    ASSUME RecordTyped
    PROVE  /\ Now \in Nat
           /\ \A i \in 1..Now : log[i] \in Change(Family)
           /\ \A n \in 0..Now : Situation(n) \in SituationsOf(Family)
<1>1. Now \in Nat
  BY LenProperties DEF RecordTyped, Now
<1>2. \A i \in 1..Now : log[i] \in Change(Family)
  BY ElementOfSeq DEF RecordTyped, Now
<1>3. ASSUME NEW n \in 0..Now PROVE Situation(n) \in SituationsOf(Family)
  <2>1. CASE n = 0
    BY <2>1 DEF Situation, RecordTyped
  <2>2. CASE n # 0
    <3>1. n \in 1..Now
      BY <1>1, <2>2
    <3> QED
      BY <1>2, <2>2, <3>1 DEF Situation, Change
  <2> QED
    BY <2>1, <2>2
<1> QED
  BY <1>1, <1>2, <1>3

\* What a command or somebody else leads to is a situation of the family.
LEMMA EffectsAreSituations ==
    ASSUME RecordTyped, NEW c \in DOMAIN Screens[screen].offers,
           NEW x \in SituationsOf(Family), NEW to \in Effects(c, x)
    PROVE  to \in SituationsOf(Family)
<1>1. c \in CommandsOf(Family)
  BY DEF CommandsOf, ScreensOf, Family, RecordTyped, ScreenNames
<1>2. CASE Server[c].anywhere
  BY <1>2 DEF Effects, Leaves
<1>3. CASE ~Server[c].anywhere
  <2>1. x \in DOMAIN Server[c].moves /\ to \in Server[c].moves[x] /\ to # "refused"
    BY <1>3 DEF Effects, Leaves
  <2>2. to \in Around(Server[c].moves)
    BY <2>1 DEF Around
  <2>3. to \in UNION {Around(Server[d].moves) : d \in CommandsOf(Family)}
    BY <1>1, <2>2
  <2> QED
    BY <2>1, <2>3 DEF SituationsOf
<1> QED
  BY <1>2, <1>3

LEMMA NoPressIsIdle ==
    /\ NoPress.left = 0 /\ NoPress.made = {} /\ NoPress.results = <<>>
    /\ NoPress.view = 0 /\ NoPress.command = ""
  BY DEF NoPress

LEMMA CarryAdvances ==
    ASSUME RecordTyped, PressIsOffered, Carry, press \in Command
    PROVE  /\ press # NoPress /\ press.command \in DOMAIN Screens[screen].offers
           /\ ~(Server[press.command].ends /\ press.made # {})
           /\ \E to \in Effects(press.command, Situation(Now)) :
                 Advances(to, Server[press.command].changes, Server[press.command].announces)
<1>1. press # NoPress
  <2>1. press.left > 0 /\ press.left \in 0..2
    BY DEF Carry, Command
  <2>2. NoPress.left = 0
    BY NoPressIsIdle
  <2> QED
    BY <2>1, <2>2
<1>2. press.command \in DOMAIN Screens[screen].offers
  BY <1>1 DEF PressIsOffered
<1>3. PICK to \in Results(press.command) \ {"refused"} :
          Commit(to, Server[press.command].changes, Server[press.command].announces)
  BY DEF Carry
<1>4. ~(Server[press.command].ends /\ press.made # {})
  BY <1>3 DEF Results
<1>5. to \in Effects(press.command, Situation(Now))
  BY <1>3, <1>4 DEF Results, Effects
<1>6. to \in SituationsOf(Family)
  BY <1>2, <1>5, LogFacts, EffectsAreSituations
<1>7. UNCHANGED <<screen, watched, first, answer, live, swallowed>>
  BY DEF Carry
<1> QED
  BY <1>1, <1>2, <1>3, <1>4, <1>5, <1>6, <1>7 DEF Advances

LEMMA ElsewhereAdvances ==
    ASSUME RecordTyped, Elsewhere
    PROVE  \E d \in Families[Family].drift : \E to \in d.moves[Situation(Now)] :
             /\ Situation(Now) \in DOMAIN d.moves
             /\ Advances(to, d.changes, d.announces)
<1>1. PICK d \in Families[Family].drift :
          /\ Situation(Now) \in DOMAIN d.moves
          /\ \E to \in d.moves[Situation(Now)] : Commit(to, d.changes, d.announces)
  BY DEF Elsewhere
<1>2. PICK to \in d.moves[Situation(Now)] : Commit(to, d.changes, d.announces)
  BY <1>1
<1>3. to \in Around(d.moves)
  BY <1>1, <1>2 DEF Around
<1>4. to \in SituationsOf(Family)
  BY <1>1, <1>3 DEF SituationsOf
<1>5. UNCHANGED <<screen, watched, first, answer, live, swallowed>>
  BY DEF Elsewhere
<1> QED
  BY <1>1, <1>2, <1>4, <1>5 DEF Advances

\* A screen a command opens, or the user goes to, is one of the same record.
LEMMA ScreenFacts ==
    ASSUME RecordTyped, PressTyped, PressIsOffered, [Next]_vars
    PROVE  /\ screen' \in ScreenNames /\ Family' = Family
           /\ UNCHANGED <<watched, first>>
<1>1. UNCHANGED <<watched, first>>
  <2>1. ASSUME NEW s, Open(s) PROVE UNCHANGED <<watched, first>>
    BY <2>1 DEF Open
  <2>2. ASSUME NEW c, Press(c) PROVE UNCHANGED <<watched, first>>
    BY <2>2 DEF Press
  <2>3. ASSUME Carry \/ Elsewhere PROVE UNCHANGED <<watched, first>>
    BY <2>3 DEF Carry, Elsewhere
  <2>4. ASSUME Receive \/ Poll \/ Decline \/ Fail \/ Succeed PROVE UNCHANGED <<watched, first>>
    BY <2>4 DEF Receive, Poll, Decline, Fail, Succeed
  <2>5. ASSUME Deliver \/ Disconnect \/ Reconnect PROVE UNCHANGED <<watched, first>>
    BY <2>5 DEF Deliver, Disconnect, Reconnect
  <2> QED
    BY <2>1, <2>2, <2>3, <2>4, <2>5 DEF Next, vars
<1> SUFFICES screen' \in ScreenNames /\ Family' = Family
  BY <1>1
<1>2. CASE UNCHANGED screen
  BY <1>2 DEF RecordTyped, Family
<1>3. ASSUME NEW s \in Others[screen], Open(s) PROVE screen' \in ScreenNames /\ Family' = Family
  BY <1>3 DEF Open, Others, ScreensOf, ScreenNames, RecordTyped, Family
<1>4. CASE Succeed
  <2>1. press # NoPress
    BY <1>4, NoPressIsIdle DEF Succeed
  <2>2. press.command \in DOMAIN Screens[screen].offers
    BY <2>1 DEF PressIsOffered
  <2>3. CASE Pressed.opens # "" /\ screen' = Pressed.opens
    <3>1. Destinations(screen, Pressed) \subseteq ScreensOf(Family)
      BY <2>2, TablesAssumption DEF Pressed, Family, RecordTyped
    <3>2. Pressed.opens \in Destinations(screen, Pressed)
      BY <2>3 DEF Destinations
    <3>3. Pressed.opens \in ScreensOf(Family)
      BY <3>1, <3>2
    <3>4. screen' \in DOMAIN Screens /\ Screens[screen'].family = Family
      BY <2>3, <3>3 DEF ScreensOf
    <3> QED
      BY <3>4 DEF ScreenNames, Family
  <2>4. CASE UNCHANGED screen
    BY <1>2, <2>4
  <2> QED
    BY <1>4, <2>3, <2>4 DEF Succeed
<1>5. ASSUME NEW c, Press(c) PROVE UNCHANGED screen
  BY <1>5 DEF Press
<1>6. ASSUME Receive \/ Poll \/ Decline \/ Fail \/ Carry \/ Elsewhere PROVE UNCHANGED screen
  BY <1>6 DEF Receive, Poll, Decline, Fail, Carry, Elsewhere
<1>7. ASSUME Deliver \/ Disconnect \/ Reconnect PROVE UNCHANGED screen
  BY <1>7 DEF Deliver, Disconnect, Reconnect
<1> QED
  BY <1>1, <1>2, <1>3, <1>4, <1>5, <1>6, <1>7 DEF Next, vars

\* A response that the browser handles is one of the log as it is.
LEMMA ResponseFacts ==
    ASSUME PressTyped, Succeed \/ Fail
    PROVE  /\ press.results \in Seq(Response) /\ press.results # <<>>
           /\ 1 \in DOMAIN press.results /\ Head(press.results) = press.results[1]
           /\ Head(press.results) \in Response
           /\ Head(press.results).at \in Nat /\ Head(press.results).at <= Now
<1>1. press.results \in Seq(Response) /\ press.results # <<>>
  BY DEF PressTyped, Command, Succeed, Fail
<1>2. 1 \in DOMAIN press.results /\ Head(press.results) = press.results[1]
  BY <1>1
<1>3. Head(press.results) \in Response
  BY <1>1, HeadTailProperties
<1> QED
  BY <1>1, <1>2, <1>3 DEF PressTyped, Response

\* Only the command and the others write the log.
LEMMA LogIsKept ==
    ASSUME [Next]_vars
    PROVE  Carry \/ Elsewhere \/ UNCHANGED log
<1>1. ASSUME NEW s, Open(s) PROVE UNCHANGED log
  BY <1>1 DEF Open
<1>2. ASSUME NEW c, Press(c) PROVE UNCHANGED log
  BY <1>2 DEF Press
<1>3. ASSUME Receive \/ Poll \/ Decline \/ Fail \/ Succeed PROVE UNCHANGED log
  BY <1>3 DEF Receive, Poll, Decline, Fail, Succeed
<1>4. ASSUME Deliver \/ Disconnect \/ Reconnect PROVE UNCHANGED log
  BY <1>4 DEF Deliver, Disconnect, Reconnect
<1> QED
  BY <1>1, <1>2, <1>3, <1>4 DEF Next, vars

LEMMA RecordStays ==
    ASSUME RecordTyped, PressTyped, PressIsOffered, [Next]_vars
    PROVE  RecordTyped'
<1>1. /\ screen' \in ScreenNames /\ watched' \in QueryNames /\ Family' = Family
      /\ first' \in SituationsOf(Family)
  BY ScreenFacts DEF RecordTyped, QueryNames
<1>2. ASSUME NEW to, NEW changes, NEW announces, Advances(to, changes, announces)
      PROVE  log' \in Seq(Change(Family)) /\ Now' <= MaxChanges
  BY <1>2, CommitFacts
<1>3. ASSUME UNCHANGED log
      PROVE  log' \in Seq(Change(Family)) /\ Now' <= MaxChanges
  BY <1>3 DEF RecordTyped, Now
<1>4. log' \in Seq(Change(Family)) /\ Now' <= MaxChanges
  BY <1>2, <1>3, LogIsKept, CarryAdvances, ElsewhereAdvances DEF PressTyped
<1> QED
  BY <1>1, <1>4 DEF RecordTyped, QueryNames, ScreenNames

-------------------------------------------------------------------------------
(* The cache.                                                                 *)
LEMMA CacheAdvances ==
    ASSUME RecordTyped, CacheTyped, NEW to, NEW changes, NEW announces,
           Advances(to, changes, announces)
    PROVE  CacheTyped'
<1>1. answer' = answer /\ live' = live /\ swallowed' = swallowed
  BY DEF Advances
<1>2. /\ Now \in Nat /\ Now' = Now + 1
      /\ wire' \subseteq wire \cup {Now + 1} /\ lost' \subseteq lost \cup {Now + 1}
  BY CommitFacts
<1>3. answer.held <= Now' /\ answer.asked <= Now'
  BY <1>2 DEF CacheTyped, Entry
<1>4. wire' \subseteq 1..Now' /\ lost' \subseteq 1..Now' /\ swallowed \subseteq 1..Now'
  BY <1>2 DEF CacheTyped
<1> QED
  BY <1>1, <1>3, <1>4 DEF CacheTyped

LEMMA CacheStays ==
    ASSUME Typed, PressIsOffered, [Next]_vars
    PROVE  CacheTyped'
<1> USE DEF Typed
<1>0. Now \in Nat
  BY LogFacts
<1>1. ASSUME NEW to, NEW changes, NEW announces, Advances(to, changes, announces)
      PROVE  CacheTyped'
  BY <1>1, CacheAdvances
<1>2. CASE Carry \/ Elsewhere
  BY <1>1, <1>2, CarryAdvances, ElsewhereAdvances DEF PressTyped
<1> SUFFICES ASSUME UNCHANGED log PROVE CacheTyped'
  BY <1>2, LogIsKept
<1>3. Now' = Now
  BY DEF Now
<1>4. CASE Receive
  <2>1. PICK n \in answer.asked..Now :
          /\ answer' = [Unheld EXCEPT !.has = TRUE, !.held = n]
          /\ swallowed' = {i \in swallowed : i > n}
          /\ lost' = {i \in lost : i > n}
    BY <1>4 DEF Receive
  <2>2. n \in Nat /\ n <= Now
    BY <1>0, <2>1 DEF CacheTyped, Entry
  <2>3. answer' \in Entry /\ answer'.held = n /\ answer'.asked = 0
    BY <2>1, <2>2 DEF Unheld, Entry
  <2> QED
    BY <1>0, <1>3, <1>4, <2>1, <2>2, <2>3 DEF Receive, CacheTyped
<1>5. ASSUME NEW s, Open(s) PROVE CacheTyped'
  <2>1. PICK old \in BOOLEAN :
          answer' = IF Mounted(s) /\ ~Mounted(screen) THEN Mount(answer, old) ELSE answer
    BY <1>5 DEF Open
  <2>2. answer' \in Entry /\ answer'.held <= Now /\ answer'.asked <= Now
    BY <1>0, <2>1, MountFacts DEF CacheTyped
  <2> QED
    BY <1>3, <1>5, <2>2 DEF Open, CacheTyped
<1>6. CASE Poll
  BY <1>0, <1>3, <1>6, FetchingFacts DEF Poll, CacheTyped
<1>7. ASSUME NEW c, Press(c) PROVE CacheTyped'
  BY <1>3, <1>7 DEF Press, CacheTyped
<1>8. CASE Decline \/ Fail
  BY <1>3, <1>8 DEF Decline, Fail, CacheTyped
<1>9. CASE Succeed
  <2> DEFINE n == Head(press.results).at
             written == Written(Refreshed(answer), n)
  <2>1. n \in Nat /\ n <= Now
    BY <1>9, ResponseFacts
  <2>2. Refreshed(answer) \in Entry /\ Refreshed(answer).held <= Now /\ Refreshed(answer).asked <= Now
    BY <1>0, InvalidateFacts DEF Refreshed, CacheTyped
  <2>3. written \in Entry /\ written.held <= Now /\ written.asked <= Now
    BY <2>1, <2>2, WrittenFacts
  <2>4. answer' = written \/ answer' = Mount(written, FALSE)
    BY <1>9 DEF Succeed
  <2>5. swallowed' = swallowed \cup (IF Root \in Pressed.refreshes /\ Swallows THEN 1..n ELSE {})
                        \cup (IF watched \in Pressed.writes THEN (n + 1)..answer.held ELSE {})
    BY <1>9 DEF Succeed
  <2> HIDE DEF n, written
  <2>6. swallowed' \subseteq 1..Now
    <3>1. answer.held \in Nat /\ answer.held <= Now /\ swallowed \subseteq 1..Now
      BY DEF CacheTyped, Entry
    <3>2. 1..n \subseteq 1..Now /\ (n + 1)..answer.held \subseteq 1..Now
      BY <1>0, <2>1, <3>1
    <3> QED
      BY <2>5, <3>1, <3>2
  <2>7. PICK old \in BOOLEAN : answer' = written \/ answer' = Mount(written, old)
    BY <2>4
  <2>8. answer' \in Entry /\ answer'.held <= Now /\ answer'.asked <= Now
    BY <1>0, <2>3, <2>7, MountFacts
  <2> QED
    BY <1>3, <1>9, <2>6, <2>8 DEF Succeed, CacheTyped
<1>10. CASE Deliver
  <2>1. answer' \in Entry /\ answer'.held <= Now /\ answer'.asked <= Now
    BY <1>0, <1>10, InvalidateFacts DEF Deliver, CacheTyped
  <2>2. PICK i \in wire :
          /\ wire' = wire \ {i}
          /\ swallowed' = IF Swallows THEN swallowed \cup 1..i ELSE swallowed
    BY <1>10 DEF Deliver
  <2>3. wire' \subseteq 1..Now /\ swallowed' \subseteq 1..Now
    BY <1>0, <2>2 DEF CacheTyped
  <2> QED
    BY <1>3, <1>10, <2>1, <2>3 DEF Deliver, CacheTyped
<1>11. CASE Disconnect
  BY <1>3, <1>11 DEF Disconnect, CacheTyped
<1>12. CASE Reconnect
  <2>1. answer' \in Entry /\ answer'.held <= Now /\ answer'.asked <= Now
    BY <1>0, <1>12, MountFacts DEF Reconnect, CacheTyped
  <2> QED
    BY <1>3, <1>12, <2>1 DEF Reconnect, CacheTyped
<1>13. CASE UNCHANGED vars
  BY <1>3, <1>13 DEF vars, CacheTyped
<1> QED
  BY <1>2, <1>4, <1>5, <1>6, <1>7, <1>8, <1>9, <1>10, <1>11, <1>12, <1>13 DEF Next

-------------------------------------------------------------------------------
(* The command pressed.                                                       *)

\* Every step but the end of a command keeps the screen or finds none pressed;
\* the log only grows.
LEMMA LogGrows ==
    ASSUME Typed, PressIsOffered, [Next]_vars
    PROVE  /\ Now \in Nat /\ Now' \in Nat /\ Now <= Now'
           /\ \A i \in 1..Now : log'[i] = log[i]
           /\ \A n \in 0..Now : Situation(n)' = Situation(n)
<1> USE DEF Typed
<1>1. Now \in Nat
  BY LogFacts
<1>2. first' = first
  BY ScreenFacts
<1>3. ASSUME NEW to, NEW changes, NEW announces, Advances(to, changes, announces)
      PROVE  Now' = Now + 1 /\ \A i \in 1..Now : log'[i] = log[i]
  BY <1>3, CommitFacts
<1>4. ASSUME UNCHANGED log PROVE Now' = Now /\ \A i \in 1..Now : log'[i] = log[i]
  BY <1>4 DEF Now
<1>5. (Now' = Now + 1 \/ Now' = Now) /\ \A i \in 1..Now : log'[i] = log[i]
  BY <1>3, <1>4, LogIsKept, CarryAdvances, ElsewhereAdvances DEF PressTyped
<1>6. ASSUME NEW n \in 0..Now PROVE Situation(n)' = Situation(n)
  <2>1. n = 0 \/ n \in 1..Now
    BY <1>1
  <2> QED
    BY <1>2, <1>5, <2>1 DEF Situation
<1> QED
  BY <1>1, <1>5, <1>6

LEMMA OutcomeFacts ==
    ASSUME PressTyped, press.left > 0, Now \in Nat,
           NEW outcome \in {"made", "kept", "refused"}
    PROVE  /\ Outcome(outcome).command = press.command
           /\ Outcome(outcome).view = press.view
           /\ Outcome(outcome).left = press.left - 1
           /\ Outcome(outcome).made =
                IF outcome = "made" THEN press.made \cup {Now + 1} ELSE press.made
           /\ Outcome(outcome).results =
                Append(press.results, [outcome |-> outcome,
                                       at |-> IF outcome = "made" THEN Now + 1 ELSE Now])
           /\ Outcome(outcome) \in Command
<1>1. press \in Command /\ press.left - 1 \in 0..2
  BY DEF PressTyped, Command
<1> DEFINE response == [outcome |-> outcome, at |-> IF outcome = "made" THEN Now + 1 ELSE Now]
<1>2. response \in Response
  BY DEF Response
<1>3. Append(press.results, response) \in Seq(Response)
  BY <1>1, <1>2, AppendProperties DEF Command
<1>4. press.made \cup {Now + 1} \in SUBSET Nat
  BY <1>1 DEF Command
<1> HIDE DEF response
<1>5. Outcome(outcome) = [press EXCEPT !.left = @ - 1,
                  !.made = IF outcome = "made" THEN @ \cup {Now + 1} ELSE @,
                  !.results = Append(@, response)]
  BY DEF Outcome, response
<1>6. /\ Outcome(outcome).command = press.command
      /\ Outcome(outcome).view = press.view
      /\ Outcome(outcome).left = press.left - 1
      /\ Outcome(outcome).made =
           IF outcome = "made" THEN press.made \cup {Now + 1} ELSE press.made
      /\ Outcome(outcome).results = Append(press.results, response)
  BY <1>1, <1>5 DEF Command
<1>7. Outcome(outcome) \in Command
  BY <1>1, <1>3, <1>4, <1>5 DEF Command
<1> QED
  BY <1>6, <1>7 DEF response

LEMMA AnsweredFacts ==
    ASSUME PressTyped, press.results # <<>>
    PROVE  \/ LastResult /\ Answered = NoPress
           \/ /\ ~LastResult
              /\ Answered \in Command
              /\ Answered.command = press.command
              /\ Answered.view = press.view
              /\ Answered.left = press.left
              /\ Answered.made = press.made
              /\ Answered.results = Tail(press.results)
<1>1. CASE LastResult
  BY <1>1 DEF Answered
<1>2. CASE ~LastResult
  <2>1. Answered = [press EXCEPT !.results = Tail(press.results)]
    BY <1>2 DEF Answered
  <2>2. press \in Command /\ press.results \in Seq(Response)
    BY DEF PressTyped, Command
  <2>3. Tail(press.results) \in Seq(Response)
    BY <2>2, HeadTailProperties
  <2> QED
    BY <1>2, <2>1, <2>2, <2>3 DEF Command
<1> QED
  BY <1>1, <1>2

LEMMA CommandIsTyped ==
    ASSUME NEW c \in Commands, NEW v \in Nat, NEW l \in 0..2, NEW m \in SUBSET Nat,
           NEW r \in Seq(Response)
    PROVE  [command |-> c, view |-> v, left |-> l, made |-> m, results |-> r] \in Command
  BY DEF Command

LEMMA IdleIsTyped == NoPress \in Command
<1>1. <<>> \in Seq(Response)
  BY EmptySeq
<1>2. "" \in Commands
  BY DEF Commands
<1>3. 0 \in Nat /\ 0 \in 0..2
  OBVIOUS
<1>4. {} \in SUBSET Nat
  OBVIOUS
<1> QED
  BY <1>1, <1>2, <1>3, <1>4, CommandIsTyped DEF NoPress

LEMMA PressFacts ==
    ASSUME Typed, NEW c \in DOMAIN Screens[screen].offers, Press(c)
    PROVE  LET offer == Screens[screen].offers[c] IN
           /\ press = NoPress /\ press' \in Command
           /\ press'.command = c
           /\ press'.view \in 0..Now
           /\ press'.left \in {1, 2} /\ (offer.once => press'.left = 1)
           /\ press'.made = {} /\ press'.results = <<>>
           /\ offer.on # "" => Situation(press'.view) \in offer.offered
           /\ UNCHANGED <<screen, watched, first, log, answer, live, wire, lost, swallowed>>
<1> USE DEF Typed
<1> DEFINE offer == Screens[screen].offers[c]
<1>1. PICK view \in Views(offer), times \in Times(offer) :
        /\ OffersFor(offer, view)
        /\ press' = [NoPress EXCEPT !.command = c, !.view = view, !.left = times]
  BY DEF Press
<1>2. view \in 0..Now
  <2>1. Now \in Nat
    BY LogFacts
  <2>2. answer.held \in Nat /\ answer.held <= Now
    BY DEF CacheTyped, Entry
  <2>3. view = answer.held \/ view = Now \/ view \in 0..Now
    BY <1>1 DEF Views
  <2> QED
    BY <2>1, <2>2, <2>3
<1>3. times \in {1, 2} /\ (offer.once => times = 1)
  BY <1>1 DEF Times
<1>4. c \in Commands
  BY TablesAssumption DEF Commands, RecordTyped
<1>5. press' = [command |-> c, view |-> view, left |-> times, made |-> {}, results |-> <<>>]
  BY <1>1 DEF NoPress
<1>6. press' \in Command
  <2>1. <<>> \in Seq(Response)
    BY EmptySeq
  <2>2. view \in Nat /\ times \in 0..2
    BY <1>2, <1>3
  <2>3. {} \in SUBSET Nat
    OBVIOUS
  <2> QED
    BY <1>4, <1>5, <2>1, <2>2, <2>3, CommandIsTyped
<1>7. /\ press'.command = c /\ press'.view = view /\ press'.left = times
      /\ press'.made = {} /\ press'.results = <<>>
  BY <1>5
<1>8. offer.on # "" => Situation(view) \in offer.offered
  BY <1>1 DEF OffersFor
<1> HIDE DEF offer
<1>9. press = NoPress
      /\ UNCHANGED <<screen, watched, first, log, answer, live, wire, lost, swallowed>>
  BY DEF Press
<1> QED
  BY <1>2, <1>3, <1>6, <1>7, <1>8, <1>9 DEF offer

\* The other steps: a request is carried out or declined, a response is
\* handled, or the command stays as it is.
LEMMA PressSteps ==
    ASSUME Typed, PressIsOffered, [Next]_vars
    PROVE  \/ \E c \in DOMAIN Screens[screen].offers : Press(c)
           \/ Carry /\ press' = Outcome("made")
           \/ Decline
           \/ press.results # <<>> /\ press' = Answered /\ (~LastResult => screen' = screen)
           \/ press' = press /\ (press = NoPress \/ screen' = screen)
<1>1. ASSUME NEW s, Open(s) PROVE press = NoPress /\ press' = press
  BY <1>1 DEF Open
<1>2. CASE Carry
  BY <1>2 DEF Carry
<1>3. CASE Fail
  BY <1>3 DEF Fail
<1>4. CASE Succeed
  BY <1>4 DEF Succeed
<1>5. ASSUME Receive \/ Poll \/ Elsewhere PROVE press' = press /\ screen' = screen
  BY <1>5 DEF Receive, Poll, Elsewhere
<1>6. ASSUME Deliver \/ Disconnect \/ Reconnect PROVE press' = press /\ screen' = screen
  BY <1>6 DEF Deliver, Disconnect, Reconnect
<1>7. ASSUME UNCHANGED vars PROVE press' = press /\ screen' = screen
  BY <1>7 DEF vars
<1> QED
  BY <1>1, <1>2, <1>3, <1>4, <1>5, <1>6, <1>7 DEF Next

\* How the responses of a command follow from those before.
LEMMA ResponsesGrow ==
    ASSUME NEW results \in Seq(Response), NEW response \in Response,
           NEW grown, grown = Append(results, response)
    PROVE  /\ Len(grown) = Len(results) + 1
           /\ \A k \in DOMAIN grown :
                grown[k] = response \/ \E m \in DOMAIN results : grown[k] = results[m]
<1>1. /\ grown \in Seq(Response) /\ Len(grown) = Len(results) + 1
      /\ \A k \in 1..Len(results) : grown[k] = results[k]
      /\ grown[Len(results) + 1] = response
  BY AppendProperties
<1>2. DOMAIN grown = 1..Len(grown) /\ DOMAIN results = 1..Len(results) /\ Len(results) \in Nat
  BY <1>1, LenProperties
<1> QED
  BY <1>1, <1>2

LEMMA ResponsesShrink ==
    ASSUME NEW results \in Seq(Response), results # <<>>, NEW rest, rest = Tail(results)
    PROVE  /\ Len(rest) = Len(results) - 1
           /\ \A k \in DOMAIN rest : \E m \in DOMAIN results : rest[k] = results[m]
<1>1. /\ rest \in Seq(Response) /\ Len(rest) = Len(results) - 1
      /\ \A k \in 1..Len(rest) : rest[k] = results[k + 1]
  BY HeadTailProperties
<1>2. DOMAIN rest = 1..Len(rest) /\ DOMAIN results = 1..Len(results) /\ Len(results) \in Nat
  BY <1>1, LenProperties
<1> QED
  BY <1>1, <1>2

\* What a request leads to, at the end of the log as it is then.
LEMMA DeclineFacts ==
    ASSUME Typed, Decline
    PROVE  \E outcome \in {"kept", "refused"} :
             /\ press.left > 0 /\ press' = Outcome(outcome)
             /\ outcome = "refused" => Lacks(press.command, Pressed) \/ "refused" \in Results(press.command)
             /\ UNCHANGED <<screen, watched, first, log>>
  BY DEF Decline

LEMMA PressStays ==
    ASSUME Typed, PressIsOffered, [Next]_vars
    PROVE  PressTyped'
<1> USE DEF Typed
<1>0. /\ Now \in Nat /\ Now' \in Nat /\ Now <= Now'
      /\ press \in Command /\ press.results \in Seq(Response)
      /\ press.view \in Nat /\ press.left \in 0..2
  BY LogGrows DEF PressTyped, Command
<1>a. ASSUME NEW m \in DOMAIN press.results
      PROVE  press.results[m].at \in Nat /\ press.results[m].at <= Now
  <2>1. press.results[m] \in Response
    BY <1>0, LenProperties, ElementOfSeq
  <2> QED
    BY <2>1 DEF PressTyped, Response
<1>1. ASSUME NEW c \in DOMAIN Screens[screen].offers, Press(c) PROVE PressTyped'
  <2>1. /\ press' \in Command /\ press'.view \in 0..Now /\ press'.left \in {1, 2}
        /\ press'.made = {} /\ press'.results = <<>>
    BY <1>1, PressFacts
  <2>2. Len(press'.results) = 0 /\ DOMAIN press'.results = {}
    BY <2>1
  <2> QED
    BY <1>0, <2>1, <2>2 DEF PressTyped
<1>2. ASSUME NEW outcome \in {"made", "kept", "refused"}, press' = Outcome(outcome), press.left > 0,
             outcome = "made" => Now' = Now + 1
      PROVE  PressTyped'
  <2> DEFINE response == [outcome |-> outcome, at |-> IF outcome = "made" THEN Now + 1 ELSE Now]
  <2>1. response \in Response /\ response.at <= Now'
    BY <1>0, <1>2 DEF Response
  <2>2. /\ press' \in Command /\ press'.view = press.view /\ press'.left = press.left - 1
        /\ press'.made = IF outcome = "made" THEN press.made \cup {Now + 1} ELSE press.made
        /\ press'.results = Append(press.results, response)
    BY <1>0, <1>2, OutcomeFacts
  <2> HIDE DEF response
  <2>3. /\ Len(press'.results) = Len(press.results) + 1
        /\ \A k \in DOMAIN press'.results : press'.results[k] = response \/
              \E m \in DOMAIN press.results : press'.results[k] = press.results[m]
    BY <1>0, <2>1, <2>2, ResponsesGrow
  <2>5. \A k \in DOMAIN press'.results : press'.results[k].at <= Now'
    BY <1>0, <1>a, <2>1, <2>3
  <2>6. press'.made \subseteq (press.view + 1)..Now'
    BY <1>0, <1>2, <2>2 DEF PressTyped
  <2>7. press'.left + Len(press'.results) <= 2 /\ press'.view <= Now'
    BY <1>0, <2>2, <2>3, LenProperties DEF PressTyped
  <2> QED
    BY <2>2, <2>5, <2>6, <2>7 DEF PressTyped
<1>3. CASE Carry
  <2>1. Now' = Now + 1
    BY <1>3, CarryAdvances, CommitFacts DEF PressTyped
  <2> QED
    BY <1>2, <1>3, <2>1 DEF Carry
<1>4. CASE Decline
  BY <1>2, <1>4, DeclineFacts
<1>5. ASSUME press.results # <<>>, press' = Answered PROVE PressTyped'
  <2>1. CASE press' = NoPress
    <3>1. /\ press' \in Command /\ press'.view = 0 /\ press'.left = 0
          /\ press'.made = {} /\ press'.results = <<>>
      BY <2>1, NoPressIsIdle, IdleIsTyped
    <3>2. Len(press'.results) = 0 /\ DOMAIN press'.results = {}
      BY <3>1
    <3> QED
      BY <1>0, <3>1, <3>2 DEF PressTyped
  <2>2. CASE press' # NoPress
    <3>1. /\ press' \in Command /\ press'.view = press.view /\ press'.left = press.left
          /\ press'.made = press.made /\ press'.results = Tail(press.results)
      BY <1>5, <2>2, AnsweredFacts
    <3>2. /\ Len(press'.results) = Len(press.results) - 1
          /\ \A k \in DOMAIN press'.results :
                \E m \in DOMAIN press.results : press'.results[k] = press.results[m]
      BY <1>0, <1>5, <3>1, ResponsesShrink
    <3>4. \A k \in DOMAIN press'.results : press'.results[k].at <= Now'
      BY <1>0, <1>a, <3>2
    <3>5. press'.left + Len(press'.results) <= 2
      BY <1>0, <3>1, <3>2, LenProperties DEF PressTyped
    <3>6. press'.made \subseteq (press'.view + 1)..Now' /\ press'.view <= Now'
      BY <1>0, <3>1 DEF PressTyped
    <3> QED
      BY <3>1, <3>4, <3>5, <3>6 DEF PressTyped
  <2> QED
    BY <2>1, <2>2
<1>6. ASSUME press' = press PROVE PressTyped'
  <2>1. press.made \subseteq (press.view + 1)..Now' /\ press.view <= Now'
    BY <1>0 DEF PressTyped
  <2>3. \A m \in DOMAIN press.results : press.results[m].at <= Now'
    BY <1>0, <1>a
  <2> QED
    BY <1>6, <2>1, <2>3 DEF PressTyped
<1> QED
  BY <1>1, <1>3, <1>4, <1>5, <1>6, PressSteps

LEMMA OfferStays ==
    ASSUME Typed, PressIsOffered, [Next]_vars
    PROVE  PressIsOffered'
<1> USE DEF Typed
<1>0. /\ press \in Command /\ press.results \in Seq(Response) /\ Len(press.results) \in Nat
      /\ press.view \in 0..Now /\ press.left \in 0..2
  BY LogFacts, LenProperties DEF PressTyped, Command
<1>1. ASSUME NEW c \in DOMAIN Screens[screen].offers, Press(c) PROVE PressIsOffered'
  <2> DEFINE offer == Screens[screen].offers[c]
  <2>1. /\ press'.command = c /\ press'.view \in 0..Now
        /\ (offer.once => press'.left = 1) /\ press'.made = {} /\ press'.results = <<>>
        /\ offer.on # "" => Situation(press'.view) \in offer.offered
        /\ screen' = screen /\ log' = log /\ first' = first
    BY <1>1, PressFacts
  <2>2. Pressed' = offer
    BY <2>1 DEF Pressed
  <2>3. Situation(press.view)' = Situation(press'.view)
    BY <2>1 DEF Situation
  <2> HIDE DEF offer
  <2>4. ASSUME offer.once PROVE press'.left + Len(press'.results) <= 1
    <3>1. press'.left = 1 /\ press'.results = <<>>
      BY <2>1, <2>4 DEF offer
    <3> QED
      BY <3>1
  <2>6. press'.command \in DOMAIN Screens[screen'].offers
    BY <2>1
  <2> QED
    BY <2>1, <2>2, <2>3, <2>4, <2>6 DEF PressIsOffered, offer
<1>2. ASSUME press # NoPress, screen' = screen, press'.command = press.command,
             press'.view = press.view,
             press'.left + Len(press'.results) <= press.left + Len(press.results),
             Pressed.once => (press'.left = 1 => press'.made = {}),
             press'.left \in Nat, Len(press'.results) \in Nat
      PROVE  PressIsOffered'
  <2>1. /\ press.command \in DOMAIN Screens[screen].offers
        /\ Pressed.on # "" => Situation(press.view) \in Pressed.offered
        /\ Pressed.once => press.left + Len(press.results) <= 1
    BY <1>2 DEF PressIsOffered
  <2>2. Pressed' = Pressed
    BY <1>2 DEF Pressed
  <2>3. PICK view \in 0..Now : view = press.view
    BY <1>0
  <2>4. Situation(view)' = Situation(view)
    BY LogGrows
  <2>5. Situation(press.view)' = Situation(press.view)
    BY <1>2, <2>3, <2>4 DEF Situation
  <2>6. ASSUME Pressed.once PROVE press'.left + Len(press'.results) <= 1
    <3>1. press.left + Len(press.results) <= 1
      BY <2>1, <2>6
    <3> QED
      BY <1>0, <1>2, <3>1
  <2>7. press'.command \in DOMAIN Screens[screen'].offers
    BY <1>2, <2>1
  <2> QED
    BY <1>2, <2>1, <2>2, <2>5, <2>6, <2>7 DEF PressIsOffered
<1>3. ASSUME NEW outcome \in {"made", "kept", "refused"}, press' = Outcome(outcome),
             press.left > 0, screen' = screen
      PROVE  PressIsOffered'
  <2> DEFINE response == [outcome |-> outcome, at |-> IF outcome = "made" THEN Now + 1 ELSE Now]
  <2>1. press # NoPress
    <3>1. NoPress.left = 0
      BY NoPressIsIdle
    <3> QED
      BY <1>0, <1>3, <3>1
  <2>2. /\ press'.command = press.command /\ press'.view = press.view
        /\ press'.left = press.left - 1 /\ press' \in Command
        /\ press'.results = Append(press.results, response)
    BY <1>3, OutcomeFacts, LogFacts
  <2>3. response \in Response
    BY LogFacts DEF Response
  <2> HIDE DEF response
  <2>4. Len(press'.results) = Len(press.results) + 1
    BY <1>0, <2>2, <2>3, ResponsesGrow
  <2>5. ASSUME Pressed.once PROVE press'.left # 1
    <3>1. press.left + Len(press.results) <= 1
      BY <2>1, <2>5 DEF PressIsOffered
    <3> QED
      BY <1>0, <1>3, <2>2, <3>1
  <2>6. /\ press'.left \in Nat /\ Len(press'.results) \in Nat
        /\ press'.left + Len(press'.results) <= press.left + Len(press.results)
    BY <1>0, <1>3, <2>2, <2>4
  <2> QED
    BY <1>2, <1>3, <2>1, <2>2, <2>5, <2>6
<1>4. CASE Carry
  <2>1. press' = Outcome("made") /\ press.left > 0 /\ screen' = screen
    BY <1>4 DEF Carry
  <2> QED
    BY <1>3, <2>1
<1>5. CASE Decline
  BY <1>3, <1>5, DeclineFacts
<1>6. ASSUME press.results # <<>>, press' = Answered, ~LastResult => screen' = screen
      PROVE  PressIsOffered'
  <2>1. CASE press' = NoPress
    BY <2>1 DEF PressIsOffered, NoPress
  <2>2. CASE press' # NoPress
    <3>1. /\ ~LastResult
          /\ press'.command = press.command
          /\ press'.view = press.view /\ press'.left = press.left
          /\ press'.made = press.made /\ press'.results = Tail(press.results)
      BY <1>6, <2>2, AnsweredFacts
    <3>2. Len(press'.results) = Len(press.results) - 1
      BY <1>0, <1>6, <3>1, ResponsesShrink
    <3>3. press # NoPress
      BY <1>6, NoPressIsIdle
    <3>4. Len(press.results) # 0
      BY <1>0, <1>6, EmptySeq
    <3>5. /\ press'.left \in Nat /\ Len(press'.results) \in Nat
          /\ press'.left + Len(press'.results) <= press.left + Len(press.results)
      BY <1>0, <3>1, <3>2, <3>4
    <3>6. Pressed.once => (press'.left = 1 => press'.made = {})
      BY <3>1, <3>3 DEF PressIsOffered
    <3> QED
      BY <1>2, <1>6, <3>1, <3>3, <3>5, <3>6
  <2> QED
    BY <2>1, <2>2
<1>7. ASSUME press' = press, press = NoPress \/ screen' = screen PROVE PressIsOffered'
  <2>1. CASE press = NoPress
    BY <1>7, <2>1 DEF PressIsOffered, NoPress
  <2>2. CASE press # NoPress
    <3>1. Pressed.once => (press'.left = 1 => press'.made = {})
      BY <1>7, <2>2 DEF PressIsOffered
    <3>2. /\ press'.left \in Nat /\ Len(press'.results) \in Nat
          /\ press'.left + Len(press'.results) <= press.left + Len(press.results)
      BY <1>0, <1>7
    <3> QED
      BY <1>2, <1>7, <2>2, <3>1, <3>2
  <2> QED
    BY <2>1, <2>2
<1> QED
  BY <1>1, <1>4, <1>5, <1>6, <1>7, PressSteps

LEMMA TruthStays ==
    ASSUME Typed, PressIsOffered, [Next]_vars, NEW c, NEW view \in 0..Now,
           NEW response \in Response, response.at <= Now, IsTrue(c, view, response)
    PROVE  IsTrue(c, view, response)'
<1>1. watched' = watched
  BY ScreenFacts DEF Typed
<1>2. Situation(view)' = Situation(view)
  BY LogGrows
<1>3. response.outcome = "made" => response.at \in 1..Now
  BY LogGrows DEF IsTrue, Response
<1>4. response.outcome = "made" => log'[response.at] = log[response.at]
  BY <1>3, LogGrows
<1> QED
  BY <1>1, <1>2, <1>4 DEF IsTrue, Shown

\* A button offered where the server may refuse it is a disagreement.
LEMMA RefusableDisagrees ==
    ASSUME NEW s \in DOMAIN Screens, NEW c \in DOMAIN Screens[s].offers, NEW x \in Refusable(s, c)
    PROVE  <<c, x>> \in Disagreements
<1>1. <<c, x>> \in {c} \X Refusable(s, c)
  OBVIOUS
<1>2. <<c, x>> \in UNION {{d} \X Refusable(s, d) : d \in DOMAIN Screens[s].offers}
  BY <1>1
<1> QED
  BY <1>2 DEF Disagreements

\* The server refuses what the screen offered only if the record went on, or
\* the two disagree about the situation itself.
LEMMA RefusalIsExcused ==
    ASSUME Typed, PressIsOffered, press.left > 0,
           Lacks(press.command, Pressed) \/ "refused" \in Results(press.command)
    PROVE  Now > press.view \/ <<press.command, Situation(press.view)>> \in Disagreements
<1> USE DEF Typed
<1>0. Now \in Nat /\ press.view \in 0..Now /\ press.left \in 0..2
  BY LogFacts DEF PressTyped, Command
<1> SUFFICES ASSUME press.view = Now
             PROVE  <<press.command, Situation(press.view)>> \in Disagreements
  BY <1>0
<1>1. press # NoPress
  <2>1. NoPress.left = 0
    BY NoPressIsIdle
  <2> QED
    BY <1>0, <2>1
<1>2. /\ press.command \in DOMAIN Screens[screen].offers
      /\ Pressed.on # "" => Situation(press.view) \in Pressed.offered
  BY <1>1 DEF PressIsOffered
<1>3. press.made = {}
  BY <1>0 DEF PressTyped
<1>4. Lacks(press.command, Pressed) \/ "refused" \in Leaves(press.command, Situation(press.view))
  BY <1>3 DEF Results
<1>5. Situation(press.view) \in SituationsOf(Screens[screen].family)
  BY <1>0, LogFacts DEF Family
<1>6. screen \in DOMAIN Screens
  BY DEF RecordTyped, ScreenNames
<1>7. Situation(press.view) \in OfferedIn(screen, Pressed)
  BY <1>2, <1>5 DEF OfferedIn
<1>8. Situation(press.view) \in Refusable(screen, press.command)
  BY <1>4, <1>7 DEF Refusable, Pressed
<1> QED
  BY <1>2, <1>6, <1>8, RefusableDisagrees

LEMMA ResponsesStay ==
    ASSUME Typed, PressIsOffered, ResponsesAreTrue, [Next]_vars
    PROVE  ResponsesAreTrue'
<1> USE DEF Typed
<1>0. /\ press \in Command /\ press.results \in Seq(Response) /\ Now \in Nat
      /\ press.view \in 0..Now /\ press.left \in 0..2
  BY LogFacts DEF PressTyped, Command
<1>1. PICK c, view : c = press.command /\ view = press.view
  OBVIOUS
<1>2. ASSUME NEW m \in DOMAIN press.results, NEW response, response = press.results[m]
      PROVE  IsTrue(c, view, response)'
  <2>1. response \in Response /\ response.at <= Now
    BY <1>0, <1>2, LenProperties, ElementOfSeq DEF PressTyped
  <2>2. IsTrue(c, view, response)
    BY <1>1, <1>2 DEF ResponsesAreTrue
  <2> QED
    BY <1>0, <1>1, <2>1, <2>2, TruthStays
<1>3. ASSUME press'.command = c, press'.view = view,
             \A k \in DOMAIN press'.results :
                \E response : response = press'.results[k] /\ IsTrue(c, view, response)'
      PROVE  ResponsesAreTrue'
  <2> SUFFICES ASSUME NEW k \in DOMAIN press'.results
               PROVE  IsTrue(press.command, press.view, press.results[k])'
    BY DEF ResponsesAreTrue
  <2>1. PICK response : response = press'.results[k] /\ IsTrue(c, view, response)'
    BY <1>3
  <2> QED
    BY <1>3, <2>1 DEF IsTrue
<1>4. ASSUME NEW d \in DOMAIN Screens[screen].offers, Press(d) PROVE ResponsesAreTrue'
  <2>1. press'.results = <<>>
    BY <1>4, PressFacts
  <2>2. DOMAIN press'.results = {}
    BY <2>1
  <2> QED
    BY <2>2 DEF ResponsesAreTrue
<1>5. ASSUME NEW outcome \in {"made", "kept", "refused"}, press' = Outcome(outcome), press.left > 0,
             NEW response,
             response = [outcome |-> outcome, at |-> IF outcome = "made" THEN Now + 1 ELSE Now],
             IsTrue(c, view, response)'
      PROVE  ResponsesAreTrue'
  <2>1. /\ press'.command = c /\ press'.view = view
        /\ press'.results = Append(press.results, response)
    BY <1>0, <1>1, <1>5, OutcomeFacts
  <2>2. response \in Response
    BY <1>0, <1>5 DEF Response
  <2>3. \A k \in DOMAIN press'.results : press'.results[k] = response \/
           \E m \in DOMAIN press.results : press'.results[k] = press.results[m]
    BY <1>0, <2>1, <2>2, ResponsesGrow
  <2>4. \A k \in DOMAIN press'.results :
           \E r : r = press'.results[k] /\ IsTrue(c, view, r)'
    BY <1>2, <1>5, <2>3
  <2> QED
    BY <1>3, <2>1, <2>4
<1>6. CASE Carry
  <2>1. press' = Outcome("made") /\ press.left > 0
    BY <1>6 DEF Carry
  <2>2. PICK to : Advances(to, Server[c].changes, Server[c].announces)
    BY <1>0, <1>1, <1>6, CarryAdvances
  <2>3. log'[Now + 1].shown <=> Shown(Server[c].changes)
    BY <2>2, CommitFacts
  <2>4. watched' = watched
    BY ScreenFacts
  <2>5. PICK response : response = [outcome |-> "made", at |-> Now + 1]
    OBVIOUS
  <2>6. IsTrue(c, view, response)'
    BY <1>0, <2>3, <2>4, <2>5 DEF IsTrue, Shown
  <2> QED
    BY <1>5, <2>1, <2>5, <2>6
<1>7. CASE Decline
  <2>1. PICK outcome \in {"kept", "refused"} :
          /\ press.left > 0 /\ press' = Outcome(outcome)
          /\ outcome = "refused" => Lacks(press.command, Pressed) \/ "refused" \in Results(press.command)
          /\ UNCHANGED <<screen, watched, first, log>>
    BY <1>7, DeclineFacts
  <2>2. PICK response : response = [outcome |-> outcome, at |-> Now]
    OBVIOUS
  <2>3. outcome = "refused" => Now > view \/ <<c, Situation(view)>> \in Disagreements
    BY <1>1, <2>1, RefusalIsExcused
  <2>4. Situation(view)' = Situation(view)
    BY <2>1 DEF Situation
  <2>5. IsTrue(c, view, response)'
    BY <2>1, <2>2, <2>3, <2>4 DEF IsTrue
  <2> QED
    BY <1>5, <2>1, <2>2, <2>5
<1>8. ASSUME press.results # <<>>, press' = Answered PROVE ResponsesAreTrue'
  <2>1. CASE press' = NoPress
    <3>1. press'.results = <<>>
      BY <2>1, NoPressIsIdle
    <3>2. DOMAIN press'.results = {}
      BY <3>1
    <3> QED
      BY <3>2 DEF ResponsesAreTrue
  <2>2. CASE press' # NoPress
    <3>1. /\ press'.command = c /\ press'.view = view
          /\ press'.results = Tail(press.results)
      BY <1>1, <1>8, <2>2, AnsweredFacts
    <3>2. \A k \in DOMAIN press'.results :
             \E m \in DOMAIN press.results : press'.results[k] = press.results[m]
      BY <1>0, <1>8, <3>1, ResponsesShrink
    <3>3. \A k \in DOMAIN press'.results :
             \E r : r = press'.results[k] /\ IsTrue(c, view, r)'
      BY <1>2, <3>2
    <3> QED
      BY <1>3, <3>1, <3>3
  <2> QED
    BY <2>1, <2>2
<1>9. ASSUME press' = press PROVE ResponsesAreTrue'
  <2>1. press'.command = c /\ press'.view = view
    BY <1>1, <1>9
  <2>2. \A k \in DOMAIN press'.results :
           \E r : r = press'.results[k] /\ IsTrue(c, view, r)'
    BY <1>2, <1>9
  <2> QED
    BY <1>3, <2>1, <2>2
<1> QED
  BY <1>4, <1>6, <1>7, <1>8, <1>9, PressSteps

LEMMA SpentFacts ==
    ASSUME RecordTyped, NEW c \in DOMAIN Screens[screen].offers, c = press.command, ~MayRepeat(c)
    PROVE  Spent(Family, c, SpentOf(Family, c))
<1>1. \E spent \in SUBSET SituationsOf(Family) : Spent(Family, c, spent)
  BY AgainAssumption DEF RecordTyped, MayRepeat, Pressed, Family
<1> QED
  BY <1>1 DEF SpentOf

\* While the log and the command stay, nothing is said anew of them.
LEMMA SpentIsKept ==
    ASSUME Typed, PressIsOffered, [Next]_vars, CommandIsSpent, UNCHANGED log,
           press'.made = press.made, press'.command = press.command, screen' = screen
    PROVE  CommandIsSpent'
<1>1. Now' = Now
  BY DEF Now
<1>2. Family' = Family /\ first' = first
  BY ScreenFacts DEF Typed
<1>3. Situation(Now)' = Situation(Now)
  BY <1>1, <1>2 DEF Situation
<1>4. MayRepeat(press.command)' <=> MayRepeat(press.command)
  BY DEF MayRepeat, Pressed
<1> QED
  BY <1>1, <1>2, <1>3, <1>4 DEF CommandIsSpent

LEMMA SpentStays ==
    ASSUME Typed, PressIsOffered, CommandIsSpent, [Next]_vars
    PROVE  CommandIsSpent'
<1> USE DEF Typed
<1>0. Now \in Nat /\ press \in Command /\ press.made \subseteq (press.view + 1)..Now
      /\ press.view \in Nat
  BY LogFacts DEF PressTyped, Command
<1>1. ASSUME press'.made = {} PROVE CommandIsSpent'
  BY <1>1 DEF CommandIsSpent
<1>2. CASE Carry
  <2>1. PICK c \in DOMAIN Screens[screen].offers : c = press.command
    BY <1>0, <1>2, CarryAdvances
  <2>2. PICK to \in Effects(c, Situation(Now)) :
          Advances(to, Server[c].changes, Server[c].announces)
    BY <1>0, <1>2, <2>1, CarryAdvances
  <2>3. Now' = Now + 1 /\ log'[Now + 1].situation = to
    BY <2>2, CommitFacts
  <2>4. Situation(Now)' = to
    BY <1>0, <2>3 DEF Situation
  <2>5. press'.command = c /\ screen' = screen
    BY <1>0, <1>2, <2>1, OutcomeFacts DEF Carry
  <2>6. MayRepeat(press.command)' <=> MayRepeat(c)
    BY <2>1, <2>5 DEF MayRepeat, Pressed
  <2>7. ASSUME ~MayRepeat(c) PROVE to \in SpentOf(Family, c)
    <3>1. Spent(Family, c, SpentOf(Family, c))
      BY <2>1, <2>7, SpentFacts
    <3> QED
      BY <1>0, <2>2, <3>1, LogFacts DEF Spent
  <2>8. Family' = Family
    BY ScreenFacts
  <2> QED
    BY <2>4, <2>5, <2>6, <2>7, <2>8 DEF CommandIsSpent
<1>3. CASE Elsewhere
  <2>1. PICK d \in Families[Family].drift : \E to \in d.moves[Situation(Now)] :
          /\ Situation(Now) \in DOMAIN d.moves
          /\ Advances(to, d.changes, d.announces)
    BY <1>3, ElsewhereAdvances
  <2>2. PICK to \in d.moves[Situation(Now)] :
          /\ Situation(Now) \in DOMAIN d.moves
          /\ Advances(to, d.changes, d.announces)
    BY <2>1
  <2>3. Now' = Now + 1 /\ log'[Now + 1].situation = to
    BY <2>2, CommitFacts
  <2>4. Situation(Now)' = to
    BY <1>0, <2>3 DEF Situation
  <2>5. press' = press /\ screen' = screen /\ Family' = Family
    BY <1>3 DEF Elsewhere, Family
  <2>6. Now' \notin press'.made
    BY <1>0, <2>3, <2>5
  <2>7. ASSUME press.made # {}, ~MayRepeat(press.command), press.command \notin Reopened
        PROVE  to \in SpentOf(Family, press.command)
    <3>1. Situation(Now) \in SpentOf(Family, press.command)
      BY <2>7 DEF CommandIsSpent
    <3>2. PICK c \in DOMAIN Screens[screen].offers : c = press.command
      <4>1. NoPress.made = {}
        BY NoPressIsIdle
      <4> QED
        BY <2>7, <4>1 DEF PressIsOffered
    <3>3. Spent(Family, c, SpentOf(Family, c))
      BY <2>7, <3>2, SpentFacts
    <3> QED
      BY <2>1, <2>2, <2>7, <3>1, <3>2, <3>3 DEF Spent
  <2>8. MayRepeat(press.command)' <=> MayRepeat(press.command)
    BY <2>5 DEF MayRepeat, Pressed
  <2> QED
    BY <2>4, <2>5, <2>6, <2>7, <2>8 DEF CommandIsSpent
<1> SUFFICES ASSUME UNCHANGED log, ~Carry PROVE CommandIsSpent'
  BY <1>2, <1>3, LogIsKept
<1>4. ASSUME NEW c \in DOMAIN Screens[screen].offers, Press(c) PROVE CommandIsSpent'
  BY <1>1, <1>4, PressFacts
<1>5. CASE Decline
  <2>1. PICK outcome \in {"kept", "refused"} : press.left > 0 /\ press' = Outcome(outcome) /\ screen' = screen
    BY <1>5, DeclineFacts
  <2>2. press'.made = press.made /\ press'.command = press.command
    BY <1>0, <2>1, OutcomeFacts
  <2> QED
    BY <2>1, <2>2, SpentIsKept
<1>6. ASSUME press.results # <<>>, press' = Answered, ~LastResult => screen' = screen
      PROVE  CommandIsSpent'
  <2>1. CASE press' = NoPress
    BY <1>1, <2>1, NoPressIsIdle
  <2>2. CASE press' # NoPress
    BY <1>6, <2>2, AnsweredFacts, SpentIsKept
  <2> QED
    BY <2>1, <2>2
<1>7. ASSUME press' = press, press = NoPress \/ screen' = screen PROVE CommandIsSpent'
  <2>1. CASE press = NoPress
    BY <1>1, <1>7, <2>1, NoPressIsIdle
  <2>2. CASE screen' = screen
    BY <1>7, <2>2, SpentIsKept
  <2> QED
    BY <1>7, <2>1, <2>2
<1> QED
  BY <1>4, <1>5, <1>6, <1>7, PressSteps

LEMMA OnceStays ==
    ASSUME Typed, PressIsOffered, CommandIsSpent, TakesEffectOnce, [Next]_vars
    PROVE  TakesEffectOnce'
<1> USE DEF Typed
<1>0. Now \in Nat /\ press \in Command /\ press.made \subseteq (press.view + 1)..Now
      /\ press.view \in Nat /\ press.left \in 0..2
  BY LogFacts DEF PressTyped, Command
<1>1. ASSUME press'.made = {} PROVE TakesEffectOnce'
  BY <1>1 DEF TakesEffectOnce
<1>2. ASSUME press'.made = press.made, press'.command = press.command PROVE TakesEffectOnce'
  BY <1>2 DEF TakesEffectOnce
<1>3. CASE Carry
  <2>1. PICK c \in DOMAIN Screens[screen].offers : c = press.command
    BY <1>0, <1>3, CarryAdvances
  <2>2. PICK to \in Effects(c, Situation(Now)) :
          Advances(to, Server[c].changes, Server[c].announces)
    BY <1>0, <1>3, <2>1, CarryAdvances
  <2>3. ~(Server[c].ends /\ press.made # {}) /\ press # NoPress
    BY <1>0, <1>3, <2>1, CarryAdvances
  <2>4. press'.command = c /\ press'.made = press.made \cup {Now + 1}
    BY <1>0, <1>3, <2>1, OutcomeFacts DEF Carry
  <2>5. ASSUME press.made # {}
        PROVE  c \in Repeatable \/ (c \in Reopened /\ Now \notin press.made)
    <3>1. ~Pressed.once
      <4>1. press.left \in {1, 2}
        BY <1>0, <1>3 DEF Carry
      <4>2. ASSUME Pressed.once PROVE press.left = 1
        <5>1. press.left + Len(press.results) <= 1
          BY <2>3, <4>2 DEF PressIsOffered
        <5>2. Len(press.results) \in Nat
          BY LenProperties DEF PressTyped, Command
        <5> QED
          BY <4>1, <5>1, <5>2
      <4> QED
        BY <2>3, <2>5, <4>2 DEF PressIsOffered
    <3>2. ~Server[c].ends
      BY <2>3, <2>5
    <3> SUFFICES ASSUME c \notin Repeatable PROVE c \in Reopened /\ Now \notin press.made
      OBVIOUS
    <3>3. ~MayRepeat(c)
      BY <3>1, <3>2 DEF MayRepeat
    <3>4. Spent(Family, c, SpentOf(Family, c))
      BY <2>1, <3>3, SpentFacts
    <3>5. Situation(Now) \notin SpentOf(Family, c)
      BY <2>2, <3>4 DEF Spent
    <3> QED
      BY <2>1, <2>5, <3>3, <3>5 DEF CommandIsSpent
  <2> SUFFICES ASSUME NEW i \in press'.made, NEW j \in press'.made, i < j
               PROVE  c \in Repeatable \/ (c \in Reopened /\ j > i + 1)
    BY <2>4 DEF TakesEffectOnce
  <2>6. CASE j \in press.made
    <3>1. i \in press.made
      BY <1>0, <2>4, <2>6
    <3> QED
      BY <2>1, <2>6, <3>1 DEF TakesEffectOnce
  <2>7. CASE j = Now + 1
    <3>1. i \in press.made /\ i \in Nat /\ i <= Now
      BY <1>0, <2>4, <2>7
    <3>2. i # Now \/ c \in Repeatable
      BY <2>5, <3>1
    <3>3. c \in Repeatable \/ c \in Reopened
      BY <2>5, <3>1
    <3> QED
      BY <1>0, <2>7, <3>1, <3>2, <3>3
  <2> QED
    BY <2>4, <2>6, <2>7
<1>4. ASSUME NEW c \in DOMAIN Screens[screen].offers, Press(c) PROVE TakesEffectOnce'
  BY <1>1, <1>4, PressFacts
<1>5. CASE Decline
  <2>1. PICK outcome \in {"kept", "refused"} : press.left > 0 /\ press' = Outcome(outcome)
    BY <1>5, DeclineFacts
  <2>2. press'.made = press.made /\ press'.command = press.command
    BY <1>0, <2>1, OutcomeFacts
  <2> QED
    BY <1>2, <2>2
<1>6. ASSUME press.results # <<>>, press' = Answered PROVE TakesEffectOnce'
  <2>1. CASE press' = NoPress
    BY <1>1, <2>1, NoPressIsIdle
  <2>2. CASE press' # NoPress
    BY <1>2, <1>6, <2>2, AnsweredFacts
  <2> QED
    BY <2>1, <2>2
<1>7. ASSUME press' = press PROVE TakesEffectOnce'
  BY <1>2, <1>7
<1> QED
  BY <1>3, <1>4, <1>5, <1>6, <1>7, PressSteps

-------------------------------------------------------------------------------
(* What an answer may miss.                                                   *)

\* A change that is told of is on its way to the browser, or lost to it.
LEMMA CoveredAdvances ==
    ASSUME RecordTyped, NEW n \in Nat, Covered(n),
           NEW to, NEW changes, NEW announces, Advances(to, changes, announces)
    PROVE  Covered(n)'
<1>1. /\ Now \in Nat /\ Now' = Now + 1
      /\ \A i \in 1..Now : log'[i] = log[i]
      /\ wire \subseteq wire' /\ lost \subseteq lost'
      /\ log'[Now + 1].told => Now + 1 \in wire' \cup lost'
  BY CommitFacts
<1>2. swallowed' = swallowed
  BY DEF Advances
<1> SUFFICES ASSUME NEW i \in (n + 1)..(Now + 1) PROVE Excused(i)'
  BY <1>1 DEF Covered
<1>3. CASE i = Now + 1
  BY <1>1, <1>3 DEF Excused
<1>4. CASE i # Now + 1
  <2>1. i \in (n + 1)..Now /\ i \in 1..Now
    BY <1>1, <1>4
  <2> QED
    BY <1>1, <1>2, <2>1 DEF Covered, Excused
<1> QED
  BY <1>3, <1>4

\* An excuse holds until the change is on display.
LEMMA CoveredStays ==
    ASSUME Now \in Nat, UNCHANGED log, NEW n \in Nat, NEW m \in Nat, Covered(n),
           \A i \in (m + 1)..Now :
              i \in wire \cup lost \cup swallowed \/ i <= n => i \in wire' \cup lost' \cup swallowed'
    PROVE  Covered(m)'
<1>1. Now' = Now
  BY DEF Now
<1> SUFFICES ASSUME NEW i \in (m + 1)..Now PROVE Excused(i)'
  BY <1>1 DEF Covered
<1>2. CASE i <= n
  BY <1>2 DEF Excused
<1>3. CASE ~(i <= n)
  <2>1. i \in (n + 1)..Now
    BY <1>3
  <2> QED
    BY <2>1 DEF Covered, Excused
<1> QED
  BY <1>2, <1>3

LEMMA CoveredByNow ==
    ASSUME Now \in Nat, UNCHANGED log, NEW n, n = Now
    PROVE  Covered(n)'
<1>1. Now' = Now
  BY DEF Now
<1>2. (n + 1)..Now = {}
  OBVIOUS
<1> QED
  BY <1>1, <1>2 DEF Covered

LEMMA FedIs ==
    ASSUME NEW e, answer' = e,
           e.busy => Covered(e.asked)',
           e.has /\ ~e.busy /\ (Mounted(screen)' \/ ~e.marked) => Covered(e.held)',
           Mounted(screen)' => e.has \/ e.busy
    PROVE  Fed'
  BY DEF Fed, Covered

\* A screen that shows the answer again fetches what was invalidated meanwhile.
LEMMA MountFeeds ==
    ASSUME Now \in Nat, UNCHANGED <<log, watched>>, NEW e \in Entry, NEW old \in BOOLEAN,
           answer' = IF Mounted(screen)' /\ ~Mounted(screen) THEN Mount(e, old) ELSE e,
           e.busy => Covered(e.asked)',
           e.has /\ ~e.busy /\ (Mounted(screen) \/ ~e.marked) => Covered(e.held)',
           Mounted(screen) => e.has \/ e.busy
    PROVE  Fed'
<1>1. CASE Mounted(screen)' /\ ~Mounted(screen)
  <2>1. PICK m : m = Mount(e, old)
    OBVIOUS
  <2>2. CASE m = e /\ (e.busy \/ (e.has /\ ~e.marked))
    BY <1>1, <2>1, <2>2, FedIs
  <2>3. CASE m.busy /\ m.asked = Now
    <3>1. PICK k : k = Now
      OBVIOUS
    <3>2. Covered(k)'
      BY <3>1, CoveredByNow
    <3> QED
      BY <1>1, <2>1, <2>3, <3>1, <3>2, FedIs
  <2> QED
    BY <2>1, <2>2, <2>3, MountFacts
<1>2. CASE ~(Mounted(screen)' /\ ~Mounted(screen))
  BY <1>2, FedIs
<1> QED
  BY <1>1, <1>2

LEMMA FedStays ==
    ASSUME Typed, PressIsOffered, Fed, [Next]_vars
    PROVE  Fed'
<1> USE DEF Typed
<1>0. /\ Now \in Nat /\ answer \in Entry
      /\ answer.held \in Nat /\ answer.asked \in Nat /\ answer.held <= Now /\ answer.asked <= Now
  BY LogFacts DEF CacheTyped, Entry
<1>1. watched' = watched
  BY ScreenFacts
<1>2. ASSUME NEW to, NEW changes, NEW announces, Advances(to, changes, announces)
      PROVE  Fed'
  <2>1. /\ answer' = answer /\ (Mounted(screen)' <=> Mounted(screen))
    BY <1>2 DEF Advances, Mounted
  <2>2. PICK e : e = answer
    OBVIOUS
  <2>3. ASSUME NEW n \in Nat, Covered(n) PROVE Covered(n)'
    BY <1>2, <2>3, CoveredAdvances
  <2> QED
    BY <1>0, <2>1, <2>2, <2>3, FedIs DEF Fed
<1>3. CASE Carry \/ Elsewhere
  BY <1>2, <1>3, CarryAdvances, ElsewhereAdvances DEF PressTyped
<1> SUFFICES ASSUME UNCHANGED log PROVE Fed'
  BY <1>3, LogIsKept
\* What is still on its way, lost or swallowed stays so.
<1> DEFINE Kept == wire \cup lost \cup swallowed \subseteq wire' \cup lost' \cup swallowed'
<1>4. ASSUME Kept, NEW n \in Nat, Covered(n) PROVE Covered(n)'
  BY <1>0, <1>4, CoveredStays
<1>5. PICK e : e = answer
  OBVIOUS
<1>6. ASSUME Kept,
             \E old \in BOOLEAN :
                answer' = IF Mounted(screen)' /\ ~Mounted(screen) THEN Mount(answer, old) ELSE answer
      PROVE  Fed'
  <2>1. PICK old \in BOOLEAN :
            answer' = IF Mounted(screen)' /\ ~Mounted(screen) THEN Mount(e, old) ELSE e
    BY <1>5, <1>6
  <2> HIDE DEF Kept
  <2>2. /\ e.busy => Covered(e.asked)'
        /\ e.has /\ ~e.busy /\ (Mounted(screen) \/ ~e.marked) => Covered(e.held)'
        /\ Mounted(screen) => e.has \/ e.busy
    BY <1>0, <1>4, <1>5, <1>6 DEF Fed
  <2> QED
    BY <1>0, <1>1, <1>5, <2>1, <2>2, MountFeeds
<1>7. ASSUME UNCHANGED <<screen, answer, wire, lost, swallowed>> PROVE Fed'
  <2>1. Mounted(screen)' <=> Mounted(screen)
    BY <1>1, <1>7 DEF Mounted
  <2> QED
    BY <1>6, <1>7, <2>1
\* The display is the same, and the answer asked for anew or left as it is.
<1>8. ASSUME Kept, screen' = screen, NEW m, answer' = m, m.has <=> answer.has,
             \/ m.busy /\ m.asked = Now
             \/ m = answer
      PROVE  Fed'
  <2> HIDE DEF Kept
  <2>1. Mounted(screen)' <=> Mounted(screen)
    BY <1>1, <1>8 DEF Mounted
  <2>2. CASE m.busy /\ m.asked = Now
    <3>1. PICK k : k = Now
      OBVIOUS
    <3>2. Covered(k)'
      BY <1>0, <3>1, CoveredByNow
    <3> QED
      BY <1>8, <2>2, <3>1, <3>2, FedIs
  <2>3. CASE m = answer
    BY <1>0, <1>4, <1>8, <2>1, <2>3, FedIs DEF Fed
  <2> QED
    BY <1>8, <2>2, <2>3
<1>9. CASE Receive
  <2>1. PICK n \in answer.asked..Now :
          /\ answer' = [Unheld EXCEPT !.has = TRUE, !.held = n]
          /\ swallowed' = {i \in swallowed : i > n}
          /\ lost' = {i \in lost : i > n}
    BY <1>9 DEF Receive
  <2>2. n \in Nat /\ answer.asked <= n /\ wire' = wire
    BY <1>0, <1>9, <2>1 DEF Receive
  <2>3. Covered(answer.asked)
    BY <1>9 DEF Fed, Receive
  <2>4. PICK k \in Nat : k = answer.asked
    BY <1>0
  <2>5. Covered(n)'
    BY <1>0, <2>1, <2>2, <2>3, <2>4, CoveredStays
  <2>6. PICK m : answer' = m
    OBVIOUS
  <2>7. m.has /\ ~m.busy /\ m.held = n
    BY <2>1, <2>6 DEF Unheld
  <2> QED
    BY <2>5, <2>6, <2>7, FedIs
<1>10. ASSUME NEW s, Open(s) PROVE Fed'
  <2>1. /\ Kept /\ screen' = s
        /\ \E old \in BOOLEAN :
              answer' = IF Mounted(s) /\ ~Mounted(screen) THEN Mount(answer, old) ELSE answer
    BY <1>10 DEF Open
  <2>2. Mounted(screen)' <=> Mounted(s)
    BY <1>1, <2>1 DEF Mounted
  <2> QED
    BY <1>6, <2>1, <2>2
<1>11. CASE Poll
  <2>1. Kept /\ screen' = screen /\ answer' = Fetching(answer)
    BY <1>11 DEF Poll
  <2> QED
    BY <1>0, <1>8, <2>1, FetchingFacts
<1>12. CASE Reconnect
  <2>1. Kept /\ screen' = screen
    BY <1>12 DEF Reconnect
  <2>2. PICK old \in BOOLEAN : answer' = Mount(answer, old) \/ answer' = answer
    BY <1>12 DEF Reconnect
  <2> QED
    BY <1>0, <1>8, <2>1, <2>2, MountFacts
<1>13. CASE Disconnect
  <2>1. Kept /\ screen' = screen /\ answer' = answer
    BY <1>13 DEF Disconnect
  <2> QED
    BY <1>8, <2>1
<1>14. CASE Deliver
  <2>1. PICK i \in wire :
          /\ wire' = wire \ {i}
          /\ swallowed' = IF Swallows THEN swallowed \cup 1..i ELSE swallowed
    BY <1>14 DEF Deliver
  <2>2. screen' = screen /\ lost' = lost /\ answer' = Invalidate(answer) /\ i \in Nat /\ i \in 1..i
    BY <1>14, <2>1 DEF Deliver, CacheTyped
  <2>3. CASE Mounted(screen) /\ answer.has
    \* It is fetched again.
    <3>1. PICK m : answer' = m /\ m.has /\ m.busy /\ m.asked = Now
      BY <1>0, <2>2, <2>3, InvalidateFacts
    <3>2. PICK k : k = Now
      OBVIOUS
    <3>3. Covered(k)'
      BY <1>0, <3>2, CoveredByNow
    <3> QED
      BY <3>1, <3>2, <3>3, FedIs
  <2>4. CASE ~(Mounted(screen) /\ answer.has)
    <3>1. PICK m : /\ answer' = m /\ m.asked = answer.asked
                   /\ (m.busy <=> answer.busy) /\ (m.has <=> answer.has) /\ (m.marked <=> answer.has)
      BY <1>0, <2>2, <2>4, InvalidateFacts
    <3>2. Mounted(screen)' <=> Mounted(screen)
      BY <1>1, <2>2 DEF Mounted
    <3>3. ASSUME answer.busy PROVE Covered(m.asked)'
      <4>1. Swallows
        BY <2>4, <3>3 DEF Swallows
      <4>2. Kept
        BY <2>1, <2>2, <4>1
      <4> QED
        BY <1>0, <1>4, <3>1, <3>3, <4>2 DEF Fed
    <3> QED
      BY <2>4, <3>1, <3>2, <3>3, FedIs DEF Fed
  <2> QED
    BY <2>3, <2>4
<1>15. CASE Succeed
  <2>1. PICK n : n = Head(press.results).at
    OBVIOUS
  <2>2. PICK r : r = Refreshed(answer)
    OBVIOUS
  <2>3. PICK w : w = Written(r, n)
    OBVIOUS
  <2>4. n \in Nat /\ n <= Now
    BY <1>15, <2>1, ResponseFacts
  <2>5. /\ wire' = wire /\ lost' = lost
        /\ swallowed' = swallowed \cup (IF Root \in Pressed.refreshes /\ Swallows THEN 1..n ELSE {})
                         \cup (IF watched \in Pressed.writes THEN (n + 1)..answer.held ELSE {})
        /\ answer' = IF Mounted(screen)' /\ ~Mounted(screen) THEN Mount(w, FALSE) ELSE w
    <3>1. Mounted(screen)' <=> watched \in Screens[screen'].reads
      BY <1>1 DEF Mounted
    <3> QED
      BY <1>15, <2>1, <2>2, <2>3, <3>1 DEF Succeed, Mounted
  <2>6. PICK old \in BOOLEAN :
            answer' = IF Mounted(screen)' /\ ~Mounted(screen) THEN Mount(w, old) ELSE w
    BY <2>5
  <2>7. Kept /\ (watched \in Pressed.writes => (n + 1)..answer.held \subseteq swallowed')
    BY <2>5
  <2> HIDE DEF Kept
  \* A command's answer is of a query of the screen.
  <2>8. watched \in Pressed.writes => Mounted(screen)
    <3>1. press # NoPress
      BY <1>15, NoPressIsIdle DEF Succeed
    <3>2. PICK c \in DOMAIN Screens[screen].offers : c = press.command
      BY <3>1 DEF PressIsOffered
    <3>3. Screens[screen].offers[c].writes \subseteq Screens[screen].reads
      BY <3>2, WritesAssumption DEF RecordTyped
    <3> QED
      BY <3>2, <3>3 DEF Pressed, Mounted
  <2>9. r \in Entry /\ w \in Entry
    BY <1>0, <2>2, <2>3, <2>4, InvalidateFacts, WrittenFacts DEF Refreshed
  <2>10. /\ w.busy <=> r.busy
         /\ w.asked = r.asked
         /\ watched \notin Pressed.writes => w = r
         /\ watched \in Pressed.writes => w.has /\ ~w.marked /\ w.held = n
    BY <2>3, <2>4, <2>9, WrittenFacts
  <2>11. CASE Root \in Pressed.refreshes /\ Mounted(screen) /\ answer.has
    \* The answer on display is fetched again.
    <3>1. r.busy /\ r.asked = Now
      BY <1>0, <2>2, <2>11, InvalidateFacts DEF Refreshed
    <3>2. PICK k : k = Now
      OBVIOUS
    <3>3. Covered(k)'
      BY <1>0, <3>2, CoveredByNow
    <3> QED
      BY <2>5, <2>10, <2>11, <3>1, <3>2, <3>3, FedIs
  <2>12. CASE ~(Root \in Pressed.refreshes /\ Mounted(screen) /\ answer.has)
    <3>1. /\ r.busy <=> answer.busy
          /\ r.asked = answer.asked /\ r.held = answer.held
          /\ r.has <=> answer.has
          /\ r = answer \/ (r.has => r.marked)
          /\ r = answer \/ ~Mounted(screen) \/ ~answer.has
      BY <1>0, <2>2, <2>12, InvalidateFacts DEF Refreshed
    <3>2. w.busy => Covered(w.asked)'
      BY <1>0, <1>4, <2>7, <2>10, <3>1 DEF Fed
    <3>3. Mounted(screen) => w.has \/ w.busy
      BY <2>10, <3>1 DEF Fed
    <3>4. ASSUME w.has, ~w.busy, Mounted(screen) \/ ~w.marked PROVE Covered(w.held)'
      <4>1. CASE watched \in Pressed.writes
        <5>1. Covered(answer.held) /\ w.held = n
          BY <2>8, <2>10, <3>1, <3>4, <4>1 DEF Fed
        <5>2. PICK k \in Nat : k = answer.held
          BY <1>0
        <5>3. ASSUME NEW i \in (n + 1)..Now,
                     i \in wire \cup lost \cup swallowed \/ i <= k
              PROVE  i \in wire' \cup lost' \cup swallowed'
          <6>1. CASE i <= k
            BY <1>0, <2>4, <2>7, <4>1, <5>2, <6>1
          <6>2. CASE i \in wire \cup lost \cup swallowed
            BY <2>7, <6>2 DEF Kept
          <6> QED
            BY <5>3, <6>1, <6>2
        <5>4. Covered(n)'
          BY <1>0, <2>4, <5>1, <5>2, <5>3, CoveredStays
        <5> QED
          BY <5>1, <5>4
      <4>2. CASE watched \notin Pressed.writes
        <5>1. w = r /\ ~answer.busy /\ w.held = answer.held /\ answer.has
          BY <2>10, <3>1, <3>4, <4>2
        <5>2. Mounted(screen) \/ ~answer.marked
          BY <3>1, <3>4, <5>1
        <5>3. Covered(answer.held)
          BY <5>1, <5>2 DEF Fed
        <5>4. PICK k \in Nat : k = answer.held
          BY <1>0
        <5>5. Covered(k)'
          BY <1>4, <2>7, <5>3, <5>4
        <5> QED
          BY <5>1, <5>4, <5>5
      <4> QED
        BY <4>1, <4>2
    <3> QED
      BY <1>0, <1>1, <2>6, <2>9, <3>2, <3>3, <3>4, MountFeeds
  <2> QED
    BY <2>11, <2>12
<1>16. ASSUME NEW c, Press(c) PROVE Fed'
  BY <1>7, <1>16 DEF Press
<1>17. CASE Decline \/ Fail
  BY <1>7, <1>17 DEF Decline, Fail
<1>18. CASE UNCHANGED vars
  BY <1>7, <1>18 DEF vars
<1> QED
  BY <1>3, <1>9, <1>10, <1>11, <1>12, <1>13, <1>14, <1>15, <1>16, <1>17, <1>18 DEF Next

-------------------------------------------------------------------------------
LEMMA InitIsTyped ==
    Init => Typed /\ Now = 0
<1> SUFFICES ASSUME Init PROVE Typed /\ Now = 0
  OBVIOUS
<1>1. Now = 0
  BY DEF Init, Now
<1>2. screen \in ScreenNames /\ Family \in DOMAIN Families
  BY TablesAssumption DEF Init, ScreenNames, Family
<1>3. watched \in QueryNames
  <2>1. PICK s \in ScreensOf(Family) : watched \in Screens[s].reads
    BY DEF Init, QueriesOf
  <2> QED
    BY <2>1, TablesAssumption DEF ScreensOf, ScreenNames
<1>4. first \in SituationsOf(Family)
  BY DEF Init, SituationsOf
<1>5. log \in Seq(Change(Family))
  BY DEF Init
<1>6. RecordTyped
  BY <1>1, <1>2, <1>3, <1>4, <1>5, BoundAssumption DEF RecordTyped
<1>7. answer \in Entry /\ answer.held = 0 /\ answer.asked = 0
  <2>1. PICK b : b = Mounted(screen) /\ answer = [Unheld EXCEPT !.busy = b]
    BY Zenon DEF Init
  <2>2. b \in BOOLEAN
    BY <2>1 DEF Mounted
  <2> QED
    BY <2>1, <2>2 DEF Unheld, Entry
<1>8. CacheTyped
  BY <1>1, <1>7 DEF Init, CacheTyped
<1>9. PressTyped
  <2>1. press \in Command /\ press.left = 0 /\ press.made = {} /\ press.results = <<>> /\ press.view = 0
    BY IdleIsTyped, NoPressIsIdle DEF Init
  <2>2. Len(press.results) = 0 /\ DOMAIN press.results = {}
    BY <2>1
  <2> QED
    BY <1>1, <2>1, <2>2 DEF PressTyped
<1> QED
  BY <1>1, <1>6, <1>8, <1>9 DEF Typed

LEMMA InitIInv == Init => IInv
<1> SUFFICES ASSUME Init PROVE IInv
  OBVIOUS
<1>1. Typed /\ Now = 0
  BY InitIsTyped
<1>2. Fed
  <2>1. ~answer.has /\ answer.asked = 0 /\ (answer.busy <=> Mounted(screen))
    BY DEF Init, Unheld, Mounted
  <2>2. Covered(answer.asked)
    BY <1>1, <2>1 DEF Covered
  <2> QED
    BY <2>1, <2>2 DEF Fed
<1>3. press.made = {} /\ DOMAIN press.results = {}
  <2>1. press.made = {} /\ press.results = <<>>
    BY NoPressIsIdle DEF Init
  <2> QED
    BY <2>1
<1>4. PressIsOffered
  BY DEF Init, PressIsOffered
<1>5. ResponsesAreTrue
  BY <1>3 DEF ResponsesAreTrue
<1>6. CommandIsSpent
  BY <1>3 DEF CommandIsSpent
<1>7. TakesEffectOnce
  BY <1>3 DEF TakesEffectOnce
<1> QED
  BY <1>1, <1>2, <1>4, <1>5, <1>6, <1>7 DEF IInv

\* What the proofs rest on: the types, and for each property its explanation
\* (Fed, PressIsOffered, ResponsesAreTrue, CommandIsSpent), hold of every
\* state the browser, the server and the others can reach.
THEOREM Invariant == Spec => []IInv
<1>1. IInv /\ [Next]_vars => IInv'
  <2> SUFFICES ASSUME IInv, [Next]_vars PROVE IInv'
    OBVIOUS
  <2>1. RecordTyped'
    BY RecordStays DEF IInv, Typed
  <2>2. CacheTyped'
    BY CacheStays DEF IInv
  <2>3. PressTyped'
    BY PressStays DEF IInv
  <2>4. PressIsOffered'
    BY OfferStays DEF IInv
  <2>5. ResponsesAreTrue'
    BY ResponsesStay DEF IInv
  <2>6. CommandIsSpent'
    BY SpentStays DEF IInv
  <2>7. TakesEffectOnce'
    BY OnceStays DEF IInv
  <2>8. Fed'
    BY FedStays DEF IInv
  <2> QED
    BY <2>1, <2>2, <2>3, <2>4, <2>5, <2>6, <2>7, <2>8 DEF IInv, Typed
<1> QED
  BY <1>1, InitIInv, PTL DEF Spec

\* Whatever the screens, an answer is always of a prefix of the log, and what
\* is on its way, lost or swallowed is a change that was made.
THEOREM TypeCorrect == Spec => []TypeOK
<1>1. IInv => TypeOK
  <2> SUFFICES ASSUME IInv PROVE TypeOK
    OBVIOUS
  <2>1. RecordTyped /\ CacheTyped /\ PressTyped
    BY DEF IInv, Typed
  <2>2. Now \in Nat
    BY <2>1, LogFacts
  <2>3. log \in Seq([situation : STRING, shown : BOOLEAN, told : BOOLEAN])
    <3>1. Family \in DOMAIN Families
      BY <2>1, TablesAssumption DEF RecordTyped, Family
    <3>2. SituationsOf(Family) \subseteq STRING
      BY <3>1, TablesAssumption
    <3>3. Change(Family) \subseteq [situation : STRING, shown : BOOLEAN, told : BOOLEAN]
      BY <3>2 DEF Change
    <3> QED
      BY <2>1, <3>3, SeqMonotonic DEF RecordTyped
  <2>4. answer \in [has : BOOLEAN, held : 0..Now, marked : BOOLEAN,
                    busy : BOOLEAN, asked : 0..Now]
    BY <2>1, <2>2 DEF CacheTyped, Entry
  <2>5. press.left \in 0..2 /\ press.made \subseteq 1..Now
    <3>1. press \in Command /\ press.made \subseteq (press.view + 1)..Now
      BY <2>1 DEF PressTyped
    <3>2. press.view \in Nat /\ press.left \in 0..2
      BY <3>1 DEF Command
    <3> QED
      BY <2>2, <3>1, <3>2
  <2> QED
    BY <2>1, <2>2, <2>3, <2>4, <2>5, BoundAssumption DEF TypeOK, RecordTyped, CacheTyped
<1> QED
  BY <1>1, Invariant, PTL

\* Nobody was ahead of the user, and the server refused: then the page and the
\* server disagree about the very situation he was shown, and would in it again.
RefusedWhereTheyDisagree ==
    \A k \in DOMAIN press.results :
        LET result == press.results[k] IN
        result.outcome = "refused" /\ result.at <= press.view =>
            <<press.command, Situation(press.view)>> \in Disagreements

\* Whatever the tables say, no interleaving of presses, answers, events and
\* other people's changes adds a refusal to those that come of a record that
\* went on or of a page that offers what the server may refuse.
THEOREM RefusalsAreDisagreements == Spec => []RefusedWhereTheyDisagree
<1>1. IInv => RefusedWhereTheyDisagree
  <2> SUFFICES ASSUME IInv, NEW k \in DOMAIN press.results,
                      press.results[k].outcome = "refused", press.results[k].at <= press.view
               PROVE  <<press.command, Situation(press.view)>> \in Disagreements
    BY DEF RefusedWhereTheyDisagree
  <2>1. IsTrue(press.command, press.view, press.results[k])
    BY DEF IInv, ResponsesAreTrue
  <2>2. press.results[k] \in Response /\ press.view \in Nat
    <3>1. press.results \in Seq(Response) /\ press.view \in Nat
      BY DEF IInv, Typed, PressTyped, Command
    <3> QED
      BY <3>1, ElementOfSeq
  <2> QED
    BY <2>1, <2>2 DEF IsTrue, Response
<1> QED
  BY <1>1, Invariant, PTL

\* Where the disagreements are the pairs listed, so are those refusals.
COROLLARY RefusedAlways == Spec => []RefusedOnlyWhenOvertaken
<1>1. IInv => RefusedOnlyWhenOvertaken
  BY UncheckedAssumption DEF IInv, ResponsesAreTrue, IsTrue, RefusedOnlyWhenOvertaken
<1> QED
  BY <1>1, Invariant, PTL

\* A button pressed again before the first answer does not carry its command
\* out twice, but for the commands listed, or after others brought the
\* situation back.
THEOREM EffectOnce == Spec => []TakesEffectOnce
<1>1. IInv => TakesEffectOnce
  BY DEF IInv
<1> QED
  BY <1>1, Invariant, PTL

\* A page never shows an older answer, with nothing refetching it, for another
\* reason than an event that is late, lost, swallowed or of other queries.
THEOREM StaleExplained == Spec => []StaleForAReason
<1>1. IInv => StaleForAReason
  BY DEF IInv, Fed, Covered, Excused, StaleForAReason, Missing
<1> QED
  BY <1>1, Invariant, PTL

\* The screen a command leads to is one its dialog may lead to.
LEMMA SucceedLeads ==
    ASSUME Typed, PressIsOffered, Succeed
    PROVE  /\ press.command \in DOMAIN Screens[screen].offers
           /\ screen' \in Destinations(screen, Pressed)
           /\ screen' \in ScreenNames
<1> USE DEF Typed
<1>1. press # NoPress /\ press.results # <<>>
  BY NoPressIsIdle DEF Succeed
<1>2. press.command \in DOMAIN Screens[screen].offers
  BY <1>1 DEF PressIsOffered
<1>3. screen' \in ScreenNames
  <2>1. [Next]_vars
    BY DEF Next
  <2> QED
    BY <2>1, ScreenFacts
<1>4. ASSUME Pressed.once PROVE LastResult
  <2>1. /\ press.results \in Seq(Response) /\ press.left \in 0..2
    BY DEF PressTyped, Command
  <2>2. Len(press.results) \in Nat /\ Len(press.results) # 0
    BY <1>1, <2>1, EmptySeq, LenProperties
  <2>3. press.left + Len(press.results) <= 1
    BY <1>1, <1>4 DEF PressIsOffered
  <2>4. ASSUME NEW left \in 0..2, NEW len \in Nat, len # 0, left + len <= 1
        PROVE  left = 0 /\ len = 1
    BY <2>4
  <2>5. press.left = 0 /\ Len(press.results) = 1
    BY <2>1, <2>2, <2>3, <2>4
  <2> QED
    BY <2>5 DEF LastResult
<1>5. screen' = IF LastResult /\ Pressed.opens # "" THEN Pressed.opens ELSE screen
  BY DEF Succeed
<1> QED
  BY <1>2, <1>3, <1>4, <1>5 DEF Destinations

LEMMA OwnChangeStep ==
    ASSUME IInv, Succeed
    PROVE  LET n == Head(press.results).at IN
           \/ Head(press.results).outcome = "kept"
           \/ ~Mounted(screen)' \/ ~log[n].shown
           \/ answer'.busy \/ answer'.held >= n
           \/ n \in wire \cup swallowed'
           \/ <<press.command, watched>> \in LeftBehind
<1> USE DEF IInv, Typed
<1>0. Now \in Nat /\ answer \in Entry
  BY LogFacts DEF CacheTyped
<1>1. PICK n : n = Head(press.results).at
  OBVIOUS
<1>2. PICK c : c = press.command
  OBVIOUS
<1>3. n \in Nat /\ n <= Now
  BY <1>1, ResponseFacts
<1>4. /\ c \in DOMAIN Screens[screen].offers
      /\ screen' \in Destinations(screen, Pressed) /\ screen' \in ScreenNames
  BY <1>2, SucceedLeads
<1> SUFFICES ASSUME Head(press.results).outcome # "kept", Mounted(screen)', log[n].shown,
                    <<c, watched>> \notin LeftBehind
             PROVE  answer'.busy \/ answer'.held >= n \/ n \in wire \cup swallowed'
  BY <1>1, <1>2
<1>5. Head(press.results).outcome = "made"
  <2>1. Head(press.results) \in Response
    BY ResponseFacts
  <2>2. Head(press.results).outcome # "refused"
    BY DEF Succeed
  <2> QED
    BY <2>1, <2>2 DEF Response
<1>6. n > 0 /\ Server[c].changes \cap Queries[watched].of # {}
  <2>1. IsTrue(press.command, press.view, Head(press.results))
    BY ResponseFacts DEF ResponsesAreTrue
  <2> QED
    BY <1>1, <1>2, <1>5, <2>1 DEF IsTrue, Shown
<1>7. watched' = watched /\ watched \in Screens[screen'].reads
  BY DEF Succeed, Mounted
<1>8. Root \in Pressed.refreshes \/ watched \in Pressed.writes
  <2>1. watched \in UNION {Screens[d].reads : d \in Destinations(screen, Screens[screen].offers[c])}
    BY <1>2, <1>4, <1>7 DEF Pressed
  <2>2. \/ Queries[watched].root \in Screens[screen].offers[c].refreshes
        \/ watched \in Screens[screen].offers[c].writes
    BY <1>4, <1>6, <2>1, LeftAssumption DEF RecordTyped
  <2> QED
    BY <1>2, <2>2 DEF Pressed, Root
<1>9. PICK r : r = Refreshed(answer)
  OBVIOUS
<1>10. PICK w : w = Written(r, n)
  OBVIOUS
<1>11. r \in Entry /\ w \in Entry
  BY <1>0, <1>3, <1>9, <1>10, InvalidateFacts, WrittenFacts DEF Refreshed
<1>12. PICK old \in BOOLEAN :
          /\ answer' = IF ~Mounted(screen) THEN Mount(w, old) ELSE w
          /\ swallowed' = swallowed \cup (IF Root \in Pressed.refreshes /\ Swallows THEN 1..n ELSE {})
                           \cup (IF watched \in Pressed.writes THEN (n + 1)..answer.held ELSE {})
  <2>1. watched \in Screens[screen'].reads
    BY <1>7
  <2>2. /\ answer' = IF ~Mounted(screen) THEN Mount(w, FALSE) ELSE w
        /\ swallowed' = swallowed \cup (IF Root \in Pressed.refreshes /\ Swallows THEN 1..n ELSE {})
                         \cup (IF watched \in Pressed.writes THEN (n + 1)..answer.held ELSE {})
    BY <1>1, <1>9, <1>10, <2>1 DEF Succeed, Mounted
  <2> QED
    BY <2>2
<1>13. w.busy => answer'.busy
  BY <1>0, <1>11, <1>12, MountFacts
\* The command's answer is put on display.
<1>14. CASE watched \in Pressed.writes
  <2>1. w.held = n
    BY <1>3, <1>10, <1>11, <1>14, WrittenFacts
  <2>2. answer'.held = n
    BY <1>0, <1>11, <1>12, <2>1, MountFacts
  <2> QED
    BY <1>3, <2>2
\* The answer on display, if there is one, is fetched again, ...
<1>15. CASE watched \notin Pressed.writes /\ Mounted(screen) /\ answer.has
  BY <1>0, <1>8, <1>3, <1>9, <1>10, <1>11, <1>13, <1>15, InvalidateFacts, WrittenFacts DEF Refreshed
\* ... a first fetch is left to finish, ...
<1>16. CASE watched \notin Pressed.writes /\ ~(Mounted(screen) /\ answer.has) /\ answer.busy
  <2>1. Swallows
    BY <1>16 DEF Swallows
  <2>2. n \in 1..n
    BY <1>3, <1>6
  <2> QED
    BY <1>8, <1>12, <1>16, <2>1, <2>2
\* ... and the screen opened fetches what was invalidated, or missing.
<1>17. CASE watched \notin Pressed.writes /\ ~(Mounted(screen) /\ answer.has) /\ ~answer.busy
  <2>1. ~Mounted(screen)
    BY <1>17 DEF Fed
  <2>2. w = r /\ (r.has => r.marked)
    BY <1>0, <1>3, <1>8, <1>9, <1>10, <1>11, <1>17, InvalidateFacts, WrittenFacts DEF Refreshed
  <2>3. ~w.busy
    BY <1>0, <1>9, <1>17, <2>2, InvalidateFacts DEF Refreshed
  <2> QED
    BY <1>0, <1>11, <1>12, <2>1, <2>2, <2>3, MountFacts
<1> QED
  BY <1>14, <1>15, <1>16, <1>17

\* Once the user's command is answered, the query on display that shows what
\* the command changed is fetched again or holds it, but for the pairs listed.
THEOREM OwnChangeAlwaysShows == Spec => OwnChangeShows
<1> DEFINE Shows ==
      Succeed =>
          LET n == Head(press.results).at IN
          \/ Head(press.results).outcome = "kept"
          \/ ~Mounted(screen)' \/ ~log[n].shown
          \/ answer'.busy \/ answer'.held >= n
          \/ n \in wire \cup swallowed'
          \/ <<press.command, watched>> \in LeftBehind
<1>1. IInv => Shows
  BY OwnChangeStep
<1>2. OwnChangeShows <=> [][Shows]_vars
  BY DEF OwnChangeShows
<1> HIDE DEF Shows
<1> QED
  BY <1>1, <1>2, Invariant, PTL

===============================================================================
