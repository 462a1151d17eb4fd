------------------------------ MODULE Workspace ------------------------------
(* One browser signed in to the ERP: the query cache behind the open screen,  *)
(* the realtime socket, the commands its buttons send, and the other people   *)
(* who change the same record meanwhile.                                      *)
(*                                                                            *)
(* The server's record goes through a log of changes; whatever the browser    *)
(* holds of it is an answer read after some prefix of that log.  The screens, *)
(* the commands and what the server accepts are constants: the modules        *)
(* *Screens describe the real ones, one definition per page or dialog.        *)
EXTENDS Naturals, Sequences, FiniteSets

CONSTANTS
    Screens,    \* name -> [family, reads, offers]: a page and its dialogs
    Server,     \* command -> [requires, moves, changes, announces, anywhere, ends]
    Queries,    \* query -> [root, of, polled]: the first part of its key, the
                \* kinds of record its answer is made of, refetched on a timer?
    Families,   \* family -> [start, drift]: first situations, what others do
    QueryRoots, \* entity type of an event -> the query roots it invalidates
    Unchecked,  \* <<command, situation>>: a page offers the command in it, and
                \* the server may refuse
    Repeatable, \* commands a second click repeats,
    Reopened,   \* and those it repeats once others brought the situation back
    LeftBehind, \* <<command, query>> shown, changed, and refreshed by nobody
    MaxChanges  \* bound on the length of the log

VARIABLES
    screen,     \* the screen on display
    watched,    \* the query followed: the queries of a page do not affect
                \* one another, so what holds of any one holds of all
    first,      \* the record's situation when the browser opened it
    log,        \* the changes committed since, in order: the situation each led
                \* to, does the watched query show it, does its event say so
    answer,     \* what the browser's cache holds of the watched query
    live,       \* is the socket open?
    wire,       \* changes whose event, one that invalidates the query, is on its way
    lost,       \* changes whose event never reached this browser, and
    swallowed,  \* changes it was told of while it could not fetch again, or that
                \* a command's older answer took off the display, until an
                \* answer shows them all the same
    press       \* the command the user has pressed, if any

vars == <<screen, watched, first, log, answer, live, wire, lost, swallowed, press>>

-------------------------------------------------------------------------------
Family == Screens[screen].family
ScreensOf(f) == {s \in DOMAIN Screens : Screens[s].family = f}

CommandsOf(f) == UNION {DOMAIN Screens[s].offers : s \in ScreensOf(f)}

QueryNames == DOMAIN Queries
ScreenNames == DOMAIN Screens

\* The screens a user goes to from each.
Others == [s \in DOMAIN Screens |-> ScreensOf(Screens[s].family) \ {s}]

\* The kinds of record that change while the browser looks at this family.
Moving(f) ==
    UNION ({Server[c].changes : c \in CommandsOf(f)} \cup {d.changes : d \in Families[f].drift})

\* The situations a record of the family can be in.
Around(moves) == DOMAIN moves \cup (UNION {moves[x] : x \in DOMAIN moves})
SituationsOf(f) ==
    Families[f].start
        \cup (UNION {Around(d.moves) : d \in Families[f].drift})
        \cup ((UNION {Around(Server[c].moves) : c \in CommandsOf(f)}) \ {"refused"})

\* What the server may do of a command: the situations it may leave behind, or
\* refuse.
Leaves(c, situation) ==
    IF Server[c].anywhere THEN {situation}
    ELSE IF situation \in DOMAIN Server[c].moves THEN Server[c].moves[situation]
    ELSE {"refused"}

Effects(c, situation) == Leaves(c, situation) \ {"refused"}

\* The server insists on the permissions, those of the commands it calls among
\* them, and on the input as well.  A button that did not ask for them may still
\* be pressed by someone who has them.
Lacks(c, offer) == ~(Server[c].requires \subseteq offer.asks)

\* The situations in which a screen shows a button.
OfferedIn(s, offer) == IF offer.on = "" THEN SituationsOf(Screens[s].family) ELSE offer.offered

\* Those of them in which the server may refuse its command all the same.
Refusable(s, c) ==
    LET offer == Screens[s].offers[c] IN
    {x \in OfferedIn(s, offer) : Lacks(c, offer) \/ "refused" \in Leaves(c, x)}

\* The commands offered where the server may refuse them, on whatever screen.
Disagreements ==
    UNION {UNION {{c} \X Refusable(s, c) : c \in DOMAIN Screens[s].offers} : s \in DOMAIN Screens}

\* The screen after the command: the one it opens, or else the same.
Destinations(s, offer) ==
    (IF offer.opens = "" THEN {} ELSE {offer.opens})
        \cup (IF offer.once /\ offer.opens # "" THEN {} ELSE {s})

-------------------------------------------------------------------------------
(* What the tables must say of each screen for the properties below.          *)
ASSUME BoundAssumption == MaxChanges \in Nat

\* Screens, queries, families and situations are those the tables list, and a
\* command moves to a screen of the same record.
ASSUME TablesAssumption ==
    /\ \A s \in ScreenNames :
          /\ Screens[s].family \in DOMAIN Families
          /\ Screens[s].reads \subseteq QueryNames
          /\ DOMAIN Screens[s].offers \subseteq DOMAIN Server \cap (STRING \ {""})
          /\ \A c \in DOMAIN Screens[s].offers :
                Destinations(s, Screens[s].offers[c]) \subseteq ScreensOf(Screens[s].family)
    /\ \A f \in DOMAIN Families : SituationsOf(f) \subseteq STRING

\* A command's answer is written only over queries of the screen.
ASSUME WritesAssumption ==
    \A s \in ScreenNames : \A c \in DOMAIN Screens[s].offers :
        Screens[s].offers[c].writes \subseteq Screens[s].reads

\* The pairs listed are the disagreements between pages and server, all of them
\* and nothing else.
ASSUME UncheckedAssumption == Unchecked = Disagreements

\* Situations in which the command is spent: it leads into them, has no effect
\* there, and others do not lead out of them.
Spent(f, c, spent) ==
    /\ \A x \in SituationsOf(f) : Effects(c, x) \subseteq spent
    /\ \A x \in spent : Effects(c, x) = {}
    /\ \/ c \in Reopened
       \/ \A d \in Families[f].drift : \A x \in spent \cap DOMAIN d.moves : d.moves[x] \subseteq spent

\* A button that stays enabled while its command is pending has one that is
\* spent once it is carried out, or is listed.
ASSUME AgainAssumption ==
    \A s \in ScreenNames : \A c \in DOMAIN Screens[s].offers :
        \/ Screens[s].offers[c].once \/ Server[c].ends \/ c \in Repeatable
        \/ \E spent \in SUBSET SituationsOf(Screens[s].family) :
               Spent(Screens[s].family, c, spent)

\* A command refreshes or writes every query on display that shows what it
\* changed, but for those listed.
ASSUME LeftAssumption ==
    \A s \in ScreenNames : \A c \in DOMAIN Screens[s].offers :
        LET offer == Screens[s].offers[c] IN
        \A q \in UNION {Screens[d].reads : d \in Destinations(s, offer)} :
            Server[c].changes \cap Queries[q].of # {} =>
                \/ Queries[q].root \in offer.refreshes \/ q \in offer.writes
                \/ <<c, q>> \in LeftBehind

\* The queries worth following: those whose answer may change.
QueriesOf(f) == {q \in UNION {Screens[s].reads : s \in ScreensOf(f)} :
                     Queries[q].of \cap Moving(f) # {}}

Root == Queries[watched].root
Shown(changes) == changes \cap Queries[watched].of # {}
Told(announces) == \E t \in announces : Root \in QueryRoots[t]
Mounted(s) == watched \in Screens[s].reads

\* The record's situation once the first n changes are made.
Situation(n) == IF n = 0 THEN first ELSE log[n].situation
Now == Len(log)

\* The changes an answer read after n of them does not show.
Missing(n) == {i \in (n + 1)..Now : log[i].shown}

NoPress == [command |-> "", view |-> 0, left |-> 0, made |-> {}, results |-> <<>>]
Pressed == Screens[screen].offers[press.command]

-------------------------------------------------------------------------------
\* A cache entry: nothing held and nothing asked.
Unheld == [has |-> FALSE, held |-> 0, marked |-> FALSE, busy |-> FALSE, asked |-> 0]
\* Mutant: the answer asked for counts as newer than the latest change.
FetchingAhead(entry) == [entry EXCEPT !.busy = TRUE, !.asked = Now + 1]

Fetching(entry) == [entry EXCEPT !.busy = TRUE, !.asked = Now]

\* Mutant: an invalidated answer is shown again until it is old.
MountByAgeOnly(entry, old) ==
    IF ~entry.busy /\ (~entry.has \/ old) THEN Fetching(entry) ELSE entry

\* useQuery mounts: no data starts a fetch, an invalidated answer refetches,
\* and so does one older than staleTime.
Mount(entry, old) ==
    IF ~entry.busy /\ (~entry.has \/ entry.marked \/ old) THEN Fetching(entry) ELSE entry

\* invalidateQueries: marks the answer; a mounted query that holds one cancels
\* the fetch in flight and starts another, a first load is left to finish.
Invalidate(entry) ==
    IF Mounted(screen) /\ entry.has
    THEN Fetching([entry EXCEPT !.marked = TRUE])
    ELSE [entry EXCEPT !.marked = entry.has]

\* A fetch that is left to finish clears the mark when its answer arrives.
Swallows == answer.busy /\ ~(Mounted(screen) /\ answer.has)

\* A change is committed, and its events go to the browsers that listen.
Commit(situation, changes, announces) ==
    LET told == IF Told(announces) THEN {Now + 1} ELSE {}
    IN  /\ Now < MaxChanges
        /\ log' = Append(log, [situation |-> situation, shown |-> Shown(changes),
                               told |-> Told(announces)])
        /\ wire' = IF live THEN wire \cup told ELSE wire
        /\ lost' = IF live THEN lost ELSE lost \cup told

-------------------------------------------------------------------------------
Init ==
    /\ screen \in DOMAIN Screens
    /\ watched \in QueriesOf(Family)
    /\ first \in Families[Family].start
    /\ log = <<>>
    /\ answer = [Unheld EXCEPT !.busy = Mounted(screen)]
    /\ live = TRUE
    /\ wire = {} /\ lost = {} /\ swallowed = {}
    /\ press = NoPress

\* The answer arrives: read some time between the request and now.
Receive ==
    /\ answer.busy
    /\ \E n \in answer.asked..Now :
          /\ answer' = [Unheld EXCEPT !.has = TRUE, !.held = n]
          /\ swallowed' = {i \in swallowed : i > n}
          /\ lost' = {i \in lost : i > n}
    /\ UNCHANGED <<screen, watched, first, log, live, wire, press>>

\* The user moves to another screen of the family; answers stay in the cache.
Open(s) ==
    /\ press = NoPress
    /\ screen' = s
    /\ \E old \in BOOLEAN :
          answer' = IF Mounted(s) /\ ~Mounted(screen) THEN Mount(answer, old) ELSE answer
    /\ UNCHANGED <<watched, first, log, live, wire, lost, swallowed, press>>

\* refetchInterval.
Poll ==
    /\ Queries[watched].polled /\ Mounted(screen)
    /\ ~answer.busy
    /\ answer' = Fetching(answer)
    /\ UNCHANGED <<screen, watched, first, log, live, wire, lost, swallowed, press>>

\* The answers a button may have been offered for: the watched one, a row kept
\* since the dialog was opened, or an answer of another query, which counts as
\* up to date: its own age is explored where it is the one watched.
Views(offer) ==
    IF offer.on = watched THEN {answer.held}
    ELSE IF offer.on = "" \/ offer.on \in QueryNames THEN {Now} ELSE 0..Now

\* Mutant: the button is offered whatever the situation.
OffersAnyway(offer, view) == offer.on = watched => answer.has

\* The screen has an answer, and what it shows is a situation to offer it in.
OffersFor(offer, view) ==
    /\ offer.on = watched => answer.has
    /\ offer.on # "" => Situation(view) \in offer.offered

\* Mutant: no button is disabled while its command is pending.
TimesEnabled(offer) == {1, 2}

\* A button that is not disabled while its command is pending can be pressed
\* again.
Times(offer) == IF offer.once THEN {1} ELSE {1, 2}

Press(c) ==
    LET offer == Screens[screen].offers[c] IN
    /\ press = NoPress /\ Now < MaxChanges
    /\ \E view \in Views(offer), times \in Times(offer) :
          /\ OffersFor(offer, view)
          /\ press' = [NoPress EXCEPT !.command = c, !.view = view, !.left = times]
    /\ UNCHANGED <<screen, watched, first, log, answer, live, wire, lost, swallowed>>

\* A second request for a target that is gone is refused.
Results(c) ==
    IF Server[c].ends /\ press.made # {} THEN {"refused"} ELSE Leaves(c, Situation(Now))

Outcome(outcome) ==
    [press EXCEPT !.left = @ - 1,
                  !.made = IF outcome = "made" THEN @ \cup {Now + 1} ELSE @,
                  !.results = Append(@, [outcome |-> outcome,
                                         at |-> IF outcome = "made" THEN Now + 1 ELSE Now])]

\* The server carries the command out and publishes its events.
Carry ==
    LET c == press.command IN
    /\ press.left > 0
    /\ \E to \in Results(c) \ {"refused"} :
          Commit(to, Server[c].changes, Server[c].announces)
    /\ press' = Outcome("made")
    /\ UNCHANGED <<screen, watched, first, answer, live, swallowed>>

\* The server finds nothing left to do, or refuses: nothing changes.
Decline ==
    LET c == press.command IN
    /\ press.left > 0
    /\ \/ Results(c) = {} /\ press' = Outcome("kept")
       \/ (Lacks(c, Pressed) \/ "refused" \in Results(c)) /\ press' = Outcome("refused")
    /\ UNCHANGED <<screen, watched, first, log, answer, live, wire, lost, swallowed>>

LastResult == press.left = 0 /\ Len(press.results) = 1
Answered == IF LastResult THEN NoPress ELSE [press EXCEPT !.results = Tail(@)]

\* Mutant: the command leaves its queries to the event it causes.
LeftToItsEvent(entry) == entry

Refreshed(entry) == IF Root \in Pressed.refreshes THEN Invalidate(entry) ELSE entry

\* setQueryData with the row the command answered.
Written(entry, n) ==
    IF watched \in Pressed.writes
    THEN [entry EXCEPT !.has = TRUE, !.held = n, !.marked = FALSE] ELSE entry

\* onSuccess: invalidateQueries, setQueryData, and the screen it moves to.
Succeed ==
    LET n == Head(press.results).at
        told == Root \in Pressed.refreshes
        written == Written(Refreshed(answer), n)
    IN  /\ press.results # <<>> /\ Head(press.results).outcome # "refused"
        /\ screen' = IF LastResult /\ Pressed.opens # "" THEN Pressed.opens ELSE screen
        /\ answer' = IF Mounted(screen') /\ ~Mounted(screen) THEN Mount(written, FALSE)
                                                             ELSE written
        /\ swallowed' = swallowed \cup (IF told /\ Swallows THEN 1..n ELSE {})
                                 \cup (IF watched \in Pressed.writes THEN (n + 1)..answer.held ELSE {})
        /\ press' = Answered
        /\ UNCHANGED <<watched, first, log, live, wire, lost>>

\* onError shows the message: no query is refetched.
Fail ==
    /\ press.results # <<>> /\ Head(press.results).outcome = "refused"
    /\ press' = Answered
    /\ UNCHANGED <<screen, watched, first, log, answer, live, wire, lost, swallowed>>

\* Somebody else changes the record.
Elsewhere ==
    /\ \E d \in Families[Family].drift :
          /\ Situation(Now) \in DOMAIN d.moves
          /\ \E to \in d.moves[Situation(Now)] : Commit(to, d.changes, d.announces)
    /\ UNCHANGED <<screen, watched, first, answer, live, swallowed, press>>

\* A message of the socket invalidates the roots its entity type stands for.
Deliver ==
    /\ \E i \in wire :
          /\ wire' = wire \ {i}
          /\ swallowed' = IF Swallows THEN swallowed \cup 1..i ELSE swallowed
    /\ answer' = Invalidate(answer)
    /\ UNCHANGED <<screen, watched, first, log, live, lost, press>>

\* The socket closes: what was on its way is gone.
Disconnect ==
    /\ live
    /\ live' = FALSE
    /\ lost' = lost \cup wire
    /\ wire' = {}
    /\ UNCHANGED <<screen, watched, first, log, answer, swallowed, press>>

\* The backed-off timer reconnects and renews the subscriptions; no query is
\* touched.  When the browser itself had been offline, the query library
\* refetches the mounted queries whose answer is no longer fresh.
Reconnect ==
    /\ ~live
    /\ live' = TRUE
    /\ \E offline, old \in BOOLEAN :
          answer' = IF offline /\ Mounted(screen) THEN Mount(answer, old) ELSE answer
    /\ UNCHANGED <<screen, watched, first, log, wire, lost, swallowed, press>>

Next ==
    \/ Receive \/ Poll
    \/ \E s \in Others[screen] : Open(s)
    \/ \E c \in DOMAIN Screens[screen].offers : Press(c)
    \/ Carry \/ Decline \/ Succeed \/ Fail
    \/ Elsewhere \/ Deliver \/ Disconnect \/ Reconnect

Spec == Init /\ [][Next]_vars

-------------------------------------------------------------------------------
TypeOK ==
    /\ screen \in ScreenNames /\ watched \in QueryNames
    /\ log \in Seq([situation : STRING, shown : BOOLEAN, told : BOOLEAN])
    /\ Now \in 0..MaxChanges
    /\ answer \in [has : BOOLEAN, held : 0..Now, marked : BOOLEAN,
                   busy : BOOLEAN, asked : 0..Now]
    /\ live \in BOOLEAN
    /\ wire \subseteq 1..Now /\ lost \subseteq 1..Now /\ swallowed \subseteq 1..Now
    /\ press.left \in 0..2 /\ press.made \subseteq 1..Now

\* A command the screen offers is refused only when the record changed after
\* the answer the user was looking at was read, or in one of the situations
\* listed: of the statuses, permissions and inputs the server insists on, there
\* alone is one the page did not look at before it offered the button.
RefusedOnlyWhenOvertaken ==
    \A k \in DOMAIN press.results :
        LET result == press.results[k] IN
        \/ result.outcome # "refused" \/ result.at > press.view
        \/ <<press.command, Situation(press.view)>> \in Unchecked

\* However often a button is pressed before its first answer, the command takes
\* effect once, unless somebody else brings its situation back in between.
TakesEffectOnce ==
    \A i, j \in press.made : i < j =>
        \/ press.command \in Repeatable
        \/ press.command \in Reopened /\ j > i + 1

\* An answer on display that is out of date, and that nothing is refetching, is
\* so for a known reason: the event is still on its way, was lost with the
\* socket, came while the query could not start another fetch, was overwritten
\* by a command's older answer, or stands for other queries than this one.
StaleForAReason ==
    Mounted(screen) /\ answer.has /\ ~answer.busy =>
        \A i \in Missing(answer.held) :
            i \in wire \cup lost \cup swallowed \/ ~log[i].told

\* Once the user's command is answered, no query on display that shows what the
\* command changed is left with an older answer.
OwnChangeShows ==
    [][ Succeed =>
          LET n == Head(press.results).at IN
          \/ Head(press.results).outcome = "kept"
          \/ ~Mounted(screen)' \/ ~log[n].shown
          \/ answer'.busy \/ answer'.held >= n
          \/ n \in wire \cup swallowed'
          \/ <<press.command, watched>> \in LeftBehind ]_vars
===============================================================================
