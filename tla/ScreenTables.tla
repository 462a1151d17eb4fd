---------------------------- MODULE ScreenTables ----------------------------
(* The vocabulary in which the *Screens modules describe the pages of the     *)
(* browser application and the commands of the server they call.             *)
EXTENDS TLC

\* A query: the first part of its key and the kinds of record it answers with.
Query(root, of) == [root |-> root, of |-> of, polled |-> FALSE]
Timed(query) == [query EXCEPT !.polled = TRUE]

\* A button or a form: the query whose answer decides whether it is offered
\* ("" when none does), the situations in which it is, the permissions and the
\* inputs without which it is not, and the query roots it invalidates when the
\* command succeeds.  It is disabled while the command is pending.
Offer(on, offered, asks, refreshes) ==
    [on |-> on, offered |-> offered, asks |-> asks, refreshes |-> refreshes,
     writes |-> {}, once |-> TRUE, opens |-> ""]
Again(offer) == [offer EXCEPT !.once = FALSE]
Writing(offer, queries) == [offer EXCEPT !.writes = queries]
Opening(offer, name) == [offer EXCEPT !.opens = name]

\* A page with its dialogs.
Screen(family, reads, offers) == [family |-> family, reads |-> reads, offers |-> offers]

\* The page of another record, which shows none of this one's queries.
AnotherRecord(family) == Screen(family, {}, <<>>)

\* A command of the server: the permissions and inputs it insists on, those of
\* the commands it calls among them (not: how inputs are written), the
\* situations it accepts and those it may leave behind (none: nothing is left
\* to do; "refused": something else may be missing), the kinds of record it
\* changes and the entity types of the events it publishes.
Command(requires, moves, changes, announces) ==
    [requires |-> requires, moves |-> moves, changes |-> changes, announces |-> announces,
     anywhere |-> FALSE, ends |-> FALSE]

\* A command whose target is gone once it is carried out.
Ending(command) == [command EXCEPT !.ends = TRUE]

\* A command accepted in every situation, which it leaves as it is.
Anywhere(requires, changes, announces) ==
    [Command(requires, <<>>, changes, announces) EXCEPT !.anywhere = TRUE]

\* What other people do to a record of the family, under the same rules.
Drift(moves, changes, announces) ==
    [moves |-> moves, changes |-> changes, announces |-> announces]
=============================================================================
