-------------------------------- MODULE Drafts --------------------------------
(* Several people edit one record, each in a form of their own browser.  A    *)
(* form is filled from an answer of the server, its text is typed over, and   *)
(* saving sends the text with a version; meanwhile new answers arrive.  How a *)
(* form treats them, and which version it sends, differs from page to page.   *)
EXTENDS Naturals, Sequences, FiniteSets

CONSTANTS
    Editors,      \* the people with the form open
    Forms,        \* name -> [refills, mounts, marks, sends, closes]
    Overwriting,  \* forms that replace what their user has not seen
    Dropping,     \* <<form, loss>>: what a changed answer takes from a form
    MaxVersion    \* bound on the record's version

(* refills: what a changed answer does to the text: "never", "when clean" or  *)
(* "always".  mounts: is the form built anew "per version" or "per revision"  *)
(* of the answer, by its React key, or "once"?  marks: does every edit mark   *)
(* the form as dirty?  sends: the version "filled" with the text, that of the *)
(* answer "shown", or "none".  closes: does the form close once it is saved?  *)
FormNames == DOMAIN Forms
Form == [refills : {"never", "when clean", "always"},
         mounts : {"once", "per revision", "per version"}, marks : BOOLEAN,
         sends : {"filled", "shown", "none"}, closes : BOOLEAN]

\* What may be lost: text of a form the answer of another revision replaces,
\* and otherwise text that was marked as an edit or was not.
Loss == {"another revision", "marked", "unmarked"}

Loses(f, loss) ==
    \/ Forms[f].refills = "always" \/ Forms[f].mounts = "per version"
    \/ loss = "another revision" /\ Forms[f].mounts = "per revision"
    \/ loss # "marked" /\ Forms[f].refills = "when clean" /\ ~Forms[f].marks

ASSUME BoundAssumption == MaxVersion \in Nat
ASSUME FormsAssumption == \A f \in FormNames : Forms[f] \in Form

\* The forms known to do what the properties below forbid, and no others.
ASSUME ExceptionsAssumption ==
    /\ Overwriting = {f \in FormNames : Forms[f].sends # "filled"}
    /\ Dropping = {p \in FormNames \X Loss : Loses(p[1], p[2])}

VARIABLES
    form,     \* the form they all use
    authors,  \* who wrote each version of the record since the first
    revised,  \* the versions that began another revision of the record
    answer,   \* editor -> the version the browser's cache holds
    draft,    \* editor -> the form
    request   \* editor -> the save under way, and what the server said of it

vars == <<form, authors, revised, answer, draft, request>>

-------------------------------------------------------------------------------
Version == Len(authors)
Versions == 0..MaxVersion
Colleague == "colleague"   \* somebody who writes without this form
People == Editors \cup {Colleague}

\* text: the version the text was filled from; base: the version kept with it;
\* typed: does it hold words not saved; dirty: does the form know it; waits:
\* for the answer to its save; conflict: the notice that stops it.
Draft == [open : BOOLEAN, text : Versions, base : Versions,
          typed : BOOLEAN, dirty : BOOLEAN, waits : BOOLEAN, conflict : BOOLEAN]
Request == [state : {"none", "sent", "saved", "refused"}, text : Versions, version : Versions]

Closed == [open |-> FALSE, text |-> 0, base |-> 0,
           typed |-> FALSE, dirty |-> FALSE, waits |-> FALSE, conflict |-> FALSE]
FilledFrom(n) == [Closed EXCEPT !.open = TRUE, !.text = n, !.base = n]
FilledAgain(d, n) == [FilledFrom(n) EXCEPT !.waits = d.waits]
Idle == [state |-> "none", text |-> 0, version |-> 0]

\* Mutant: a dirty form keeps its text and takes the new version.
SettleVersionOnly(d, n) ==
    IF d.dirty THEN [d EXCEPT !.base = n] ELSE FilledAgain(d, n)

\* Mutant: the effect does not look whether the form is dirty.
SettleTypedToo(d, n) == IF n = d.base THEN d ELSE FilledAgain(d, n)

\* The quotation builder's effect: an answer of another version refills a
\* clean form and stops a dirty one.
Settle(d, n) ==
    IF n = d.base THEN d
    ELSE IF d.dirty THEN [d EXCEPT !.conflict = TRUE]
    ELSE [FilledAgain(d, n) EXCEPT !.conflict = d.conflict]

OtherRevision(m, n) == \E k \in revised : m < k /\ k <= n

\* Does React drop the form, and build another, when the answer changes?
Remounts(m, n) ==
    \/ Forms[form].mounts = "per version"
    \/ Forms[form].mounts = "per revision" /\ OtherRevision(m, n)

\* What becomes of an open form when the answer changes from m to n.
Refill(d, m, n) ==
    IF ~d.open \/ m = n THEN d
    ELSE IF Remounts(m, n) THEN FilledFrom(n)
    ELSE CASE Forms[form].refills = "never" -> d
           [] Forms[form].refills = "when clean" -> Settle(d, n)
           [] Forms[form].refills = "always" -> FilledAgain(d, n)

\* Mutant: the form counts the version on by itself.
SavedAhead(d, m, n) == IF Forms[form].closes THEN Closed ELSE FilledFrom(n + 1)

\* What becomes of the form when its save is answered with version n.  The
\* builder takes the saved text, then compares it with the answer it still has.
Saved(d, m, n) ==
    IF ~d.waits THEN d
    ELSE IF Forms[form].closes THEN Closed
    ELSE IF Forms[form].refills = "when clean" THEN Settle(FilledFrom(n), m)
    ELSE [d EXCEPT !.waits = FALSE]

-------------------------------------------------------------------------------
Init ==
    /\ form \in FormNames
    /\ authors = <<>> /\ revised = {}
    /\ answer = [e \in Editors |-> 0]
    /\ draft = [e \in Editors |-> Closed]
    /\ request = [e \in Editors |-> Idle]

\* The form is filled from the answer at hand, however old.
Open(e) ==
    /\ ~draft[e].open
    /\ draft' = [draft EXCEPT ![e] = FilledFrom(answer[e])]
    /\ UNCHANGED <<form, authors, revised, answer, request>>

\* The user leaves, or the page, or the whole workspace, gives way to the
\* error of a refetch.
Leave(e) ==
    /\ draft[e].open
    /\ draft' = [draft EXCEPT ![e] = Closed]
    /\ UNCHANGED <<form, authors, revised, answer, request>>

\* An event, a stale mount or the network's return refetches the answer.
Refetch(e) ==
    /\ answer[e] # Version
    /\ answer' = [answer EXCEPT ![e] = Version]
    /\ draft' = [draft EXCEPT ![e] = Refill(@, answer[e], Version)]
    /\ UNCHANGED <<form, authors, revised, request>>

\* The fields stay enabled while a save is under way.
Type(e) ==
    /\ draft[e].open /\ ~draft[e].conflict
    /\ draft' = [draft EXCEPT ![e].typed = TRUE, ![e].dirty = TRUE]
    /\ UNCHANGED <<form, authors, revised, answer, request>>

\* The builder's button that removes a line.
Remove(e) ==
    /\ draft[e].open /\ ~draft[e].conflict
    /\ ~Forms[form].marks
    /\ draft' = [draft EXCEPT ![e].typed = TRUE]
    /\ UNCHANGED <<form, authors, revised, answer, request>>

\* The button is disabled while its save is pending; bound: so is that of a
\* form opened or built anew meanwhile.
Save(e) ==
    /\ draft[e].open /\ ~draft[e].conflict
    /\ request[e].state = "none"
    /\ draft' = [draft EXCEPT ![e].waits = TRUE]
    /\ request' = [request EXCEPT ![e] =
                      [state |-> "sent", text |-> draft[e].text,
                       version |-> IF Forms[form].sends = "shown" THEN answer[e] ELSE draft[e].base]]
    /\ UNCHANGED <<form, authors, revised, answer>>

\* The server locks the row, compares the versions where one is sent, writes.
Write(e) ==
    /\ request[e].state = "sent"
    /\ Version < MaxVersion
    /\ IF Forms[form].sends # "none" /\ request[e].version # Version
       THEN /\ request' = [request EXCEPT ![e].state = "refused"]
            /\ UNCHANGED authors
       ELSE /\ request' = [request EXCEPT ![e].state = "saved", ![e].version = Version + 1]
            /\ authors' = Append(authors, e)
    /\ UNCHANGED <<form, revised, answer, draft>>

\* onSuccess, after which the queries are refetched, and onError: a version
\* conflict stops the quotation builder, other refusals and forms only tell.
Succeed(e) ==
    /\ request[e].state = "saved"
    /\ draft' = [draft EXCEPT ![e] = Saved(@, answer[e], request[e].version)]
    /\ request' = [request EXCEPT ![e] = Idle]
    /\ UNCHANGED <<form, authors, revised, answer>>

Fail(e) ==
    /\ request[e].state = "refused"
    /\ \E stops \in BOOLEAN :
          /\ stops => draft[e].waits /\ Forms[form].refills = "when clean"
          /\ draft' = [draft EXCEPT ![e].conflict = @ \/ stops, ![e].waits = FALSE]
    /\ request' = [request EXCEPT ![e] = Idle]
    /\ UNCHANGED <<form, authors, revised, answer>>

\* "Load latest version" fills the form from the answer at hand.
LoadLatest(e) ==
    /\ draft[e].conflict
    /\ draft' = [draft EXCEPT ![e] = FilledAgain(@, answer[e])]
    /\ UNCHANGED <<form, authors, revised, answer, request>>

\* Somebody changes the record by another command, or begins a new revision.
Elsewhere ==
    /\ Version < MaxVersion
    /\ authors' = Append(authors, Colleague)
    /\ \E begun \in SUBSET {Version + 1} : revised' = revised \cup begun
    /\ UNCHANGED <<form, answer, draft, request>>

Next ==
    \/ \E e \in Editors :
          \/ Open(e) \/ Leave(e) \/ Refetch(e) \/ Type(e) \/ Remove(e) \/ Save(e)
          \/ Write(e) \/ Succeed(e) \/ Fail(e) \/ LoadLatest(e)
    \/ Elsewhere

Spec == Init /\ [][Next]_vars

-------------------------------------------------------------------------------
TypeOK ==
    /\ form \in FormNames
    /\ authors \in Seq(People) /\ Version \in Versions
    /\ revised \subseteq Versions
    /\ answer \in [Editors -> Versions]
    /\ draft \in [Editors -> Draft]
    /\ request \in [Editors -> Request]

\* A save replaces only what its user's form was filled from: nobody's change
\* is overwritten by one who never saw it.
NoSilentOverwrite ==
    [][\A e \in Editors :
          request[e].state = "sent" /\ request'[e].state = "saved" =>
              request[e].text = Version \/ form \in Overwriting]_vars

\* What is lost when the answer of an editor changes.
LossOf(e) ==
    IF OtherRevision(answer[e], answer'[e]) THEN "another revision"
    ELSE IF draft[e].dirty THEN "marked" ELSE "unmarked"

\* As long as a form stays open typed text leaves it by the answer to its own
\* save or by its user's hand, never because somebody else's change has
\* arrived.
UnsavedTextKept ==
    [][\A e \in Editors :
          draft[e].typed /\ draft'[e].open /\ ~draft'[e].typed =>
              \/ Succeed(e) \/ LoadLatest(e)
              \/ <<form, LossOf(e)>> \in Dropping]_vars
===============================================================================
