-------------------------------- MODULE Intake --------------------------------
(* How an enquiry enters the ERP from the company's website and becomes an    *)
(* enquiry of a salesperson (backend/apps/external_enquiries).  The website   *)
(* repeats a delivery whose answer it missed, several web processes serve the *)
(* deliveries at once, and any of them may stop between two steps.  The rows  *)
(* of a delivery or of a conversion are one transaction; its files and, for a *)
(* delivery, its event are outside.                                           *)
EXTENDS Naturals, FiniteSets

CONSTANTS
    Delivery,   \* the signed requests the website sends
    Scenarios,  \* functions from deliveries to what they say
    Attempt     \* the conversions staff ask for, each served once

\* submission, key and request are the identifiers the rows are unique by,
\* checksum stands for the content, files for its attachments; twins: are two
\* of them the same file?
Message == [credential : STRING, submission : STRING, key : STRING, request : STRING,
            checksum : STRING, files : Nat, twins : BOOLEAN]
ASSUME ScenariosAssumption == Scenarios \subseteq [Delivery -> Message]
\* A stored file is named after the one who stored it.
ASSUME ApartAssumption == Delivery \cap Attempt = {}

VARIABLES
    sent,       \* delivery -> what it says
    handler,    \* delivery -> where the web process serving it is
    reply,      \* delivery -> what the website was answered
    rows,       \* the committed submissions, each named by its delivery
    review,     \* delivery -> review_status of its submission
    announced,  \* submissions whose external_enquiry.received was published
    attempt,    \* attempt -> where it is, and the submission it converts
    files       \* the files in storage: <<who stored it, number>>

vars == <<sent, handler, reply, rows, review, announced, attempt, files>>

-------------------------------------------------------------------------------
Serving == {"looking", "clear", "validated", "storing", "clashed", "committed"}
AttemptStates == {"copying", "converted", "refused", "store failed", "dead"}
Replies == {"none", "created", "received", "conflict", "failed", "store failed"}

\* NEW, POSSIBLE_DUPLICATE and NEEDS_REVIEW are under review, REJECTED and SPAM
\* are set aside.
ReviewStatus == {"none", "under review", "set aside", "CONVERTED"}

FileNumbers(d) == 1..sent[d].files
StoredBy(x) == {f \in files : f[1] = x}
NextFile(x) == <<x, Cardinality(StoredBy(x)) + 1>>

\* A store that fails leaves what it had written of the file in hand, and the
\* files it will not delete either.
LeftBehind(x, numbers) == SUBSET (StoredBy(x) \cup ({NextFile(x)} \cap ({x} \X numbers)))

SameSource(d, e) == sent[d].credential = sent[e].credential

\* unique_external_submission, unique_external_idempotency and
\* unique_external_request: all deliveries are to one company.
Clash(d, e) ==
    \/ sent[d].submission = sent[e].submission
    \/ SameSource(d, e) /\ (sent[d].key = sent[e].key \/ sent[d].request = sent[e].request)

\* _existing_submission: only the credential's own rows.
Existing(d) ==
    {r \in rows : SameSource(d, r) /\ (sent[d].key = sent[r].key
                                       \/ sent[d].submission = sent[r].submission)}

\* Mutant: the checksums are not compared.
IdempotentByKey(d, r) == "received"

\* _idempotent: the answer to a delivery whose submission exists.
Idempotent(d, r) ==
    IF sent[d].checksum = sent[r].checksum THEN "received" ELSE "conflict"

Answer(d, what) ==
    /\ handler' = [handler EXCEPT ![d] = "answered"]
    /\ reply' = [reply EXCEPT ![d] = what]

-------------------------------------------------------------------------------
Init ==
    /\ sent \in Scenarios
    /\ handler = [d \in Delivery |-> "unsent"]
    /\ reply = [d \in Delivery |-> "none"]
    /\ rows = {} /\ announced = {} /\ files = {}
    /\ review = [d \in Delivery |-> "none"]
    /\ attempt = [a \in Attempt |-> [state |-> "unsent"]]

\* The website sends the request, or sends it once more.
Send(d) ==
    /\ handler[d] = "unsent"
    /\ handler' = [handler EXCEPT ![d] = "looking"]
    /\ UNCHANGED <<sent, reply, rows, review, announced, attempt, files>>

\* create_submission looks for the submission before anything else.
Look(d) ==
    /\ handler[d] = "looking"
    /\ IF Existing(d) = {}
       THEN handler' = [handler EXCEPT ![d] = "clear"] /\ UNCHANGED reply
       ELSE \E r \in Existing(d) : Answer(d, Idempotent(d, r))
    /\ UNCHANGED <<sent, rows, review, announced, attempt, files>>

\* save() runs full_clean, whose queries see what is committed: such a clash is
\* a ValidationError, and nothing looks again after one.
Validate(d) ==
    /\ handler[d] = "clear"
    /\ IF \E r \in rows : Clash(d, r)
       THEN Answer(d, "failed")
       ELSE handler' = [handler EXCEPT ![d] = "validated"] /\ UNCHANGED reply
    /\ UNCHANGED <<sent, rows, review, announced, attempt, files>>

\* Mutant: the delivery goes on waiting for a row that was committed.
InsertWaitsOn(d) ==
    /\ handler[d] = "validated"
    /\ \A e \in Delivery : handler[e] = "storing" \/ e \in rows => ~Clash(d, e)
    /\ handler' = [handler EXCEPT ![d] = "storing"]
    /\ UNCHANGED <<sent, reply, rows, review, announced, attempt, files>>

\* The INSERT waits for transactions that hold one of its identifiers; it
\* raises an IntegrityError if one was committed since full_clean looked.
Insert(d) ==
    /\ handler[d] = "validated"
    /\ \A e \in Delivery : handler[e] = "storing" => ~Clash(d, e)
    /\ handler' = [handler EXCEPT ![d] =
                      IF \E r \in rows : Clash(d, r) THEN "clashed" ELSE "storing"]
    /\ UNCHANGED <<sent, reply, rows, review, announced, attempt, files>>

\* An attachment is stored under a key of its own, then its row is inserted;
\* the second of two equal files violates unique_external_attachment_checksum.
StoreFile(d) ==
    /\ handler[d] = "storing" /\ NextFile(d)[2] \in FileNumbers(d)
    /\ IF sent[d].twins /\ StoredBy(d) # {}
       THEN /\ handler' = [handler EXCEPT ![d] = "clashed"]
            /\ files' = files \ StoredBy(d)
       ELSE /\ files' = files \cup {NextFile(d)}
            /\ UNCHANGED handler
    /\ UNCHANGED <<sent, reply, rows, review, announced, attempt>>

\* The store fails, at a file or at deleting one: the rows are rolled back.
StoreFails(d) ==
    /\ handler[d] = "storing"
    /\ Answer(d, "store failed")
    /\ \E left \in LeftBehind(d, FileNumbers(d)) : files' = (files \ StoredBy(d)) \cup left
    /\ UNCHANGED <<sent, rows, review, announced, attempt>>

\* Mutant: the event is published before the rows are committed.
CommitAnnounced(d) ==
    /\ handler[d] = "storing"
    /\ handler' = [handler EXCEPT ![d] = "committed"]
    /\ announced' = announced \cup {d}
    /\ UNCHANGED <<sent, reply, rows, review, attempt, files>>

\* What looks like spam begins set aside.
Commit(d) ==
    /\ handler[d] = "storing" /\ NextFile(d)[2] \notin FileNumbers(d)
    /\ handler' = [handler EXCEPT ![d] = "committed"]
    /\ rows' = rows \cup {d}
    /\ \E status \in {"under review", "set aside"} :
          review' = [review EXCEPT ![d] = status]
    /\ UNCHANGED <<sent, reply, announced, attempt, files>>

\* Mutant: the new submission is answered like one that existed.
PublishNothing(d) ==
    /\ handler[d] = "committed"
    /\ Answer(d, "created")
    /\ UNCHANGED <<sent, rows, review, announced, attempt, files>>

\* The view publishes the event when the transaction is over.
Publish(d) ==
    /\ handler[d] = "committed"
    /\ announced' = announced \cup {d}
    /\ Answer(d, "created")
    /\ UNCHANGED <<sent, rows, review, attempt, files>>

\* After an IntegrityError it looks again: another delivery may have made it.
LookAgain(d) ==
    /\ handler[d] = "clashed"
    /\ IF Existing(d) = {} THEN Answer(d, "failed")
       ELSE \E r \in Existing(d) : Answer(d, Idempotent(d, r))
    /\ UNCHANGED <<sent, rows, review, announced, attempt, files>>

\* The web process stops; the database rolls its transaction back.
Crash(d) ==
    /\ handler[d] \in Serving
    /\ handler' = [handler EXCEPT ![d] = "dead"]
    /\ UNCHANGED <<sent, reply, rows, review, announced, attempt, files>>

-------------------------------------------------------------------------------
Locked(r) == \E a \in Attempt : attempt[a].state = "copying" /\ attempt[a].of = r

\* decide_submission; assign_submission keeps a submission under review.
Decide(r) ==
    /\ ~Locked(r) /\ review[r] # "CONVERTED"
    /\ \E status \in {"under review", "set aside"} :
          review' = [review EXCEPT ![r] = status]
    /\ UNCHANGED <<sent, handler, reply, rows, announced, attempt, files>>

\* Mutant: the status is not read again under the lock.
BeginConversionBlindly(a, r) ==
    /\ attempt[a].state = "unsent"
    /\ ~Locked(r)
    /\ attempt' = [attempt EXCEPT ![a] = [state |-> "copying", of |-> r]]
    /\ UNCHANGED <<sent, handler, reply, rows, review, announced, files>>

\* convert_submission locks the row, then looks at its status.
BeginConversion(a, r) ==
    /\ attempt[a].state = "unsent"
    /\ ~Locked(r)
    /\ attempt' = [attempt EXCEPT ![a] =
                      [state |-> IF review[r] = "under review" THEN "copying" ELSE "refused",
                       of |-> r]]
    /\ UNCHANGED <<sent, handler, reply, rows, review, announced, files>>

\* _promote_attachment copies a file of the submission for its document.
CopyFile(a) ==
    /\ attempt[a].state = "copying"
    /\ NextFile(a)[2] \in FileNumbers(attempt[a].of)
    /\ <<attempt[a].of, NextFile(a)[2]>> \in files
    /\ files' = files \cup {NextFile(a)}
    /\ UNCHANGED <<sent, handler, reply, rows, review, announced, attempt>>

\* The customer, contact, enquiry, documents and the event commit together.
CommitConversion(a) ==
    /\ attempt[a].state = "copying"
    /\ NextFile(a)[2] \notin FileNumbers(attempt[a].of)
    /\ attempt' = [attempt EXCEPT ![a].state = "converted"]
    /\ review' = [review EXCEPT ![attempt[a].of] = "CONVERTED"]
    /\ UNCHANGED <<sent, handler, reply, rows, announced, files>>

\* Mutant: the files the submission owns are deleted with the copies.
FailAndClear(a) ==
    /\ attempt[a].state = "copying"
    /\ attempt' = [attempt EXCEPT ![a].state = "refused"]
    /\ files' = files \ (StoredBy(a) \cup StoredBy(attempt[a].of))
    /\ UNCHANGED <<sent, handler, reply, rows, review, announced>>

\* Mutant: the copies are left to the transaction, which knows nothing of them.
FailAndForget(a) ==
    /\ attempt[a].state = "copying"
    /\ attempt' = [attempt EXCEPT ![a].state = "refused"]
    /\ UNCHANGED <<sent, handler, reply, rows, review, announced, files>>

\* Any of its checks may fail: the copies it finished are deleted.
FailConversion(a) ==
    /\ attempt[a].state = "copying"
    /\ attempt' = [attempt EXCEPT ![a].state = "refused"]
    /\ files' = files \ StoredBy(a)
    /\ UNCHANGED <<sent, handler, reply, rows, review, announced>>

\* A copy is noted for deletion once it is whole: a store that fails at one
\* leaves its part of it.
CopyFails(a) ==
    /\ attempt[a].state = "copying"
    /\ attempt' = [attempt EXCEPT ![a].state = "store failed"]
    /\ \E left \in LeftBehind(a, FileNumbers(attempt[a].of)) :
          files' = (files \ StoredBy(a)) \cup left
    /\ UNCHANGED <<sent, handler, reply, rows, review, announced>>

CrashConversion(a) ==
    /\ attempt[a].state = "copying"
    /\ attempt' = [attempt EXCEPT ![a].state = "dead"]
    /\ UNCHANGED <<sent, handler, reply, rows, review, announced, files>>

-------------------------------------------------------------------------------
Serve(d) ==
    \/ Look(d) \/ Validate(d) \/ Insert(d) \/ StoreFile(d) \/ StoreFails(d)
    \/ Commit(d) \/ Publish(d) \/ LookAgain(d)

Convert(a) == CopyFile(a) \/ CommitConversion(a) \/ FailConversion(a) \/ CopyFails(a)

Next ==
    \/ \E d \in Delivery : Send(d) \/ Serve(d) \/ Crash(d)
    \/ \E r \in rows : Decide(r) \/ \E a \in Attempt : BeginConversion(a, r)
    \/ \E a \in Attempt : Convert(a) \/ CrashConversion(a)

\* A web process goes on with the request it serves.
Fairness ==
    /\ \A d \in Delivery : WF_vars(Serve(d))
    /\ \A a \in Attempt : WF_vars(Convert(a))

Spec == Init /\ [][Next]_vars /\ Fairness

-------------------------------------------------------------------------------
TypeOK ==
    /\ sent \in Scenarios
    /\ handler \in [Delivery -> Serving \cup {"unsent", "answered", "dead"}]
    /\ reply \in [Delivery -> Replies]
    /\ rows \subseteq Delivery /\ announced \subseteq rows
    /\ review \in [Delivery -> ReviewStatus]
    /\ attempt \in [Attempt -> [state : {"unsent"}] \cup
                               [state : AttemptStates, of : rows]]
    /\ \A f \in files : f[1] \in Delivery \cup Attempt /\ f[2] \in Nat \ {0}

\* A website told "received" may forget the enquiry: what it sent, word for
\* word, is in the database, whichever of its deliveries stored it.
ReceivedIsKept ==
    \A d \in Delivery : reply[d] \in {"created", "received"} =>
        \E r \in rows : SameSource(d, r) /\ sent[r].checksum = sent[d].checksum

\* Submissions and documents have their files: no delivery or conversion that
\* fails takes away the files of one that succeeded.
FilesAreThere ==
    /\ \A r \in rows : \A n \in FileNumbers(r) : <<r, n>> \in files
    /\ \A a \in Attempt : attempt[a].state = "converted" =>
          \A n \in FileNumbers(attempt[a].of) : <<a, n>> \in files

\* A file without a row is being worked on, or was left by a process that
\* stopped or a store that failed; whatever else fails, a clash, a check or a
\* permission, leaves none.
NoFileLeftOver ==
    \A f \in files :
        \/ f[1] \in rows
        \/ f[1] \in Delivery /\ (handler[f[1]] \in {"storing", "dead"} \/ reply[f[1]] = "store failed")
        \/ f[1] \in Attempt /\ attempt[f[1]].state \in {"copying", "converted", "store failed", "dead"}

\* A submission becomes one enquiry at most, and none once staff rejected it
\* for good: two clerks who convert it at once do not make two.
ConvertedOnce ==
    \A r \in rows :
        LET made == {a \in Attempt : attempt[a].state = "converted" /\ attempt[a].of = r} IN
        Cardinality(made) = IF review[r] = "CONVERTED" THEN 1 ELSE 0

\* Staff are told of every submission, unless the process stopped between the
\* commit and the event: a repeated delivery does not make up for it.
AnnouncedUnlessCrashed ==
    \A r \in rows : r \in announced \/ handler[r] \in {"committed", "dead"}

\* Every delivery is answered unless its process stops: nobody waits for ever
\* on the identifiers another one holds.
EveryDeliveryAnswered ==
    \A d \in Delivery : handler[d] = "looking" ~> handler[d] \in {"answered", "dead"}
===============================================================================
