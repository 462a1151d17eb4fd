----------------------------- MODULE IntakeProofs -----------------------------
(***************************************************************************)
(* Proofs about Intake, for any deliveries, any content, any number of     *)
(* repetitions and any number of clerks who convert at once.               *)
(***************************************************************************)
EXTENDS Intake, FiniteSetTheorems, TLAPS

DeliveryStep(d) == Send(d) \/ Serve(d) \/ Crash(d)
AttemptStep(a) == Convert(a) \/ CrashConversion(a)

LEMMA NextSteps ==
    ASSUME [Next]_vars
    PROVE  \/ \E d \in Delivery : DeliveryStep(d)
           \/ \E r \in rows : Decide(r)
           \/ \E r \in rows, a \in Attempt : BeginConversion(a, r)
           \/ \E a \in Attempt : AttemptStep(a)
           \/ UNCHANGED vars
BY DEF Next, DeliveryStep, AttemptStep

-----------------------------------------------------------------------------
(* Types *)

\* A submission is committed by the process that serves its delivery, once.
RowsAreServed ==
    /\ \A d \in rows : handler[d] \in {"committed", "answered", "dead"}
    /\ \A d \in Delivery : handler[d] = "committed" => d \in rows

\* The website gets one answer, and with it the process is done.
OneAnswer == \A d \in Delivery : reply[d] # "none" => handler[d] = "answered"

TInv == TypeOK /\ IsFiniteSet(files) /\ RowsAreServed /\ OneAnswer

LEMMA TInit == Init => TInv
<1> SUFFICES ASSUME Init PROVE TInv
  OBVIOUS
<1>1. TypeOK
  BY DEF Init, TypeOK, Replies, ReviewStatus
<1>2. IsFiniteSet(files)
  BY FS_EmptySet DEF Init
<1>3. RowsAreServed /\ OneAnswer
  BY DEF Init, RowsAreServed, OneAnswer
<1> QED
  BY <1>1, <1>2, <1>3 DEF TInv

LEMMA NextFileTypes ==
    ASSUME TInv, NEW x
    PROVE  /\ IsFiniteSet(StoredBy(x)) /\ Cardinality(StoredBy(x)) \in Nat
           /\ NextFile(x) = <<x, Cardinality(StoredBy(x)) + 1>>
           /\ NextFile(x)[1] = x /\ NextFile(x)[2] \in Nat \ {0}
<1>1. IsFiniteSet(StoredBy(x))
  <2>1. StoredBy(x) \subseteq files
    BY DEF StoredBy
  <2> QED
    BY <2>1, FS_Subset DEF TInv
<1>2. Cardinality(StoredBy(x)) \in Nat
  BY <1>1, FS_CardinalityType
<1> QED
  BY <1>1, <1>2 DEF NextFile

\* Files that are taken away, and one that may be added.
LEMMA FileTypes ==
    ASSUME TInv, NEW x \in Delivery \cup Attempt,
           files' \subseteq files \cup {NextFile(x)}
    PROVE  /\ IsFiniteSet(files')
           /\ \A f \in files' : f[1] \in Delivery \cup Attempt /\ f[2] \in Nat \ {0}
<1>1. IsFiniteSet(files \cup {NextFile(x)})
  BY FS_AddElement DEF TInv
<1>2. IsFiniteSet(files')
  BY <1>1, FS_Subset
<1>3. \A f \in files : f[1] \in Delivery \cup Attempt /\ f[2] \in Nat \ {0}
  BY DEF TInv, TypeOK
<1> QED
  BY <1>2, <1>3, NextFileTypes

LEMMA LeftBehindTypes ==
    ASSUME NEW x, NEW numbers, NEW left \in LeftBehind(x, numbers),
           files' = (files \ StoredBy(x)) \cup left
    PROVE  /\ files' \subseteq files \cup {NextFile(x)}
           /\ files \ StoredBy(x) \subseteq files'
BY DEF LeftBehind, StoredBy

LEMMA IdempotentTypes ==
    ASSUME NEW d, NEW r
    PROVE  Idempotent(d, r) \in {"received", "conflict"}
BY DEF Idempotent

\* The steps of one delivery, as far as types are concerned.
LEMMA DeliveryTypes ==
    ASSUME TInv, NEW d \in Delivery, DeliveryStep(d)
    PROVE  TInv'
<1>0. TypeOK /\ RowsAreServed /\ OneAnswer /\ IsFiniteSet(files)
  BY DEF TInv
<1>1. CASE Send(d)
  BY <1>0, <1>1 DEF Send, TInv, TypeOK, RowsAreServed, OneAnswer, Serving
<1>2. ASSUME NEW what \in Replies, Answer(d, what), handler[d] \notin {"answered", "dead"},
             UNCHANGED <<sent, rows, review, attempt>>,
             announced' = announced \/ (d \in rows /\ announced' = announced \cup {d}),
             handler[d] = "committed" => d \in announced',
             IsFiniteSet(files'),
             \A f \in files' : f[1] \in Delivery \cup Attempt /\ f[2] \in Nat \ {0}
      PROVE  TInv'
  <2>1. TypeOK'
    BY <1>0, <1>2 DEF TypeOK, Answer
  <2>2. RowsAreServed' /\ OneAnswer'
    BY <1>0, <1>2 DEF TypeOK, RowsAreServed, OneAnswer, Answer
  <2> QED
    BY <1>2, <2>1, <2>2 DEF TInv
<1>3. UNCHANGED files => /\ IsFiniteSet(files')
                         /\ \A f \in files' : f[1] \in Delivery \cup Attempt /\ f[2] \in Nat \ {0}
  BY <1>0 DEF TypeOK
<1>4. CASE Look(d)
  <2>1. CASE Existing(d) = {}
    BY <1>0, <1>4, <2>1 DEF Look, TInv, TypeOK, RowsAreServed, OneAnswer, Serving
  <2>2. CASE Existing(d) # {}
    <3>1. PICK r \in Existing(d) : Answer(d, Idempotent(d, r))
      BY <1>4, <2>2 DEF Look
    <3>2. Idempotent(d, r) \in Replies
      BY IdempotentTypes DEF Replies
    <3> QED
      BY <1>2, <1>3, <1>4, <3>1, <3>2 DEF Look
  <2> QED
    BY <2>1, <2>2
<1>5. CASE Insert(d)
  <2>1. PICK where \in {"clashed", "storing"} : handler' = [handler EXCEPT ![d] = where]
    BY <1>5 DEF Insert
  <2> QED
    BY <1>0, <1>5, <2>1 DEF Insert, TInv, TypeOK, RowsAreServed, OneAnswer, Serving
<1>6. CASE StoreFile(d)
  <2>1. files' \subseteq files \cup {NextFile(d)}
    BY <1>6 DEF StoreFile
  <2>2. handler' = handler \/ handler' = [handler EXCEPT ![d] = "clashed"]
    BY <1>6 DEF StoreFile
  <2>3. /\ IsFiniteSet(files')
        /\ \A f \in files' : f[1] \in Delivery \cup Attempt /\ f[2] \in Nat \ {0}
    BY <2>1, FileTypes
  <2>4. TypeOK'
    BY <1>0, <1>6, <2>2, <2>3 DEF StoreFile, TypeOK, Serving
  <2>5. RowsAreServed' /\ OneAnswer'
    BY <1>0, <1>6, <2>2 DEF StoreFile, TypeOK, RowsAreServed, OneAnswer
  <2> QED
    BY <2>3, <2>4, <2>5 DEF TInv
<1>7. CASE StoreFails(d)
  <2>1. files' \subseteq files \cup {NextFile(d)}
    BY <1>7, LeftBehindTypes DEF StoreFails
  <2> QED
    BY <1>2, <1>7, <2>1, FileTypes DEF StoreFails, Replies
<1>8. CASE Commit(d)
  <2>1. TypeOK'
    <3>1. review' \in [Delivery -> ReviewStatus]
      BY <1>0, <1>8 DEF Commit, TypeOK, ReviewStatus
    <3>2. attempt' \in [Attempt -> [state : {"unsent"}] \cup
                            [state : AttemptStates, of : rows']]
      BY <1>0, <1>8 DEF Commit, TypeOK
    <3> QED
      BY <1>0, <1>8, <3>1, <3>2 DEF Commit, TypeOK, Serving
  <2>2. RowsAreServed' /\ OneAnswer'
    BY <1>0, <1>8 DEF Commit, TypeOK, RowsAreServed, OneAnswer
  <2> QED
    BY <1>0, <1>8, <2>1, <2>2 DEF TInv, Commit
<1>9. CASE Publish(d)
  <2>1. d \in rows
    BY <1>0, <1>9 DEF Publish, RowsAreServed
  <2> QED
    BY <1>2, <1>3, <1>9, <2>1 DEF Publish, Replies
<1>10. CASE LookAgain(d)
  <2>1. PICK what \in Replies : Answer(d, what)
    BY <1>10, IdempotentTypes DEF LookAgain, Replies
  <2> QED
    BY <1>2, <1>3, <1>10, <2>1 DEF LookAgain
<1>11. CASE Crash(d)
  BY <1>0, <1>11 DEF Crash, TInv, TypeOK, RowsAreServed, OneAnswer, Serving
<1>12. CASE Validate(d)
  <2>1. CASE \E r \in rows : Clash(d, r)
    BY <1>2, <1>3, <1>12, <2>1 DEF Validate, Replies
  <2>2. CASE ~\E r \in rows : Clash(d, r)
    BY <1>0, <1>12, <2>2 DEF Validate, TInv, TypeOK, RowsAreServed, OneAnswer, Serving
  <2> QED
    BY <2>1, <2>2
<1> QED
  BY <1>1, <1>4, <1>5, <1>6, <1>7, <1>8, <1>9, <1>10, <1>11, <1>12 DEF DeliveryStep, Serve

LEMMA ClerkTypes ==
    ASSUME TInv,
           \/ \E r \in rows : Decide(r)
           \/ \E r \in rows, a \in Attempt : BeginConversion(a, r)
           \/ \E a \in Attempt : AttemptStep(a)
    PROVE  TInv'
<1>0. TypeOK /\ RowsAreServed /\ OneAnswer /\ IsFiniteSet(files)
  BY DEF TInv
<1>1. ASSUME NEW r \in rows, Decide(r) PROVE TInv'
  BY <1>0, <1>1 DEF Decide, TInv, TypeOK, RowsAreServed, OneAnswer, ReviewStatus
<1>2. ASSUME NEW r \in rows, NEW a \in Attempt, BeginConversion(a, r) PROVE TInv'
  <2>1. PICK state \in {"copying", "refused"} :
          attempt' = [attempt EXCEPT ![a] = [state |-> state, of |-> r]]
    BY <1>2 DEF BeginConversion
  <2>2. attempt' \in [Attempt -> [state : {"unsent"}] \cup
                          [state : AttemptStates, of : rows']]
    <3>1. [state |-> state, of |-> r] \in
            [state : AttemptStates, of : rows]
      BY <2>1 DEF AttemptStates
    <3> QED
      BY <1>0, <1>2, <2>1, <3>1 DEF BeginConversion, TypeOK
  <2> QED
    BY <1>0, <1>2, <2>2 DEF BeginConversion, TInv, TypeOK, RowsAreServed, OneAnswer
<1>3. ASSUME NEW a \in Attempt, CopyFile(a) PROVE TInv'
  <2>1. /\ IsFiniteSet(files')
        /\ \A f \in files' : f[1] \in Delivery \cup Attempt /\ f[2] \in Nat \ {0}
    BY <1>3, FileTypes DEF CopyFile
  <2> QED
    BY <1>0, <1>3, <2>1 DEF CopyFile, TInv, TypeOK, RowsAreServed, OneAnswer
<1>4. ASSUME NEW a \in Attempt, NEW state \in {"converted", "refused", "store failed", "dead"},
             attempt[a].state = "copying", attempt' = [attempt EXCEPT ![a].state = state],
             UNCHANGED <<sent, handler, reply, rows, announced>>,
             review' \in [Delivery -> ReviewStatus], files' \subseteq files \cup {NextFile(a)}
      PROVE  TInv'
  <2>1. /\ IsFiniteSet(files')
        /\ \A f \in files' : f[1] \in Delivery \cup Attempt /\ f[2] \in Nat \ {0}
    BY <1>4, FileTypes
  <2>2. attempt' \in [Attempt -> [state : {"unsent"}] \cup
                          [state : AttemptStates, of : rows']]
    BY <1>0, <1>4 DEF TypeOK, AttemptStates
  <2> QED
    BY <1>0, <1>4, <2>1, <2>2 DEF TInv, TypeOK, RowsAreServed, OneAnswer
<1>5. ASSUME NEW a \in Attempt, CommitConversion(a) PROVE TInv'
  <2>1. review' \in [Delivery -> ReviewStatus]
    BY <1>0, <1>5 DEF CommitConversion, TypeOK, ReviewStatus
  <2> QED
    BY <1>4, <1>5, <2>1 DEF CommitConversion
<1>6. ASSUME NEW a \in Attempt, FailConversion(a) \/ CopyFails(a) \/ CrashConversion(a) PROVE TInv'
  <2>1. files' \subseteq files \cup {NextFile(a)}
    BY <1>6, LeftBehindTypes DEF FailConversion, CopyFails, CrashConversion
  <2> QED
    BY <1>0, <1>4, <1>6, <2>1 DEF FailConversion, CopyFails, CrashConversion, TypeOK
<1> QED
  BY <1>1, <1>2, <1>3, <1>5, <1>6 DEF AttemptStep, Convert

LEMMA TStep == TInv /\ [Next]_vars => TInv'
<1>1. ASSUME TInv, UNCHANGED vars PROVE TInv'
  BY <1>1 DEF vars, TInv, TypeOK, RowsAreServed, OneAnswer
<1> QED
  BY <1>1, NextSteps, DeliveryTypes, ClerkTypes

\* Every state of the intake is well typed; what was announced was committed.
THEOREM TypeCorrect == Spec => []TypeOK
<1>1. TInv => TypeOK
  BY DEF TInv
<1> QED
  BY <1>1, TInit, TStep, PTL DEF Spec

-----------------------------------------------------------------------------
(* Answers and announcements *)

KInv == TInv /\ ReceivedIsKept /\ AnnouncedUnlessCrashed

LEMMA ExistingIsKept ==
    ASSUME NEW d, NEW r \in Existing(d), Idempotent(d, r) = "received"
    PROVE  r \in rows /\ SameSource(d, r) /\ sent[r].checksum = sent[d].checksum
BY DEF Existing, Idempotent

LEMMA KStep == KInv /\ [Next]_vars => KInv'
<1> SUFFICES ASSUME KInv, [Next]_vars PROVE KInv'
  OBVIOUS
<1>0. TypeOK /\ RowsAreServed /\ OneAnswer /\ TInv'
  BY TStep DEF KInv, TInv
<1>1. ASSUME sent' = sent, rows \subseteq rows', announced \subseteq announced',
             \A d \in Delivery : reply'[d] \in {"created", "received"} =>
               \/ reply'[d] = reply[d]
               \/ \E r \in rows : SameSource(d, r) /\ sent[r].checksum = sent[d].checksum,
             \A r \in rows' : \/ r \in announced'
                              \/ handler'[r] \in {"committed", "dead"}
                              \/ r \in rows /\ handler'[r] = handler[r]
      PROVE  KInv'
  <2>1. ReceivedIsKept'
    BY <1>1 DEF KInv, ReceivedIsKept, SameSource
  <2>2. AnnouncedUnlessCrashed'
    BY <1>1 DEF KInv, AnnouncedUnlessCrashed
  <2> QED
    BY <1>0, <2>1, <2>2 DEF KInv
<1>2. ASSUME NEW d \in Delivery, DeliveryStep(d) PROVE KInv'
  <2>1. /\ sent' = sent /\ rows \subseteq rows' /\ announced \subseteq announced'
        /\ rows' \subseteq rows \cup {d}
    BY <1>2 DEF DeliveryStep, Serve, Send, Look, Validate, Insert, StoreFile, StoreFails, Commit, Publish,
       LookAgain, Crash
  <2>2. \A e \in Delivery : e # d => reply'[e] = reply[e] /\ handler'[e] = handler[e]
    BY <1>0, <1>2 DEF DeliveryStep, Serve, Send, Look, Validate, Insert, StoreFile, StoreFails, Commit,
       Publish, LookAgain, Crash, Answer, TypeOK
  <2>3. ASSUME reply'[d] \in {"created", "received"}, reply'[d] # reply[d]
        PROVE  \E r \in rows : SameSource(d, r) /\ sent[r].checksum = sent[d].checksum
    <3>1. CASE Publish(d)
      BY <1>0, <3>1 DEF Publish, RowsAreServed, SameSource
    <3>2. CASE Look(d) \/ LookAgain(d)
      <4>1. PICK what : Answer(d, what) /\ (what = "failed" \/ \E r \in Existing(d) : what = Idempotent(d, r))
        BY <2>3, <3>2 DEF Look, LookAgain
      <4>2. reply'[d] = what
        BY <1>0, <4>1 DEF Answer, TypeOK
      <4>3. PICK r \in Existing(d) : Idempotent(d, r) = what
        BY <2>3, <4>1, <4>2
      <4>4. Idempotent(d, r) = "received"
        BY <2>3, <4>2, <4>3, IdempotentTypes
      <4> QED
        BY <4>4, ExistingIsKept
    <3>3. CASE StoreFails(d) \/ Validate(d)
      BY <1>0, <2>3, <3>3 DEF StoreFails, Validate, Answer, TypeOK
    <3> QED
      BY <1>2, <2>3, <3>1, <3>2, <3>3 DEF DeliveryStep, Serve, Send, Insert, StoreFile, Commit, Crash
  <2>4. ASSUME d \in rows' PROVE \/ d \in announced'
                                 \/ handler'[d] \in {"committed", "dead"}
                                 \/ d \in rows /\ handler'[d] = handler[d]
    <3>1. CASE Publish(d)
      BY <3>1 DEF Publish
    <3>2. CASE Commit(d) \/ Crash(d)
      BY <1>0, <3>2 DEF Commit, Crash, TypeOK
    <3>3. CASE Send(d) \/ Look(d) \/ Validate(d) \/ Insert(d) \/ StoreFile(d) \/ StoreFails(d) \/ LookAgain(d)
      BY <1>0, <2>4, <3>3 DEF Send, Look, Validate, Insert, StoreFile, StoreFails, LookAgain, RowsAreServed
    <3> QED
      BY <1>2, <3>1, <3>2, <3>3 DEF DeliveryStep, Serve
  <2>5. \A e \in Delivery : reply'[e] \in {"created", "received"} =>
          \/ reply'[e] = reply[e]
          \/ \E r \in rows : SameSource(e, r) /\ sent[r].checksum = sent[e].checksum
    BY <2>2, <2>3
  <2>6. \A r \in rows' : \/ r \in announced'
                         \/ handler'[r] \in {"committed", "dead"}
                         \/ r \in rows /\ handler'[r] = handler[r]
    BY <1>0, <2>1, <2>2, <2>4 DEF TypeOK
  <2> QED
    BY <1>1, <2>1, <2>5, <2>6
<1>3. ASSUME UNCHANGED <<sent, handler, reply, rows, announced>> PROVE KInv'
  BY <1>1, <1>3
<1>4. CASE \E d \in Delivery : DeliveryStep(d)
  BY <1>2, <1>4
<1>5. CASE ~\E d \in Delivery : DeliveryStep(d)
  BY <1>3, <1>5, NextSteps DEF Decide, BeginConversion, AttemptStep, Convert, CopyFile,
     CommitConversion, FailConversion, CopyFails, CrashConversion, vars
<1> QED
  BY <1>4, <1>5

LEMMA KAlways == Spec => []KInv
<1>1. Init => KInv
  BY TInit DEF Init, KInv, ReceivedIsKept, AnnouncedUnlessCrashed
<1> QED
  BY <1>1, KStep, PTL DEF Spec

\* An enquiry the website was told is received is in the database, word for
\* word, whichever of its deliveries stored it and whatever stopped since.
THEOREM ReceivedStays == Spec => []ReceivedIsKept
<1>1. KInv => ReceivedIsKept
  BY DEF KInv
<1> QED
  BY <1>1, KAlways, PTL

\* No submission is committed and then forgotten by a process that goes on.
THEOREM StaffAreTold == Spec => []AnnouncedUnlessCrashed
<1>1. KInv => AnnouncedUnlessCrashed
  BY DEF KInv
<1> QED
  BY <1>1, KAlways, PTL

-----------------------------------------------------------------------------
(* Conversions *)

Made(r) == {a \in Attempt : attempt[a].state = "converted" /\ attempt[a].of = r}

\* The lock of a conversion: it is the only one, and nobody decides meanwhile.
CopyingIsAlone ==
    /\ \A a, b \in Attempt :
         attempt[a].state = "copying" /\ attempt[b].state = "copying" /\ attempt[a].of = attempt[b].of
           => a = b
    /\ \A a \in Attempt : attempt[a].state = "copying" => review[attempt[a].of] = "under review"

MadeOnce ==
    \A r \in Delivery :
        IF r \in rows /\ review[r] = "CONVERTED" THEN \E a \in Attempt : Made(r) = {a}
                                                 ELSE Made(r) = {}

CInv == TInv /\ CopyingIsAlone /\ MadeOnce

LEMMA AttemptTypes ==
    ASSUME TInv, NEW a \in Attempt
    PROVE  \/ attempt[a].state = "unsent"
           \/ /\ attempt[a].state \in AttemptStates
              /\ attempt[a].of \in rows
              /\ attempt[a] \in [state : AttemptStates, of : rows]
BY DEF TInv, TypeOK

LEMMA CStep == CInv /\ [Next]_vars => CInv'
<1> SUFFICES ASSUME CInv, [Next]_vars PROVE CInv'
  OBVIOUS
<1>0. TInv /\ TypeOK /\ TInv'
  BY TStep DEF CInv, TInv
<1>1. ASSUME UNCHANGED <<rows, review, attempt>> PROVE CInv'
  BY <1>0, <1>1 DEF CInv, CopyingIsAlone, MadeOnce, Made
<1>2. ASSUME NEW d \in Delivery, Commit(d) PROVE CInv'
  <2>1. d \notin rows /\ attempt' = attempt /\ rows' = rows \cup {d}
    BY <1>0, <1>2 DEF Commit, TInv, RowsAreServed
  <2>2. review'[d] # "CONVERTED" /\ \A e \in Delivery : e # d => review'[e] = review[e]
    BY <1>0, <1>2 DEF Commit, TypeOK
  <2>3. CopyingIsAlone'
    <3>1. \A a \in Attempt : attempt[a].state = "copying" => attempt[a].of # d /\ attempt[a].of \in Delivery
      BY <1>0, <2>1, AttemptTypes DEF TypeOK
    <3> QED
      BY <2>1, <2>2, <3>1 DEF CInv, CopyingIsAlone
  <2>4. MadeOnce'
    <3>1. \A r \in Delivery : Made(r)' = Made(r)
      BY <2>1 DEF Made
    <3> QED
      BY <2>1, <2>2, <3>1 DEF CInv, MadeOnce
  <2> QED
    BY <1>0, <2>3, <2>4 DEF CInv
<1>3. ASSUME NEW r \in rows, Decide(r) PROVE CInv'
  <2>1. /\ attempt' = attempt /\ rows' = rows /\ r \in Delivery /\ review[r] # "CONVERTED"
        /\ \A a \in Attempt : attempt[a].state = "copying" => attempt[a].of # r
    BY <1>0, <1>3 DEF Decide, Locked, TypeOK
  <2>2. review'[r] # "CONVERTED" /\ \A e \in Delivery : e # r => review'[e] = review[e]
    BY <1>0, <1>3, <2>1 DEF Decide, TypeOK
  <2>3. CopyingIsAlone'
    <3>1. \A a \in Attempt : attempt[a].state = "copying" => attempt[a].of \in Delivery
      BY <1>0, AttemptTypes DEF TypeOK
    <3> QED
      BY <2>1, <2>2, <3>1 DEF CInv, CopyingIsAlone
  <2>4. MadeOnce'
    <3>1. \A e \in Delivery : Made(e)' = Made(e)
      BY <2>1 DEF Made
    <3> QED
      BY <2>1, <2>2, <3>1 DEF CInv, MadeOnce
  <2> QED
    BY <1>0, <2>3, <2>4 DEF CInv
<1>4. ASSUME NEW r \in rows, NEW a \in Attempt, BeginConversion(a, r) PROVE CInv'
  <2>1. /\ attempt[a].state = "unsent" /\ rows' = rows /\ review' = review
        /\ \A b \in Attempt : attempt[b].state = "copying" => attempt[b].of # r
    BY <1>4 DEF BeginConversion, Locked
  <2>2. PICK state \in {"copying", "refused"} :
          /\ attempt' = [attempt EXCEPT ![a] = [state |-> state, of |-> r]]
          /\ state = "copying" => review[r] = "under review"
    BY <1>4 DEF BeginConversion
  <2>3. /\ attempt'[a].state = state /\ attempt'[a].of = r
        /\ \A b \in Attempt : b # a => attempt'[b] = attempt[b]
    BY <1>0, <2>2 DEF TypeOK
  <2>4. CopyingIsAlone'
    <3>1. ASSUME NEW b \in Attempt, NEW c \in Attempt,
                 attempt'[b].state = "copying", attempt'[c].state = "copying",
                 attempt'[b].of = attempt'[c].of
          PROVE  b = c
      BY <2>1, <2>3, <3>1 DEF CInv, CopyingIsAlone
    <3>2. ASSUME NEW b \in Attempt, attempt'[b].state = "copying"
          PROVE  review'[attempt'[b].of] = "under review"
      BY <2>1, <2>2, <2>3, <3>2 DEF CInv, CopyingIsAlone
    <3> QED
      BY <3>1, <3>2 DEF CopyingIsAlone
  <2>5. MadeOnce'
    <3>1. \A e \in Delivery : Made(e)' = Made(e)
      BY <2>1, <2>3 DEF Made
    <3> QED
      BY <2>1, <3>1 DEF CInv, MadeOnce
  <2> QED
    BY <1>0, <2>4, <2>5 DEF CInv
<1>5. ASSUME NEW a \in Attempt, NEW state \in {"converted", "refused", "store failed", "dead"},
             attempt[a].state = "copying", attempt' = [attempt EXCEPT ![a].state = state],
             rows' = rows,
             review' = IF state = "converted" THEN [review EXCEPT ![attempt[a].of] = "CONVERTED"] ELSE review
      PROVE  CInv'
  <2>1. /\ attempt[a].of \in rows /\ attempt[a].of \in Delivery
        /\ attempt[a] \in [state : AttemptStates, of : rows]
    BY <1>0, <1>5, AttemptTypes DEF TypeOK
  <2>2. /\ attempt'[a].state = state /\ attempt'[a].of = attempt[a].of
        /\ \A b \in Attempt : b # a => attempt'[b] = attempt[b]
    BY <1>0, <1>5, <2>1 DEF TypeOK
  <2>3. \A e \in Delivery : e # attempt[a].of \/ state # "converted" => review'[e] = review[e]
    BY <1>0, <1>5, <2>1 DEF TypeOK
  <2>4. CopyingIsAlone'
    <3>1. ASSUME NEW b \in Attempt, attempt'[b].state = "copying"
          PROVE  /\ b # a /\ attempt[b].state = "copying" /\ attempt'[b].of = attempt[b].of
                 /\ attempt[b].of \in Delivery
      <4>1. b # a
        BY <1>5, <2>2, <3>1
      <4> QED
        BY <1>0, <2>2, <3>1, <4>1, AttemptTypes DEF TypeOK
    <3>2. ASSUME NEW b \in Attempt, attempt'[b].state = "copying"
          PROVE  review'[attempt'[b].of] = "under review"
      <4>1. attempt[b].of # attempt[a].of
        BY <1>5, <3>1, <3>2 DEF CInv, CopyingIsAlone
      <4>2. review'[attempt[b].of] = review[attempt[b].of]
        BY <2>3, <3>1, <3>2, <4>1
      <4> QED
        BY <3>1, <3>2, <4>2 DEF CInv, CopyingIsAlone
    <3>3. ASSUME NEW b \in Attempt, NEW c \in Attempt,
                 attempt'[b].state = "copying", attempt'[c].state = "copying",
                 attempt'[b].of = attempt'[c].of
          PROVE  b = c
      BY <3>1, <3>3 DEF CInv, CopyingIsAlone
    <3> QED
      BY <3>2, <3>3 DEF CopyingIsAlone
  <2>5. MadeOnce'
    <3>1. \A e \in Delivery : e # attempt[a].of \/ state # "converted" => Made(e)' = Made(e)
      BY <1>5, <2>2 DEF Made
    <3>2. ASSUME state = "converted", NEW e \in Delivery, e = attempt[a].of
          PROVE  /\ Made(e)' = {a} /\ e \in rows' /\ review'[e] = "CONVERTED"
      <4>1. review[e] = "under review"
        BY <1>5, <3>2 DEF CInv, CopyingIsAlone
      <4>2. Made(e) = {}
        BY <3>2, <4>1 DEF CInv, MadeOnce
      <4>3. Made(e)' = {a}
        BY <2>2, <3>2, <4>2 DEF Made
      <4> QED
        BY <1>0, <1>5, <2>1, <3>2, <4>3 DEF TypeOK
    <3>3. ASSUME NEW e \in Delivery
          PROVE  (IF e \in rows /\ review[e] = "CONVERTED" THEN \E b \in Attempt : Made(e) = {b}
                                                           ELSE Made(e) = {})'
      <4>1. CASE e # attempt[a].of \/ state # "converted"
        BY <1>5, <2>3, <3>1, <4>1 DEF CInv, MadeOnce
      <4>2. CASE e = attempt[a].of /\ state = "converted"
        BY <3>2, <4>2
      <4> QED
        BY <4>1, <4>2
    <3> QED
      BY <3>3 DEF MadeOnce
  <2> QED
    BY <1>0, <2>4, <2>5 DEF CInv
<1>6. ASSUME NEW a \in Attempt, CommitConversion(a) PROVE CInv'
  BY <1>5, <1>6 DEF CommitConversion
<1>7. ASSUME NEW a \in Attempt, FailConversion(a) \/ CopyFails(a) \/ CrashConversion(a) PROVE CInv'
  BY <1>5, <1>7 DEF FailConversion, CopyFails, CrashConversion
<1>8. \/ UNCHANGED <<rows, review, attempt>>
      \/ \E d \in Delivery : Commit(d)
      \/ \E r \in rows : Decide(r)
      \/ \E r \in rows, a \in Attempt : BeginConversion(a, r)
      \/ \E a \in Attempt : CommitConversion(a) \/ FailConversion(a) \/ CopyFails(a) \/ CrashConversion(a)
  BY NextSteps DEF DeliveryStep, Serve, Send, Look, Validate, Insert, StoreFile, StoreFails, Publish,
     LookAgain, Crash, AttemptStep, Convert, CopyFile, vars
<1> QED
  BY <1>1, <1>2, <1>3, <1>4, <1>6, <1>7, <1>8

LEMMA CAlways == Spec => []CInv
<1>1. Init => CInv
  <2> SUFFICES ASSUME Init PROVE CInv
    OBVIOUS
  <2>1. \A a \in Attempt : attempt[a].state = "unsent"
    BY DEF Init
  <2> QED
    BY <2>1, TInit DEF Init, CInv, CopyingIsAlone, MadeOnce, Made
<1> QED
  BY <1>1, CStep, PTL DEF Spec

\* However many clerks convert a submission at once, it becomes one enquiry.
THEOREM OneEnquiry == Spec => []ConvertedOnce
<1>1. CInv => ConvertedOnce
  <2> SUFFICES ASSUME CInv, NEW r \in rows
               PROVE  Cardinality(Made(r)) = IF review[r] = "CONVERTED" THEN 1 ELSE 0
    BY DEF ConvertedOnce, Made
  <2>1. r \in Delivery
    BY DEF CInv, TInv, TypeOK
  <2>2. CASE review[r] = "CONVERTED"
    BY <2>1, <2>2, FS_Singleton DEF CInv, MadeOnce
  <2>3. CASE review[r] # "CONVERTED"
    BY <2>1, <2>3, FS_EmptySet DEF CInv, MadeOnce
  <2> QED
    BY <2>2, <2>3
<1> QED
  BY <1>1, CAlways, PTL

-----------------------------------------------------------------------------
(* Files *)

\* The first k files of x.
Line(x, k) == {<<x, n>> : n \in 1..k}

LEMMA LineSize ==
    ASSUME NEW x, NEW k \in Nat
    PROVE  Cardinality(Line(x, k)) = k
<1>1. IsFiniteSet(1..k) /\ Cardinality(1..k) = k
  BY FS_Interval
<1> DEFINE f == [n \in 1..k |-> <<x, n>>]
<1>2. f \in Bijection(1..k, Line(x, k))
  <2>1. f \in [1..k -> Line(x, k)]
    BY DEF Line
  <2>2. \A m, n \in 1..k : f[m] = f[n] => m = n
    OBVIOUS
  <2>3. \A t \in Line(x, k) : \E n \in 1..k : f[n] = t
    BY DEF Line
  <2> QED
    BY <2>1, <2>2, <2>3 DEF Bijection, Injection, Surjection, IsInjective
<1>3. ExistsBijection(1..k, Line(x, k))
  BY <1>2 DEF ExistsBijection
<1> QED
  BY <1>1, <1>3, FS_Bijection

LEMMA StoredFiles ==
    ASSUME NEW x, NEW n
    PROVE  <<x, n>> \in files <=> <<x, n>> \in StoredBy(x)
BY DEF StoredBy

\* When no number is left the files are all there.
LEMMA LineIsComplete ==
    ASSUME NEW x, NEW k \in Nat, StoredBy(x) = Line(x, k),
           NEW last \in Nat, NextFile(x)[2] \notin 1..last
    PROVE  \A n \in 1..last : <<x, n>> \in files
<1>1. NextFile(x)[2] = k + 1
  BY LineSize DEF NextFile
<1>2. last <= k
  BY <1>1
<1> QED
  BY <1>2, StoredFiles DEF Line

LEMMA LineGrows ==
    ASSUME NEW x, NEW k \in Nat, StoredBy(x) = Line(x, k), files' = files \cup {NextFile(x)}
    PROVE  StoredBy(x)' = Line(x, k + 1)
<1>1. NextFile(x) = <<x, k + 1>>
  BY LineSize DEF NextFile
<1>2. StoredBy(x)' = StoredBy(x) \cup {<<x, k + 1>>}
  BY <1>1 DEF StoredBy
<1>3. 1..(k + 1) = (1..k) \cup {k + 1}
  OBVIOUS
<1> QED
  BY <1>2, <1>3 DEF Line

\* Nobody touches the files of others.
LEMMA OthersFiles ==
    ASSUME NEW x, files \ StoredBy(x) \subseteq files', files' \subseteq files \cup {NextFile(x)},
           NEW y, y # x
    PROVE  StoredBy(y)' = StoredBy(y)
<1>1. NextFile(x)[1] = x
  BY DEF NextFile
<1>2. ASSUME NEW f, f[1] = y PROVE f \in files' <=> f \in files
  BY <1>1, <1>2 DEF StoredBy
<1> QED
  BY <1>2 DEF StoredBy

DeliveryFiles(d) ==
    /\ handler[d] \in {"unsent", "looking", "clear", "validated"} => StoredBy(d) = {}
    /\ handler[d] = "storing" => \E k \in Nat : StoredBy(d) = Line(d, k)
    /\ d \in rows => \A n \in FileNumbers(d) : <<d, n>> \in files

AttemptFiles(a) ==
    /\ attempt[a].state = "unsent" => StoredBy(a) = {}
    /\ attempt[a].state = "copying" => \E k \in Nat : StoredBy(a) = Line(a, k)
    /\ attempt[a].state = "converted" => \A n \in FileNumbers(attempt[a].of) : <<a, n>> \in files

FInv ==
    /\ TInv
    /\ \A d \in Delivery : DeliveryFiles(d)
    /\ \A a \in Attempt : AttemptFiles(a)

LEMMA LastFile ==
    ASSUME TInv, NEW d \in Delivery
    PROVE  sent[d].files \in Nat
BY ScenariosAssumption DEF TInv, TypeOK, Message

LEMMA DeliveryStays ==
    ASSUME NEW d, DeliveryFiles(d), sent' = sent, handler'[d] = handler[d],
           d \in rows' => d \in rows, StoredBy(d)' = StoredBy(d)
    PROVE  DeliveryFiles(d)'
<1>1. \A n : <<d, n>> \in files' <=> <<d, n>> \in files
  BY DEF StoredBy
<1> QED
  BY <1>1 DEF DeliveryFiles, FileNumbers, Line

LEMMA AttemptStays ==
    ASSUME NEW a, AttemptFiles(a), sent' = sent, attempt'[a] = attempt[a],
           StoredBy(a)' = StoredBy(a)
    PROVE  AttemptFiles(a)'
<1>1. \A n : <<a, n>> \in files' <=> <<a, n>> \in files
  BY DEF StoredBy
<1> QED
  BY <1>1 DEF AttemptFiles, FileNumbers, Line

LEMMA FStep == FInv /\ [Next]_vars => FInv'
<1> SUFFICES ASSUME FInv, [Next]_vars PROVE FInv'
  OBVIOUS
<1>0. TInv /\ TypeOK /\ TInv'
  BY TStep DEF FInv, TInv
<1>1. \A x : UNCHANGED files => StoredBy(x)' = StoredBy(x)
  BY DEF StoredBy
<1>2. ASSUME NEW d \in Delivery, DeliveryStep(d) PROVE FInv'
  <2>1. /\ sent' = sent /\ attempt' = attempt /\ rows' \subseteq rows \cup {d}
        /\ files \ StoredBy(d) \subseteq files' /\ files' \subseteq files \cup {NextFile(d)}
    BY <1>2, LeftBehindTypes DEF DeliveryStep, Serve, Send, Look, Validate, Insert, StoreFile, StoreFails, Commit, Publish,
       LookAgain, Crash
  <2>2. \A e \in Delivery : e # d => handler'[e] = handler[e]
    BY <1>0, <1>2 DEF DeliveryStep, Serve, Send, Look, Validate, Insert, StoreFile, StoreFails, Commit,
       Publish, LookAgain, Crash, Answer, TypeOK
  <2>3. \A e \in Delivery : e # d => DeliveryFiles(e)'
    BY <2>1, <2>2, OthersFiles, DeliveryStays DEF FInv
  <2>4. \A a \in Attempt : AttemptFiles(a)'
    BY <2>1, ApartAssumption, OthersFiles, AttemptStays DEF FInv
  <2>5. DeliveryFiles(d)'
    <3>0. DeliveryFiles(d) /\ sent[d].files \in Nat
      BY <1>0, LastFile DEF FInv
    <3>1. CASE Send(d) \/ Look(d) \/ Validate(d) \/ Insert(d)
      <4>1. /\ StoredBy(d)' = {} /\ d \notin rows'
        BY <1>0, <1>1, <3>0, <3>1 DEF Send, Look, Validate, Insert, DeliveryFiles, TInv, RowsAreServed
      <4>2. StoredBy(d)' = Line(d, 0)
        BY <4>1 DEF Line
      <4> QED
        BY <4>1, <4>2 DEF DeliveryFiles
    <3>2. CASE StoreFile(d)
      <4>0. d \notin rows /\ d \notin rows'
        BY <1>0, <3>2 DEF StoreFile, TInv, RowsAreServed
      <4>1. CASE sent[d].twins /\ StoredBy(d) # {}
        <5>1. handler'[d] = "clashed"
          BY <1>0, <3>2, <4>1 DEF StoreFile, TypeOK
        <5> QED
          BY <4>0, <5>1 DEF DeliveryFiles
      <4>2. CASE ~(sent[d].twins /\ StoredBy(d) # {})
        <5>1. handler'[d] = "storing" /\ handler[d] = "storing" /\ files' = files \cup {NextFile(d)}
          BY <3>2, <4>2 DEF StoreFile
        <5>2. PICK k \in Nat : StoredBy(d) = Line(d, k)
          BY <3>0, <5>1 DEF DeliveryFiles
        <5>3. StoredBy(d)' = Line(d, k + 1) /\ k + 1 \in Nat
          BY <5>1, <5>2, LineGrows
        <5> QED
          BY <4>0, <5>1, <5>3 DEF DeliveryFiles, Line
      <4> QED
        BY <4>1, <4>2
    <3>3. CASE StoreFails(d) \/ LookAgain(d)
      <4>1. handler'[d] = "answered" /\ d \notin rows'
        BY <1>0, <3>3 DEF StoreFails, LookAgain, Answer, TypeOK, TInv, RowsAreServed
      <4> QED
        BY <4>1 DEF DeliveryFiles
    <3>4. CASE Commit(d)
      <4>1. handler[d] = "storing" /\ handler'[d] = "committed" /\ files' = files /\ sent' = sent
        BY <1>0, <3>4 DEF Commit, TypeOK
      <4>2. PICK k \in Nat : StoredBy(d) = Line(d, k)
        BY <3>0, <4>1 DEF DeliveryFiles
      <4>3. NextFile(d)[2] \notin 1..sent[d].files
        BY <3>4 DEF Commit, FileNumbers
      <4>4. \A n \in 1..sent[d].files : <<d, n>> \in files
        BY <3>0, <4>2, <4>3, LineIsComplete
      <4> QED
        BY <4>1, <4>4 DEF DeliveryFiles, FileNumbers
    <3>5. CASE Publish(d) \/ Crash(d)
      <4>1. handler'[d] \in {"answered", "dead"} /\ UNCHANGED <<files, rows, sent>>
        BY <1>0, <3>5 DEF Publish, Crash, Answer, TypeOK
      <4> QED
        BY <3>0, <4>1 DEF DeliveryFiles, FileNumbers
    <3> QED
      BY <1>2, <3>1, <3>2, <3>3, <3>4, <3>5 DEF DeliveryStep, Serve
  <2> QED
    BY <1>0, <2>3, <2>4, <2>5 DEF FInv
<1>3. ASSUME NEW a \in Attempt,
             (\E r \in rows : BeginConversion(a, r)) \/ AttemptStep(a)
      PROVE  FInv'
  <2>1. /\ sent' = sent /\ rows' = rows /\ handler' = handler
        /\ files \ StoredBy(a) \subseteq files' /\ files' \subseteq files \cup {NextFile(a)}
    BY <1>3, LeftBehindTypes DEF AttemptStep, Convert, BeginConversion, CopyFile, CommitConversion,
       FailConversion, CopyFails, CrashConversion
  <2>2. \A b \in Attempt : b # a => attempt'[b] = attempt[b]
    BY <1>0, <1>3 DEF AttemptStep, Convert, BeginConversion, CopyFile, CommitConversion,
       FailConversion, CopyFails, CrashConversion, TypeOK
  <2>3. \A d \in Delivery : DeliveryFiles(d)'
    BY <2>1, ApartAssumption, OthersFiles, DeliveryStays DEF FInv
  <2>4. \A b \in Attempt : b # a => AttemptFiles(b)'
    BY <2>1, <2>2, OthersFiles, AttemptStays DEF FInv
  <2>5. AttemptFiles(a)'
    <3>0. AttemptFiles(a)
      BY DEF FInv
    <3>1. ASSUME NEW r \in rows, BeginConversion(a, r) PROVE AttemptFiles(a)'
      <4>1. StoredBy(a)' = {} /\ attempt'[a].state \in {"copying", "refused"}
        BY <1>0, <1>1, <3>0, <3>1 DEF BeginConversion, AttemptFiles, TypeOK
      <4>2. StoredBy(a)' = Line(a, 0)
        BY <4>1 DEF Line
      <4> QED
        BY <4>1, <4>2 DEF AttemptFiles
    <3>2. CASE CopyFile(a)
      <4>1. attempt[a].state = "copying" /\ attempt' = attempt /\ files' = files \cup {NextFile(a)}
        BY <3>2 DEF CopyFile
      <4>2. PICK k \in Nat : StoredBy(a) = Line(a, k)
        BY <3>0, <4>1 DEF AttemptFiles
      <4>3. StoredBy(a)' = Line(a, k + 1) /\ k + 1 \in Nat
        BY <4>1, <4>2, LineGrows
      <4> QED
        BY <4>1, <4>3 DEF AttemptFiles, Line
    <3>3. CASE CommitConversion(a)
      <4>1. /\ attempt[a].state = "copying" /\ files' = files /\ sent' = sent
            /\ attempt[a].of \in Delivery
            /\ attempt'[a].state = "converted" /\ attempt'[a].of = attempt[a].of
        BY <1>0, <3>3 DEF CommitConversion, TypeOK
      <4>2. PICK k \in Nat : StoredBy(a) = Line(a, k)
        BY <3>0, <4>1 DEF AttemptFiles
      <4>3. /\ NextFile(a)[2] \notin 1..sent[attempt[a].of].files
            /\ sent[attempt[a].of].files \in Nat
        BY <1>0, <3>3, <4>1, LastFile DEF CommitConversion, FileNumbers
      <4>4. \A n \in 1..sent[attempt[a].of].files : <<a, n>> \in files
        BY <4>2, <4>3, LineIsComplete
      <4> QED
        BY <4>1, <4>4 DEF AttemptFiles, FileNumbers
    <3>4. CASE FailConversion(a) \/ CopyFails(a) \/ CrashConversion(a)
      <4>1. attempt'[a].state \in {"refused", "store failed", "dead"}
        BY <1>0, <3>4 DEF FailConversion, CopyFails, CrashConversion, TypeOK
      <4> QED
        BY <4>1 DEF AttemptFiles
    <3> QED
      BY <1>3, <3>1, <3>2, <3>3, <3>4 DEF AttemptStep, Convert
  <2> QED
    BY <1>0, <2>3, <2>4, <2>5 DEF FInv
<1>4. CASE (\E r \in rows : Decide(r)) \/ UNCHANGED vars
  <2>1. UNCHANGED <<sent, handler, rows, attempt, files>>
    BY <1>4 DEF Decide, vars
  <2> QED
    BY <1>0, <1>1, <2>1, DeliveryStays, AttemptStays DEF FInv
<1> QED
  BY <1>2, <1>3, <1>4, NextSteps

\* No delivery or conversion that fails takes away what another one stored.
THEOREM FilesStay == Spec => []FilesAreThere
<1>1. Init => FInv
  <2> SUFFICES ASSUME Init PROVE FInv
    OBVIOUS
  <2>1. \A x : StoredBy(x) = {}
    BY DEF Init, StoredBy
  <2>2. \A d \in Delivery : DeliveryFiles(d)
    BY <2>1 DEF Init, DeliveryFiles
  <2>3. \A a \in Attempt : AttemptFiles(a)
    BY <2>1 DEF Init, AttemptFiles
  <2> QED
    BY <2>2, <2>3, TInit DEF FInv
<1>2. FInv => FilesAreThere
  BY DEF FInv, TInv, TypeOK, DeliveryFiles, AttemptFiles, FilesAreThere
<1> QED
  BY <1>1, <1>2, FStep, PTL DEF Spec

\* Who may have a file in storage.
Owns(x) ==
    \/ x \in rows
    \/ x \in Delivery /\ (handler[x] \in {"storing", "dead"} \/ reply[x] = "store failed")
    \/ x \in Attempt /\ attempt[x].state \in {"copying", "converted", "store failed", "dead"}

LEMMA NStep == TInv /\ NoFileLeftOver /\ [Next]_vars => NoFileLeftOver'
<1> SUFFICES ASSUME TInv, NoFileLeftOver, [Next]_vars, NEW f \in files' PROVE Owns(f[1])'
  BY DEF NoFileLeftOver, Owns
<1>0. TypeOK /\ OneAnswer
  BY DEF TInv
<1>1. f \in files => Owns(f[1])
  BY DEF NoFileLeftOver, Owns
<1>2. ASSUME NEW d \in Delivery, DeliveryStep(d) PROVE Owns(f[1])'
  <2>1. /\ rows \subseteq rows' /\ attempt' = attempt
        /\ files' \subseteq files \cup {NextFile(d)}
    BY <1>2, LeftBehindTypes DEF DeliveryStep, Serve, Send, Look, Validate, Insert, StoreFile, StoreFails, Commit, Publish,
       LookAgain, Crash
  <2>2. \A e \in Delivery : e # d => handler'[e] = handler[e] /\ reply'[e] = reply[e]
    BY <1>0, <1>2 DEF DeliveryStep, Serve, Send, Look, Validate, Insert, StoreFile, StoreFails, Commit,
       Publish, LookAgain, Crash, Answer, TypeOK
  <2>3. CASE f[1] # d
    <3>1. f \in files
      BY <2>1, <2>3 DEF NextFile
    <3> QED
      BY <1>1, <2>1, <2>2, <2>3, <3>1 DEF Owns
  <2>4. CASE f[1] = d /\ (d \in rows' \/ handler'[d] \in {"storing", "dead"} \/ reply'[d] = "store failed")
    BY <2>4 DEF Owns
  <2>5. CASE f[1] = d /\ ~(d \in rows' \/ handler'[d] \in {"storing", "dead"} \/ reply'[d] = "store failed")
    <3>1. f \in files /\ handler[d] \notin {"storing", "dead"}
      BY <1>0, <1>2, <2>5 DEF DeliveryStep, Serve, Send, Look, Validate, Insert, StoreFile, StoreFails,
         Commit, Publish, LookAgain, Crash, Answer, TypeOK, StoredBy
    <3>2. reply[d] # "store failed"
      BY <1>0, <1>2 DEF DeliveryStep, Serve, Send, Look, Validate, Insert, StoreFile, StoreFails,
         Commit, Publish, LookAgain, Crash, OneAnswer, Serving
    <3> QED
      BY <1>1, <2>1, <2>5, <3>1, <3>2 DEF Owns
  <2> QED
    BY <2>3, <2>4, <2>5
<1>3. ASSUME NEW a \in Attempt, NEW r \in rows, BeginConversion(a, r) PROVE Owns(f[1])'
  <2>1. /\ UNCHANGED <<handler, reply, rows, files>> /\ attempt[a].state = "unsent"
        /\ \A b \in Attempt : b # a => attempt'[b] = attempt[b]
    BY <1>0, <1>3 DEF BeginConversion, TypeOK
  <2> QED
    BY <1>1, <2>1 DEF Owns
<1>4. ASSUME NEW a \in Attempt, AttemptStep(a) PROVE Owns(f[1])'
  <2>1. /\ UNCHANGED <<handler, reply, rows>> /\ files' \subseteq files \cup {NextFile(a)}
        /\ \A b \in Attempt : b # a => attempt'[b] = attempt[b]
    BY <1>0, <1>4, LeftBehindTypes DEF AttemptStep, Convert, CopyFile, CommitConversion,
       FailConversion, CopyFails, CrashConversion, TypeOK
  <2>2. CASE f[1] # a
    <3>1. f \in files
      BY <2>1, <2>2 DEF NextFile
    <3> QED
      BY <1>1, <2>1, <2>2, <3>1 DEF Owns
  <2>3. CASE f[1] = a
    <3>1. CASE FailConversion(a)
      BY <2>3, <3>1 DEF FailConversion, StoredBy
    <3>2. CASE ~FailConversion(a)
      <4>1. attempt' = attempt \/ \E state \in {"converted", "store failed", "dead"} :
                attempt' = [attempt EXCEPT ![a].state = state]
        BY <1>4, <3>2 DEF AttemptStep, Convert, CopyFile, CommitConversion, CopyFails, CrashConversion
      <4>2. attempt[a].state = "copying"
        BY <1>4, <3>2 DEF AttemptStep, Convert, CopyFile, CommitConversion, CopyFails, CrashConversion
      <4>3. /\ attempt[a] \in [state : AttemptStates, of : rows]
            /\ a \in DOMAIN attempt
        BY <1>0, <4>2, AttemptTypes DEF TypeOK
      <4>4. attempt'[a].state \in {"copying", "converted", "store failed", "dead"}
        <5>1. CASE attempt' = attempt
          BY <4>2, <5>1
        <5>2. ASSUME NEW state \in {"converted", "store failed", "dead"},
                     attempt' = [attempt EXCEPT ![a].state = state]
              PROVE  attempt'[a].state = state
          <6>1. attempt'[a] = [attempt[a] EXCEPT !.state = state]
            BY <4>3, <5>2
          <6> QED
            BY <4>3, <6>1
        <5> QED
          BY <4>1, <5>1, <5>2
      <4> QED
        BY <2>3, <4>4 DEF Owns
    <3> QED
      BY <3>1, <3>2
  <2> QED
    BY <2>2, <2>3
<1>5. CASE (\E r \in rows : Decide(r)) \/ UNCHANGED vars
  <2>1. UNCHANGED <<handler, reply, rows, attempt, files>>
    BY <1>5 DEF Decide, vars
  <2> QED
    BY <1>1, <2>1 DEF Owns
<1> QED
  BY <1>2, <1>3, <1>4, <1>5, NextSteps

\* A file nobody has a row for was left by a process that stopped or a store
\* that failed half-way through it, never by a refused request.
THEOREM NothingLeftOver == Spec => []NoFileLeftOver
<1>1. Init => NoFileLeftOver
  BY DEF Init, NoFileLeftOver
<1>2. TInv /\ NoFileLeftOver /\ [Next]_vars => (TInv /\ NoFileLeftOver)'
  BY TStep, NStep
<1> QED
  BY <1>1, <1>2, TInit, PTL DEF Spec
=============================================================================
