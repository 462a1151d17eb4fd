----------------------------- MODULE DraftsProofs -----------------------------
(* Theorems about Drafts for any number of editors, any forms and any length  *)
(* of the record's history.                                                   *)
EXTENDS Drafts, SequenceTheorems, TLAPS

\* A form's text and its version are one, a form that is closed holds no words,
\* and words a form does not know of came by an edit that marks nothing.
Sound(d) ==
    /\ d.text = d.base
    /\ ~d.open => ~d.typed
    /\ d.typed /\ ~d.dirty => ~Forms[form].marks

\* What is sent from a form that keeps the version its text was filled with is
\* that version.
FormInv(e) ==
    /\ Sound(draft[e])
    /\ request[e].state = "sent" /\ Forms[form].sends = "filled" =>
         request[e].text = request[e].version

Inv == TypeOK /\ \A e \in Editors : FormInv(e)

LEMMA FormFacts ==
    ASSUME TypeOK
    PROVE  /\ Forms[form] \in Form
           /\ Version \in Versions /\ Version \in Nat /\ MaxVersion \in Nat
           /\ 0 \in Versions
<1>1. Forms[form] \in Form
  BY FormsAssumption DEF TypeOK
<1>2. Version \in Versions /\ MaxVersion \in Nat
  BY BoundAssumption DEF TypeOK
<1> QED
  BY <1>1, <1>2 DEF Versions

LEMMA FilledType ==
    ASSUME NEW n \in Versions, 0 \in Versions
    PROVE  /\ FilledFrom(n) \in Draft /\ Sound(FilledFrom(n))
           /\ FilledFrom(n).open /\ ~FilledFrom(n).typed
  BY DEF FilledFrom, Closed, Draft, Sound

LEMMA FilledAgainType ==
    ASSUME NEW d \in Draft, NEW n \in Versions, 0 \in Versions
    PROVE  /\ FilledAgain(d, n) \in Draft /\ Sound(FilledAgain(d, n))
           /\ FilledAgain(d, n).open /\ ~FilledAgain(d, n).typed
  BY DEF FilledAgain, FilledFrom, Closed, Draft, Sound

LEMMA ClosedType ==
    ASSUME 0 \in Versions
    PROVE  /\ Closed \in Draft /\ Sound(Closed) /\ ~Closed.open /\ ~Closed.typed
           /\ Idle \in Request /\ Idle.state = "none"
  BY DEF Closed, Draft, Idle, Request, Sound

\* Settling an open form drops only what it does not know of.
LEMMA SettleFacts ==
    ASSUME NEW d \in Draft, NEW n \in Versions, Sound(d), d.open, 0 \in Versions
    PROVE  /\ Settle(d, n) \in Draft /\ Sound(Settle(d, n)) /\ Settle(d, n).open
           /\ Settle(d, n).typed => d.typed
           /\ d.dirty => Settle(d, n).typed = d.typed
<1>1. CASE n = d.base
  BY <1>1 DEF Settle
<1>2. CASE n # d.base /\ d.dirty
  BY <1>2 DEF Settle, Sound, Draft
<1>3. CASE n # d.base /\ ~d.dirty
  <2>1. Settle(d, n) = [FilledAgain(d, n) EXCEPT !.conflict = d.conflict]
    BY <1>3 DEF Settle
  <2>2. FilledAgain(d, n) \in Draft /\ Sound(FilledAgain(d, n)) /\ ~FilledAgain(d, n).typed
        /\ FilledAgain(d, n).open
    BY FilledAgainType
  <2> QED
    BY <1>3, <2>1, <2>2 DEF Sound, Draft
<1> QED
  BY <1>1, <1>2, <1>3

\* What an answer that changes from m to n takes from a form.
LossAt(d, m, n) ==
    IF OtherRevision(m, n) THEN "another revision"
    ELSE IF d.dirty THEN "marked" ELSE "unmarked"

LEMMA RefillFacts ==
    ASSUME TypeOK, NEW d \in Draft, NEW m \in Versions, NEW n \in Versions, Sound(d)
    PROVE  /\ Refill(d, m, n) \in Draft /\ Sound(Refill(d, m, n))
           /\ Refill(d, m, n).open = d.open
           /\ d.typed /\ ~Refill(d, m, n).typed => Loses(form, LossAt(d, m, n))
<1>1. CASE ~d.open \/ m = n
  BY <1>1 DEF Refill
<1>2. CASE d.open /\ m # n /\ Remounts(m, n)
  <2>1. Refill(d, m, n) = FilledFrom(n)
    BY <1>2 DEF Refill
  <2>2. Loses(form, LossAt(d, m, n))
    BY <1>2 DEF Remounts, Loses, LossAt
  <2> QED
    BY <1>2, <2>1, <2>2, FilledType, FormFacts
<1>3. CASE d.open /\ m # n /\ ~Remounts(m, n) /\ Forms[form].refills = "never"
  BY <1>3 DEF Refill
<1>4. CASE d.open /\ m # n /\ ~Remounts(m, n) /\ Forms[form].refills = "when clean"
  <2>1. Refill(d, m, n) = Settle(d, n)
    BY <1>4 DEF Refill
  <2>2. /\ Settle(d, n) \in Draft /\ Sound(Settle(d, n)) /\ Settle(d, n).open
        /\ d.dirty => Settle(d, n).typed = d.typed
    BY <1>4, SettleFacts, FormFacts
  <2>3. ASSUME d.typed, ~d.dirty PROVE Loses(form, LossAt(d, m, n))
    BY <1>4, <2>3 DEF Loses, LossAt, Sound
  <2> QED
    BY <1>4, <2>1, <2>2, <2>3 DEF Draft
<1>5. CASE d.open /\ m # n /\ ~Remounts(m, n) /\ Forms[form].refills = "always"
  <2>1. Refill(d, m, n) = FilledAgain(d, n)
    BY <1>5 DEF Refill
  <2>2. Loses(form, LossAt(d, m, n))
    BY <1>5 DEF Loses
  <2> QED
    BY <1>5, <2>1, <2>2, FilledAgainType, FormFacts
<1> QED
  BY <1>1, <1>2, <1>3, <1>4, <1>5, FormFacts DEF Form

LEMMA SavedFacts ==
    ASSUME TypeOK, NEW d \in Draft, NEW m \in Versions, NEW n \in Versions, Sound(d)
    PROVE  Saved(d, m, n) \in Draft /\ Sound(Saved(d, m, n))
<1>1. CASE ~d.waits
  BY <1>1 DEF Saved
<1>2. CASE d.waits /\ Forms[form].closes
  BY <1>2, ClosedType, FormFacts DEF Saved
<1>3. CASE d.waits /\ ~Forms[form].closes /\ Forms[form].refills = "when clean"
  <2>1. Saved(d, m, n) = Settle(FilledFrom(n), m)
    BY <1>3 DEF Saved
  <2>2. FilledFrom(n) \in Draft /\ Sound(FilledFrom(n)) /\ FilledFrom(n).open /\ 0 \in Versions
    BY FilledType, FormFacts
  <2> QED
    BY <2>1, <2>2, SettleFacts
<1>4. CASE d.waits /\ ~Forms[form].closes /\ Forms[form].refills # "when clean"
  <2>1. Saved(d, m, n) = [d EXCEPT !.waits = FALSE]
    BY <1>4 DEF Saved
  <2> QED
    BY <2>1 DEF Sound, Draft
<1> QED
  BY <1>1, <1>2, <1>3, <1>4

-------------------------------------------------------------------------------
LEMMA InitInv == Init => Inv
<1> SUFFICES ASSUME Init PROVE Inv
  OBVIOUS
<1>1. 0 \in Versions
  BY BoundAssumption DEF Versions
<1>2. authors \in Seq(People) /\ Version \in Versions /\ revised \subseteq Versions
  BY <1>1 DEF Init, Version
<1> QED
  BY <1>1, <1>2, ClosedType DEF Init, Inv, TypeOK, FormInv

\* The record of e is all that a step of e changes.
LEMMA OthersKeepInv ==
    ASSUME Inv, NEW x \in Editors, form' = form,
           draft'[x] = draft[x], request'[x] = request[x]
    PROVE  FormInv(x)'
  BY DEF Inv, FormInv, Sound

\* A version is written by somebody: the record's history grows by one.
LEMMA HistoryGrows ==
    ASSUME TypeOK, NEW p \in People, Version < MaxVersion, authors' = Append(authors, p)
    PROVE  /\ authors' \in Seq(People)
           /\ Version' = Version + 1 /\ Version' \in Versions
<1>1. authors \in Seq(People) /\ Len(authors) \in Nat /\ MaxVersion \in Nat
  BY FormFacts DEF TypeOK, Version
<1>2. authors' \in Seq(People) /\ Len(authors') = Len(authors) + 1
  BY <1>1
<1> QED
  BY <1>1, <1>2 DEF Version, Versions

LEMMA NextInv == Inv /\ [Next]_vars => Inv'
<1> SUFFICES ASSUME Inv, [Next]_vars PROVE Inv'
  OBVIOUS
<1>0. /\ TypeOK /\ \A e \in Editors : FormInv(e)
      /\ Version \in Versions /\ Version \in Nat /\ MaxVersion \in Nat /\ 0 \in Versions
  BY FormFacts DEF Inv
<1>1. ASSUME NEW e \in Editors, NEW d \in Draft, draft' = [draft EXCEPT ![e] = d],
             Sound(d),
             UNCHANGED <<form, authors, revised, request>>, answer' \in [Editors -> Versions]
      PROVE  Inv'
  <2>1. TypeOK'
    BY <1>0, <1>1 DEF TypeOK, Version
  <2>2. FormInv(e)'
    BY <1>0, <1>1 DEF FormInv, Sound, TypeOK
  <2>3. ASSUME NEW x \in Editors, x # e PROVE FormInv(x)'
    BY <1>0, <1>1, <2>3, OthersKeepInv DEF TypeOK
  <2> QED
    BY <2>1, <2>2, <2>3 DEF Inv
<1>2. ASSUME NEW e \in Editors, Open(e)
      PROVE  Inv'
  <2>1. answer[e] \in Versions /\ FilledFrom(answer[e]) \in Draft
    BY <1>0, FilledType DEF TypeOK
  <2> QED
    BY <1>0, <1>1, <1>2, <2>1, FilledType DEF Open, TypeOK
<1>3. ASSUME NEW e \in Editors, Leave(e)
      PROVE  Inv'
  BY <1>0, <1>1, <1>3, ClosedType DEF Leave, TypeOK
<1>4. ASSUME NEW e \in Editors, Refetch(e)
      PROVE  Inv'
  <2>1. draft[e] \in Draft /\ answer[e] \in Versions /\ Sound(draft[e])
    BY <1>0 DEF TypeOK, FormInv
  <2> DEFINE d == Refill(draft[e], answer[e], Version)
  <2>2. d \in Draft /\ Sound(d)
    BY <1>0, <2>1, RefillFacts
  <2>3. draft' = [draft EXCEPT ![e] = d]
    BY <1>4 DEF Refetch
  <2>4. UNCHANGED <<form, authors, revised, request>> /\ answer' \in [Editors -> Versions]
    BY <1>0, <1>4 DEF Refetch, TypeOK
  <2> HIDE DEF d
  <2> QED
    BY <1>1, <2>2, <2>3, <2>4
<1>5. ASSUME NEW e \in Editors, Type(e) \/ Remove(e)
      PROVE  Inv'
  <2>1. draft[e] \in Draft /\ Sound(draft[e]) /\ draft[e].open
    BY <1>0, <1>5 DEF TypeOK, FormInv, Type, Remove
  <2>2. CASE Type(e)
    <3> DEFINE d == [draft[e] EXCEPT !.typed = TRUE, !.dirty = TRUE]
    <3>1. d \in Draft /\ Sound(d)
      BY <2>1 DEF Draft, Sound
    <3>2. draft' = [draft EXCEPT ![e] = d] /\ UNCHANGED <<form, authors, revised, answer, request>>
      BY <2>2 DEF Type
    <3> HIDE DEF d
    <3> QED
      BY <1>0, <1>1, <3>1, <3>2 DEF TypeOK
  <2>3. CASE Remove(e)
    <3> DEFINE d == [draft[e] EXCEPT !.typed = TRUE]
    <3>1. d \in Draft /\ Sound(d)
      BY <2>1, <2>3 DEF Draft, Sound, Remove
    <3>2. draft' = [draft EXCEPT ![e] = d] /\ UNCHANGED <<form, authors, revised, answer, request>>
      BY <2>3 DEF Remove
    <3> HIDE DEF d
    <3> QED
      BY <1>0, <1>1, <3>1, <3>2 DEF TypeOK
  <2> QED
    BY <1>5, <2>2, <2>3
<1>6. ASSUME NEW e \in Editors, Save(e)
      PROVE  Inv'
  <2>1. /\ draft[e] \in Draft /\ draft[e].text \in Versions /\ draft[e].base \in Versions
        /\ answer[e] \in Versions /\ Sound(draft[e]) /\ draft[e].open
    BY <1>0, <1>6 DEF TypeOK, FormInv, Draft, Save
  <2>2. PICK v \in Versions :
          /\ request' = [request EXCEPT ![e] =
                            [state |-> "sent", text |-> draft[e].text, version |-> v]]
          /\ Forms[form].sends = "filled" => v = draft[e].base
    BY <1>6, <2>1 DEF Save
  <2> DEFINE d == [draft[e] EXCEPT !.waits = TRUE]
  <2>3. UNCHANGED <<form, authors, revised, answer>> /\ draft' = [draft EXCEPT ![e] = d]
    BY <1>6 DEF Save
  <2>4. d \in Draft /\ Sound(d)
    BY <2>1 DEF Draft, Sound
  <2> HIDE DEF d
  <2>5. TypeOK'
    BY <1>0, <2>1, <2>2, <2>3, <2>4 DEF TypeOK, Request, Version
  <2>6. FormInv(e)'
    <3>1. draft'[e] = d /\ request'[e] = [state |-> "sent", text |-> draft[e].text, version |-> v]
      BY <1>0, <2>2, <2>3 DEF TypeOK
    <3> QED
      BY <2>1, <2>2, <2>3, <2>4, <3>1 DEF FormInv, Sound
  <2>7. ASSUME NEW x \in Editors, x # e PROVE FormInv(x)'
    BY <1>0, <2>2, <2>3, <2>7, OthersKeepInv DEF TypeOK
  <2> QED
    BY <2>5, <2>6, <2>7 DEF Inv
<1>7. ASSUME NEW e \in Editors, Write(e)
      PROVE  Inv'
  <2>1. UNCHANGED <<form, revised, answer, draft>> /\ e \in People /\ Version < MaxVersion
    BY <1>7 DEF Write, People
  <2>2. request' = [request EXCEPT ![e].state = "refused"]
          \/ request' = [request EXCEPT ![e].state = "saved", ![e].version = Version + 1]
    BY <1>7 DEF Write
  <2>3. authors' = authors \/ authors' = Append(authors, e)
    BY <1>7 DEF Write
  <2>4. authors' \in Seq(People) /\ Version' \in Versions
    BY <1>0, <2>1, <2>3, HistoryGrows DEF TypeOK, Version
  <2>5. Version + 1 \in Versions
    BY <1>0, <2>1 DEF Versions
  <2>6. request' \in [Editors -> Request] /\ request'[e].state # "sent"
    BY <1>0, <2>2, <2>5 DEF TypeOK, Request
  <2>7. \A x \in Editors : x # e => request'[x] = request[x]
    BY <1>0, <2>2 DEF TypeOK
  <2>8. FormInv(e)'
    BY <1>0, <2>1, <2>6 DEF FormInv, Sound
  <2>9. ASSUME NEW x \in Editors, x # e PROVE FormInv(x)'
    BY <2>1, <2>7, <2>9, OthersKeepInv
  <2> QED
    BY <1>0, <2>1, <2>4, <2>6, <2>8, <2>9 DEF Inv, TypeOK
<1>8. ASSUME NEW e \in Editors, NEW d \in Draft, Sound(d),
             draft' = [draft EXCEPT ![e] = d], request' = [request EXCEPT ![e] = Idle],
             UNCHANGED <<form, authors, revised, answer>>
      PROVE  Inv'
  <2>1. TypeOK'
    BY <1>0, <1>8, ClosedType DEF TypeOK, Version
  <2>2. FormInv(e)'
    BY <1>0, <1>8, ClosedType DEF FormInv, Sound, TypeOK
  <2>3. ASSUME NEW x \in Editors, x # e PROVE FormInv(x)'
    BY <1>0, <1>8, <2>3, OthersKeepInv DEF TypeOK
  <2> QED
    BY <2>1, <2>2, <2>3 DEF Inv
<1>9. ASSUME NEW e \in Editors, Succeed(e)
      PROVE  Inv'
  <2>1. /\ draft[e] \in Draft /\ answer[e] \in Versions /\ request[e].version \in Versions
        /\ Sound(draft[e])
    BY <1>0 DEF TypeOK, FormInv, Request
  <2> DEFINE d == Saved(draft[e], answer[e], request[e].version)
  <2>2. d \in Draft /\ Sound(d)
    BY <1>0, <2>1, SavedFacts
  <2>3. /\ draft' = [draft EXCEPT ![e] = d] /\ request' = [request EXCEPT ![e] = Idle]
        /\ UNCHANGED <<form, authors, revised, answer>>
    BY <1>9 DEF Succeed
  <2> HIDE DEF d
  <2> QED
    BY <1>8, <2>2, <2>3
<1>10. ASSUME NEW e \in Editors, Fail(e)
       PROVE  Inv'
  <2>1. draft[e] \in Draft /\ Sound(draft[e])
    BY <1>0 DEF TypeOK, FormInv
  <2>2. PICK stops \in BOOLEAN :
          draft' = [draft EXCEPT ![e].conflict = @ \/ stops, ![e].waits = FALSE]
    BY <1>10 DEF Fail
  <2> DEFINE d == [draft[e] EXCEPT !.conflict = draft[e].conflict \/ stops, !.waits = FALSE]
  <2>3. d \in Draft /\ Sound(d)
    <3>1. (draft[e].conflict \/ stops) \in BOOLEAN
      BY <2>1 DEF Draft
    <3> HIDE DEF d
    <3> DEFINE c == draft[e].conflict \/ stops
    <3>2. d = [draft[e] EXCEPT !.conflict = c, !.waits = FALSE]
      BY DEF d
    <3> HIDE DEF c
    <3>3. c \in BOOLEAN
      BY <3>1 DEF c
    <3> QED
      BY <2>1, <3>2, <3>3 DEF Draft, Sound
  <2>4. /\ draft' = [draft EXCEPT ![e] = d] /\ request' = [request EXCEPT ![e] = Idle]
        /\ UNCHANGED <<form, authors, revised, answer>>
    BY <1>0, <1>10, <2>2 DEF Fail, TypeOK
  <2> HIDE DEF d
  <2> QED
    BY <1>8, <2>3, <2>4
<1>11. ASSUME NEW e \in Editors, LoadLatest(e)
       PROVE  Inv'
  <2>1. answer[e] \in Versions /\ draft[e] \in Draft
    BY <1>0 DEF TypeOK
  <2> DEFINE d == FilledAgain(draft[e], answer[e])
  <2>2. d \in Draft /\ Sound(d)
    BY <1>0, <2>1, FilledAgainType
  <2>3. draft' = [draft EXCEPT ![e] = d] /\ UNCHANGED <<form, authors, revised, answer, request>>
    BY <1>11 DEF LoadLatest
  <2> HIDE DEF d
  <2> QED
    BY <1>0, <1>1, <2>2, <2>3 DEF TypeOK
<1>12. CASE Elsewhere
  <2>1. UNCHANGED <<form, answer, draft, request>> /\ Colleague \in People
    BY <1>12 DEF Elsewhere, People
  <2>2. authors' \in Seq(People) /\ Version' \in Versions
    BY <1>0, <1>12, <2>1, HistoryGrows DEF Elsewhere
  <2>3. revised' \subseteq Versions
    BY <1>0, <1>12 DEF Elsewhere, TypeOK, Versions
  <2> QED
    BY <1>0, <2>1, <2>2, <2>3, OthersKeepInv DEF Inv, TypeOK
<1>13. CASE UNCHANGED vars
  BY <1>0, <1>13, OthersKeepInv DEF vars, Inv, TypeOK, Version
<1> QED
  BY <1>2, <1>3, <1>4, <1>5, <1>6, <1>7, <1>9, <1>10, <1>11, <1>12, <1>13 DEF Next

LEMMA Always == Spec => []Inv
  BY InitInv, NextInv, PTL DEF Spec

\* Every form, answer and request is of its declared type.
THEOREM TypeCorrect == Spec => []TypeOK
<1>1. Inv => TypeOK
  BY DEF Inv
<1> QED
  BY <1>1, Always, PTL

\* A form that sends the version its text was filled from overwrites nothing
\* its user has not seen, however many edit at once.
THEOREM NothingSilentlyOverwritten == Spec => NoSilentOverwrite
<1>1. Inv /\ [Next]_vars =>
        [\A e \in Editors :
            request[e].state = "sent" /\ request'[e].state = "saved" =>
                request[e].text = Version \/ form \in Overwriting]_vars
  <2> SUFFICES ASSUME Inv, Next, NEW e \in Editors,
                      request[e].state = "sent", request'[e].state = "saved"
               PROVE  request[e].text = Version \/ form \in Overwriting
    BY DEF vars
  <2>1. TypeOK /\ FormInv(e)
    BY DEF Inv
  <2>2. PICK x \in Editors :
          \/ Save(x) \/ Write(x) \/ Succeed(x) \/ Fail(x)
          \/ UNCHANGED request
    BY DEF Next, Open, Leave, Refetch, Type, Remove, LoadLatest, Elsewhere
  <2>3. Write(e)
    <3>1. x = e /\ ~UNCHANGED request
      BY <2>1, <2>2 DEF Save, Write, Succeed, Fail, TypeOK
    <3>2. ~Save(e) /\ ~Succeed(e) /\ ~Fail(e)
      BY DEF Save, Succeed, Fail
    <3> QED
      BY <2>2, <3>1, <3>2
  <2>4. CASE Forms[form].sends = "filled"
    <3>1. request[e].version = Version
      <4> SUFFICES ASSUME request[e].version # Version
                   PROVE  FALSE
        OBVIOUS
      <4>1. request' = [request EXCEPT ![e].state = "refused"]
        BY <2>3, <2>4 DEF Write
      <4> QED
        BY <2>1, <4>1 DEF TypeOK
    <3> QED
      BY <2>1, <2>4, <3>1 DEF FormInv
  <2>5. CASE Forms[form].sends # "filled"
    BY <2>1, <2>5, ExceptionsAssumption DEF TypeOK
  <2> QED
    BY <2>4, <2>5
<1> QED
  BY <1>1, Always, PTL DEF Spec, NoSilentOverwrite

\* Whatever arrives meanwhile, the text of an open form stays until its user or
\* the answer to its own save takes it away, but for the losses a form is built
\* with: those of Loses, which the constants name.
THEOREM TypedTextStays == Spec => UnsavedTextKept
<1>1. Inv /\ [Next]_vars =>
        [\A e \in Editors :
            draft[e].typed /\ draft'[e].open /\ ~draft'[e].typed =>
                \/ Succeed(e) \/ LoadLatest(e)
                \/ <<form, LossOf(e)>> \in Dropping]_vars
  <2> SUFFICES ASSUME Inv, Next, NEW e \in Editors,
                      draft[e].typed, draft'[e].open, ~draft'[e].typed,
                      ~Succeed(e), ~LoadLatest(e)
               PROVE  <<form, LossOf(e)>> \in Dropping
    BY DEF vars
  <2>1. /\ TypeOK /\ FormInv(e) /\ Sound(draft[e]) /\ draft[e].open
        /\ draft[e] \in Draft /\ draft \in [Editors -> Draft]
    BY DEF Inv, FormInv, Sound, TypeOK
  <2>2. PICK x \in Editors :
          \/ Open(x) \/ Leave(x) \/ Refetch(x) \/ Type(x) \/ Remove(x) \/ Save(x)
          \/ Succeed(x) \/ Fail(x) \/ LoadLatest(x)
          \/ UNCHANGED draft
    BY DEF Next, Write, Elsewhere
  <2>3. x = e
    BY <2>1, <2>2 DEF Open, Leave, Refetch, Type, Remove, Save, Succeed, Fail, LoadLatest
  <2>4. ~UNCHANGED draft /\ ~Open(e)
    BY <2>1 DEF Open
  <2>5. ~Leave(e)
    BY <2>1, ClosedType, FormFacts DEF Leave
  <2>6. CASE Refetch(e)
    <3>1. answer[e] \in Versions /\ Version \in Versions
          /\ answer'[e] = Version /\ draft'[e] = Refill(draft[e], answer[e], Version)
      BY <2>1, <2>6, FormFacts DEF TypeOK, Refetch
    <3>2. Loses(form, LossAt(draft[e], answer[e], Version))
      BY <2>1, <3>1, RefillFacts
    <3>3. LossOf(e) = LossAt(draft[e], answer[e], Version) /\ LossOf(e) \in Loss
      BY <3>1 DEF LossOf, LossAt, Loss
    <3> QED
      BY <2>1, <3>2, <3>3, ExceptionsAssumption DEF TypeOK
  <2>7. ~Type(e) /\ ~Remove(e) /\ ~Save(e)
    BY <2>1 DEF Type, Remove, Save, Draft
  <2>8. ~Fail(e)
    <3> SUFFICES ASSUME Fail(e) PROVE FALSE
      OBVIOUS
    <3>1. PICK stops \in BOOLEAN :
            draft' = [draft EXCEPT ![e].conflict = @ \/ stops, ![e].waits = FALSE]
      BY DEF Fail
    <3> DEFINE c == draft[e].conflict \/ stops
    <3>2. draft'[e] = [draft[e] EXCEPT !.conflict = c, !.waits = FALSE]
      BY <2>1, <3>1, Zenon
    <3> HIDE DEF c
    <3>3. draft'[e].typed = draft[e].typed
      BY <2>1, <3>2 DEF Draft
    <3> QED
      BY <3>3
  <2> QED
    BY <2>2, <2>3, <2>4, <2>5, <2>6, <2>7, <2>8
<1> QED
  BY <1>1, Always, PTL DEF Spec, UnsavedTextKept
===============================================================================
