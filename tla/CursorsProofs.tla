---------------------------- MODULE CursorsProofs ----------------------------
(***************************************************************************)
(* Proofs about Cursors: its inductive invariant, and that both iterators    *)
(* implement RowStream, for any number of iterators and rows, any faults and *)
(* any time at which the cursor is closed.                                   *)
(***************************************************************************)
EXTENDS Cursors, Integers, TLAPS

(* At the start nothing has been handed out and the statement is not run.     *)
LEMMA InitInductive ==
    ASSUME ConstantsOK, Init
    PROVE  Inductive
<1> USE DEF ConstantsOK, Init
<1> DEFINE none == <<>>
<1>1. none \in Seq(0 .. RowCount) /\ DOMAIN none = {} /\ Len(none) = 0
  OBVIOUS
<1>2. out = [i \in Iterators |-> none]
  OBVIOUS
<1> HIDE DEF none
<1>a. out \in [Iterators -> Seq(0 .. RowCount)]
  BY <1>1, <1>2
<1>b. /\ position \in 0 .. RowCount
      /\ nextElement \in [Iterators -> {None} \cup 0 .. RowCount]
      /\ from \in [Iterators -> 0 .. RowCount]
  OBVIOUS
<1>c. closed \in BOOLEAN /\ platform \in Platforms
  OBVIOUS
<1>2a. TypeOK
  BY <1>a, <1>b, <1>c DEF TypeOK
<1>3. \A i \in Iterators : out[i] = <<>> /\ DOMAIN out[i] = {} /\ Len(out[i]) = 0
  BY <1>1, <1>2 DEF none
<1> QED
  BY <1>2a, <1>3 DEF Inductive, EndReleases, OneReader, Started,
                    InStep, Fetched, Failed

(* An iterator that appends a result keeps a sequence of results.             *)
LEMMA ResultsStaySequences ==
    ASSUME NEW s \in Seq(0 .. RowCount), NEW r \in 0 .. RowCount
    PROVE  /\ Append(s, r) \in Seq(0 .. RowCount)
           /\ Len(Append(s, r)) = Len(s) + 1
           /\ \A k \in DOMAIN Append(s, r) :
                 Append(s, r)[k] = r \/ (k \in DOMAIN s /\ Append(s, r)[k] = s[k])
  OBVIOUS

(* The types hold after every step.                                           *)
LEMMA TypeStep ==
    ASSUME ConstantsOK, TypeOK, [Next]_vars
    PROVE  TypeOK'
<1> USE DEF ConstantsOK, TypeOK, Failure
<1>1. CASE UNCHANGED vars
  BY <1>1 DEF vars, iterVars
<1>2. ASSUME NEW i \in Iterators, MakeIterator(i) \/ Drop(i) \/ Collect(i)
      PROVE  TypeOK'
  <2>1. CASE MakeIterator(i)
    BY <2>1 DEF MakeIterator
  <2>2. CASE Drop(i) \/ Collect(i)
    <3>1. closed' \in BOOLEAN
      BY <2>2, Zenon DEF Drop, Collect, Close
    <3> QED BY <2>2, <3>1 DEF Drop, Collect, iterVars
  <2> QED BY <1>2, <2>1, <2>2
<1>3. ASSUME NEW i \in Iterators, NextRow(i)
      PROVE  TypeOK'
  <2>1. position' \in 0 .. RowCount
    BY <1>3 DEF NextRow, StepRow
  <2>2. out' = [out EXCEPT ![i] = Append(out[i], position')]
    BY <1>3 DEF NextRow
  <2>3. Append(out[i], position') \in Seq(0 .. RowCount)
    BY <2>1, ResultsStaySequences
  <2> QED BY <1>3, <2>1, <2>2, <2>3 DEF NextRow
<1>4. ASSUME NEW i \in Iterators, NextNil(i)
      PROVE  TypeOK'
  BY <1>4 DEF NextNil, StepDone
<1>5. ASSUME NEW i \in Iterators, NextFails(i)
      PROVE  TypeOK'
  <2>1. position' \in 0 .. RowCount
    BY <1>5 DEF NextFails, FetchThrows, StepThrows, StepRow
  <2>2. Append(out[i], Failure) \in Seq(0 .. RowCount)
    BY ResultsStaySequences
  <2> QED BY <1>5, <2>1, <2>2 DEF NextFails
<1>6. ASSUME NEW i \in Iterators, HasNextTrue(i)
      PROVE  TypeOK'
  BY <1>6 DEF HasNextTrue, StepRow
<1>7. ASSUME NEW i \in Iterators, HasNextFalse(i)
      PROVE  TypeOK'
  <2>1. position' \in 0 .. RowCount
    BY <1>7 DEF HasNextFalse, StepDone
  <2>2. closed' \in BOOLEAN
    BY <1>7, Zenon DEF HasNextFalse, Close
  <2> QED BY <1>7, <2>1, <2>2 DEF HasNextFalse
<1>8. ASSUME NEW i \in Iterators, HasNextFails(i)
      PROVE  TypeOK'
  <2>1. position' \in 0 .. RowCount
    BY <1>8 DEF HasNextFails, FetchThrows, StepThrows, StepRow
  <2> QED BY <1>8, <2>1 DEF HasNextFails, Close
<1>9. ASSUME NEW i \in Iterators, NextElement(i)
      PROVE  TypeOK'
  <2>1. nextElement[i] \in 0 .. RowCount
    BY <1>9 DEF NextElement
  <2>2. Append(out[i], nextElement[i]) \in Seq(0 .. RowCount)
    BY <2>1, ResultsStaySequences
  <2> QED BY <1>9, <2>2 DEF NextElement
<1>10. CASE CloseCursor
  BY <1>10 DEF CloseCursor, Close, iterVars
<1> QED
  BY <1>1, <1>2, <1>3, <1>4, <1>5, <1>6, <1>7, <1>8, <1>9, <1>10 DEF Next, Advance

(* Who has moved the statement, and that an end releases it, after every step. *)
LEMMA ReaderStep ==
    ASSUME ConstantsOK, Inductive, [Next]_vars
    PROVE  EndReleases' /\ OneReader'
<1> USE DEF Inductive, EndReleases, OneReader
<1>1. CASE UNCHANGED vars
  BY <1>1 DEF vars, iterVars, LeftAt, At
<1>2. ASSUME NEW i \in Iterators, MakeIterator(i)
      PROVE  EndReleases' /\ OneReader'
  <2>1. /\ state'[i] = "open" /\ UNCHANGED <<platform, closed, ended>>
        /\ \A j \in Iterators \ {i} : state'[j] # "open"
    BY <1>2 DEF MakeIterator, TypeOK
  <2> QED BY <2>1
<1>3. ASSUME NEW i \in Iterators, Drop(i)
      PROVE  EndReleases' /\ OneReader'
  <2>1. /\ state[i] = "open" /\ state'[i] = "dropped"
        /\ \A j \in Iterators \ {i} : state'[j] = state[j]
        /\ UNCHANGED <<platform, position, ended, errorOccurred, asked, out, from>>
        /\ closed => closed'
    BY <1>3 DEF Drop, Close, iterVars, TypeOK
  <2>2. CASE closed'
    BY <2>1, <2>2
  <2>3. CASE ~closed'
    <3>1. platform = "kotlin" /\ ~closed
      BY <1>3, <2>3 DEF Drop, Close
    <3>2. ~ended[i] /\ ~errorOccurred[i] /\ position = At(i)
      BY <2>1, <3>1 DEF InStep
    <3>3. LeftAt(i)'
      BY <2>1, <3>1, <3>2 DEF LeftAt, At
    <3> QED BY <2>1, <2>3, <3>1, <3>3
  <2> QED BY <2>2, <2>3
<1>4. ASSUME NEW i \in Iterators, NextRow(i) \/ NextNil(i) \/ NextFails(i)
      PROVE  EndReleases' /\ OneReader'
  <2>1. UNCHANGED <<platform, closed, state>> /\ platform = "swift" /\ state[i] = "open"
    BY <1>4 DEF NextRow, NextNil, NextFails, Asking
  <2> QED BY <2>1
<1>5. ASSUME NEW i \in Iterators, HasNextTrue(i) \/ NextElement(i)
      PROVE  EndReleases' /\ OneReader'
  <2>1. UNCHANGED <<platform, closed, state, ended>> /\ state[i] = "open"
    BY <1>5 DEF HasNextTrue, NextElement, Asking
  <2> QED BY <2>1
<1>6. ASSUME NEW i \in Iterators, HasNextFalse(i) \/ HasNextFails(i)
      PROVE  EndReleases' /\ OneReader'
  <2>1. UNCHANGED state /\ state[i] = "open"
    BY <1>6 DEF HasNextFalse, HasNextFails, Asking
  <2>2. closed'
    BY <1>6 DEF HasNextFalse, HasNextFails, Close
  <2> QED BY <2>1, <2>2
<1>7. CASE CloseCursor \/ \E i \in Iterators : Collect(i)
  BY <1>7 DEF CloseCursor, Collect, Close, iterVars
<1> QED
  BY <1>1, <1>2, <1>3, <1>4, <1>5, <1>6, <1>7 DEF Next, Advance

(* Where an iterator is, and what it has handed out, after every step.        *)
LEMMA IteratorStep ==
    ASSUME ConstantsOK, Inductive, [Next]_vars, NEW j \in Iterators
    PROVE  /\ Started(j)' /\ InStep(j)' /\ Fetched(j)'
           /\ (Failed(j) => errorOccurred[j])'
           /\ (platform = "kotlin" /\ errorOccurred[j] => closed)'
<1> DEFINE Goal == /\ Started(j)' /\ InStep(j)' /\ Fetched(j)'
                   /\ (Failed(j) => errorOccurred[j])'
                   /\ (platform = "kotlin" /\ errorOccurred[j] => closed)'
<1> SUFFICES Goal
  OBVIOUS
<1>a. /\ TypeOK /\ OneReader
      /\ Started(j) /\ InStep(j) /\ Fetched(j)
      /\ Failed(j) => errorOccurred[j]
      /\ platform = "kotlin" /\ errorOccurred[j] => closed
  BY DEF Inductive
<1> USE <1>a DEF ConstantsOK, TypeOK, Started, InStep, Fetched, Failed, Failure, At
<1>1. CASE UNCHANGED vars
  BY <1>1 DEF vars, iterVars
<1>2. ASSUME NEW i \in Iterators, MakeIterator(i)
      PROVE  Goal
  <2>1. CASE i = j
    <3>1. platform = "swift" /\ ~closed => position = 0
      BY <1>2 DEF MakeIterator, OneReader, LeftAt
    <3>2. out'[j] = <<>> /\ Len(out'[j]) = 0 /\ DOMAIN out'[j] = {}
      BY <1>2, <2>1 DEF MakeIterator
    <3> QED BY <1>2, <2>1, <3>1, <3>2 DEF MakeIterator
  <2>2. CASE i # j
    BY <1>2, <2>2 DEF MakeIterator
  <2> QED BY <2>1, <2>2
<1>3. ASSUME NEW i \in Iterators, Drop(i) \/ Collect(i)
      PROVE  Goal
  <2>1. /\ UNCHANGED <<platform, position, errorOccurred, nextElement, asked, ended, out, from>>
        /\ closed => closed'
        /\ state'[j] \in {state[j], "dropped"}
        /\ state'[j] = "open" \/ state'[j] = "none" => state'[j] = state[j]
    BY <1>3 DEF Drop, Collect, Close, iterVars
  <2> QED BY <2>1
<1>4. ASSUME NEW i \in Iterators, NextRow(i)
      PROVE  Goal
  <2>1. CASE i = j
    <3>1. ~asked[j] /\ ~errorOccurred[j] /\ ~ended[j] /\ ~Failed(j)
      BY <1>4, <2>1 DEF NextRow, Asking
    <3>2. /\ out'[j] = Append(out[j], position')
          /\ position' \in 0 .. RowCount /\ position' = position + 1
          /\ UNCHANGED <<state, closed, errorOccurred, asked, ended, platform, nextElement, from>>
          /\ state[j] = "open" /\ ~closed
      BY <1>4, <2>1 DEF NextRow, StepRow, Asking
    <3>3. /\ Len(out'[j]) = Len(out[j]) + 1
          /\ \A k \in DOMAIN out'[j] : out'[j][k] = position'
                \/ (k \in DOMAIN out[j] /\ out'[j][k] = out[j][k])
      BY <3>2, ResultsStaySequences
    <3>4. ~Failed(j)' /\ Started(j)' /\ Fetched(j)'
      BY <3>1, <3>2, <3>3
    <3>5. InStep(j)'
      BY <3>1, <3>2, <3>3
    <3> QED BY <3>1, <3>2, <3>4, <3>5
  <2>2. CASE i # j
    <3>1. state[j] # "open"
      BY <1>4, <2>2 DEF NextRow, Asking, OneReader
    <3> QED BY <1>4, <2>2, <3>1 DEF NextRow
  <2> QED BY <2>1, <2>2
<1>5. ASSUME NEW i \in Iterators, NextNil(i)
      PROVE  Goal
  <2>1. CASE i = j
    <3>1. /\ state'[j] = "open" /\ ended'[j] /\ platform' = "swift"
          /\ UNCHANGED <<closed, state, errorOccurred, nextElement, asked, out, from>>
          /\ ~asked[j] /\ platform = "swift" /\ from'[j] = 0
      BY <1>5, <2>1 DEF NextNil, Asking
    <3> QED BY <3>1
  <2>2. CASE i # j
    <3>1. state[j] # "open"
      BY <1>5, <2>2 DEF NextNil, Asking, OneReader
    <3> QED BY <1>5, <2>2, <3>1 DEF NextNil
  <2> QED BY <2>1, <2>2
<1>6. ASSUME NEW i \in Iterators, NextFails(i)
      PROVE  Goal
  <2>1. CASE i = j
    <3>1. /\ state'[j] = "open" /\ errorOccurred'[j] /\ platform' = "swift"
          /\ ~asked[j] /\ ~asked'[j] /\ from' = from /\ from[j] = 0
      BY <1>6, <2>1 DEF NextFails, Asking
    <3> QED BY <3>1
  <2>2. CASE i # j
    <3>1. state[j] # "open"
      BY <1>6, <2>2 DEF NextFails, Asking, OneReader
    <3> QED BY <1>6, <2>2, <3>1 DEF NextFails
  <2> QED BY <2>1, <2>2
<1>7. ASSUME NEW i \in Iterators, HasNextTrue(i)
      PROVE  Goal
  <2>1. CASE i = j
    <3>1. /\ ~asked[j] /\ ~errorOccurred[j] /\ ~ended[j] /\ ~closed /\ state[j] = "open"
          /\ platform = "kotlin" /\ position < RowCount /\ position' = position + 1
          /\ asked'[j] /\ nextElement'[j] = position'
          /\ UNCHANGED <<platform, closed, state, errorOccurred, ended, out, from>>
      BY <1>7, <2>1 DEF HasNextTrue, StepRow, Asking
    <3>2. position = from[j] + Len(out[j])
      BY <3>1
    <3> QED BY <3>1, <3>2
  <2>2. CASE i # j
    <3>1. state[j] # "open"
      BY <1>7, <2>2 DEF HasNextTrue, Asking, OneReader
    <3> QED BY <1>7, <2>2, <3>1 DEF HasNextTrue
  <2> QED BY <2>1, <2>2
<1>8. ASSUME NEW i \in Iterators, HasNextFalse(i)
      PROVE  Goal
  <2>1. CASE i = j
    <3>1. /\ state[j] = "open" /\ ended'[j] /\ ~asked[j]
          /\ UNCHANGED <<platform, state, errorOccurred, asked, out, from>>
          /\ errorOccurred[j] => closed'
      BY <1>8, <2>1 DEF HasNextFalse, Asking, Close
    <3> QED BY <3>1
  <2>2. CASE i # j
    <3>1. state[j] # "open"
      BY <1>8, <2>2 DEF HasNextFalse, Asking, OneReader
    <3> QED BY <1>8, <2>2, <3>1 DEF HasNextFalse, Close
  <2> QED BY <2>1, <2>2
<1>9. ASSUME NEW i \in Iterators, HasNextFails(i)
      PROVE  Goal
  <2>1. CASE i = j
    <3>1. /\ state[j] = "open" /\ ended'[j] /\ ~asked[j] /\ errorOccurred'[j] /\ closed'
          /\ UNCHANGED <<platform, state, asked, out, from>>
      BY <1>9, <2>1 DEF HasNextFails, Asking, Close
    <3> QED BY <3>1
  <2>2. CASE i # j
    <3>1. state[j] # "open"
      BY <1>9, <2>2 DEF HasNextFails, Asking, OneReader
    <3> QED BY <1>9, <2>2, <3>1 DEF HasNextFails, Close
  <2> QED BY <2>1, <2>2
<1>10. ASSUME NEW i \in Iterators, NextElement(i)
      PROVE  Goal
  <2>1. CASE i = j
    <3>1. /\ asked[j] /\ ~asked'[j] /\ state[j] = "open"
          /\ out'[j] = Append(out[j], nextElement[j])
          /\ UNCHANGED <<platform, closed, position, state, errorOccurred, ended, from>>
      BY <1>10, <2>1 DEF NextElement, Asking
    <3>2. nextElement[j] = from[j] + Len(out[j]) + 1 /\ nextElement[j] \in 0 .. RowCount
          /\ nextElement[j] # 0 /\ ~errorOccurred[j] /\ ~Failed(j)
      BY <3>1
    <3>3. /\ Len(out'[j]) = Len(out[j]) + 1
          /\ \A k \in DOMAIN out'[j] : out'[j][k] = nextElement[j]
                \/ (k \in DOMAIN out[j] /\ out'[j][k] = out[j][k])
      BY <3>1, <3>2, ResultsStaySequences
    <3>4. ~Failed(j)'
      BY <3>2, <3>3
    <3>5. Started(j)' /\ Fetched(j)'
      BY <3>1
    <3>6. InStep(j)'
      <4>1. state'[j] = "open" /\ ~closed' /\ ~ended'[j] => position = At(j)
        BY <3>1, <3>2
      <4>2. At(j)' = At(j)
        BY <3>1, <3>3
      <4> QED BY <3>1, <4>1, <4>2
    <3> QED BY <3>1, <3>2, <3>4, <3>5, <3>6
  <2>2. CASE i # j
    <3>1. state[j] # "open"
      BY <1>10, <2>2 DEF NextElement, Asking, OneReader
    <3> QED BY <1>10, <2>2, <3>1 DEF NextElement
  <2> QED BY <2>1, <2>2
<1>11. CASE CloseCursor
  BY <1>11 DEF CloseCursor, Close, iterVars
<1> QED
  BY <1>1, <1>2, <1>3, <1>4, <1>5, <1>6, <1>7, <1>8, <1>9, <1>10, <1>11
     DEF Next, Advance

(* The invariant holds after every step.                                      *)
LEMMA InductiveStep ==
    ASSUME ConstantsOK, Inductive, [Next]_vars
    PROVE  Inductive'
<1>1. TypeOK'
  BY TypeStep DEF Inductive
<1> QED
  BY <1>1, ReaderStep, IteratorStep DEF Inductive

(* Both iterators, over a cursor that may be closed at any time: where the    *)
(* statement is, whose loop has moved it there, and that on Android a loop    *)
(* that ended leaves it closed.                                               *)
THEOREM CursorsInductive == ASSUME ConstantsOK PROVE Spec => []Inductive
<1>1. Init => Inductive
  BY InitInductive
<1>2. Inductive /\ [Next]_vars => Inductive'
  BY InductiveStep
<1> QED
  BY <1>1, <1>2, PTL DEF Spec

-----------------------------------------------------------------------------
(* What the mapping shows of an iterator that no call of this step is about.  *)
LEMMA StreamUnchanged ==
    ASSUME UNCHANGED <<platform, errorOccurred, nextElement, ended, out, from>>,
           \A i \in Iterators : state'[i] = "none" <=> state[i] = "none"
    PROVE  UNCHANGED Stream!vars
  BY DEF Stream!vars

(* A step of a cursor is a step of the stream or none.                        *)
LEMMA StreamStep ==
    ASSUME ConstantsOK, Inductive, [Next]_vars
    PROVE  [Stream!Next]_(Stream!vars)
<1> USE DEF ConstantsOK, TypeOK, Failure
<1>0. /\ TypeOK /\ OneReader
      /\ \A i \in Iterators : Started(i) /\ InStep(i) /\ Fetched(i)
  BY DEF Inductive
<1>1. CASE UNCHANGED vars
  BY <1>1, StreamUnchanged DEF vars, iterVars
<1>2. ASSUME NEW i \in Iterators, Drop(i) \/ Collect(i)
      PROVE  UNCHANGED Stream!vars
  BY <1>0, <1>2, StreamUnchanged DEF Drop, Collect, iterVars
<1>3. CASE CloseCursor
  BY <1>3, StreamUnchanged DEF CloseCursor, iterVars
<1>4. ASSUME NEW i \in Iterators, NextRow(i)
      PROVE  Stream!Deliver(i)
  <2>1. /\ state[i] = "open" /\ UNCHANGED <<state, from>>
        /\ platform = "swift" /\ platform' = "swift" /\ ~errorOccurred[i] /\ ~ended[i]
        /\ out' = [out EXCEPT ![i] = Append(out[i], position')]
        /\ position < RowCount /\ position' = position + 1
        /\ UNCHANGED <<errorOccurred, ended>>
    BY <1>4 DEF NextRow, StepRow, Asking
  <2>2. position = from[i] + Len(out[i])
    BY <1>0, <1>4 DEF NextRow, StepRow, Asking, InStep, Fetched, At
  <2> QED BY <1>0, <2>1, <2>2 DEF Stream!Deliver
<1>5. ASSUME NEW i \in Iterators, NextNil(i) \/ HasNextFalse(i)
      PROVE  Stream!Complete(i) \/ UNCHANGED Stream!vars
  <2>1. /\ ended' = [ended EXCEPT ![i] = TRUE] /\ ~ended[i] /\ state[i] = "open"
        /\ UNCHANGED <<platform, state, errorOccurred, nextElement, out, from>>
    BY <1>5 DEF NextNil, HasNextFalse, Asking
  <2>2. CASE errorOccurred[i]
    BY <1>0, <2>1, <2>2 DEF Stream!vars
  <2>3. CASE ~errorOccurred[i]
    <3>1. position = RowCount /\ ~closed /\ ~asked[i]
      BY <1>0, <1>5, <2>3 DEF NextNil, HasNextFalse, StepDone, Fetched
    <3>2. from[i] + Len(out[i]) = RowCount
      BY <1>0, <2>1, <2>3, <3>1 DEF InStep, At
    <3> QED BY <1>0, <2>1, <2>3, <3>2 DEF Stream!Complete
  <2> QED BY <2>2, <2>3
<1>6. ASSUME NEW i \in Iterators, NextFails(i)
      PROVE  Stream!Fail(i)
  <2>1. /\ platform = "swift" /\ ~errorOccurred[i] /\ ~ended[i]
        /\ errorOccurred' = [errorOccurred EXCEPT ![i] = TRUE]
        /\ out' = [out EXCEPT ![i] = Append(out[i], Failure)]
        /\ state[i] = "open" /\ UNCHANGED <<platform, state, ended, from>>
    BY <1>6 DEF NextFails, Asking
  <2> QED BY <1>0, <2>1 DEF Stream!Fail
<1>7. ASSUME NEW i \in Iterators, HasNextTrue(i)
      PROVE  UNCHANGED Stream!vars
  <2>1. /\ ~errorOccurred[i]
        /\ \A j \in Iterators \ {i} : nextElement'[j] = nextElement[j]
        /\ UNCHANGED <<platform, state, errorOccurred, ended, out, from>>
    BY <1>0, <1>7 DEF HasNextTrue
  <2> QED BY <2>1 DEF Stream!vars
<1>8. ASSUME NEW i \in Iterators, HasNextFails(i)
      PROVE  Stream!Fail(i)
  <2>1. /\ platform = "kotlin" /\ ~errorOccurred[i] /\ ~ended[i]
        /\ errorOccurred' = [errorOccurred EXCEPT ![i] = TRUE]
        /\ nextElement' = [nextElement EXCEPT ![i] = Failure]
        /\ ended' = [ended EXCEPT ![i] = TRUE]
        /\ state[i] = "open" /\ UNCHANGED <<platform, state, out, from>>
    BY <1>8 DEF HasNextFails, Asking
  <2> QED BY <1>0, <2>1 DEF Stream!Fail
<1>9. ASSUME NEW i \in Iterators, NextElement(i)
      PROVE  Stream!Deliver(i)
  <2>1. /\ platform = "kotlin" /\ platform' = "kotlin" /\ ~errorOccurred[i] /\ ~ended[i]
        /\ out' = [out EXCEPT ![i] = Append(out[i], nextElement[i])]
        /\ nextElement[i] = from[i] + Len(out[i]) + 1 /\ from[i] + Len(out[i]) < RowCount
        /\ state[i] = "open" /\ UNCHANGED <<state, errorOccurred, nextElement, ended, from>>
    BY <1>0, <1>9 DEF NextElement, Asking, Fetched
  <2> QED BY <1>0, <2>1 DEF Stream!Deliver
<1>10. ASSUME NEW i \in Iterators, MakeIterator(i)
       PROVE  Stream!Start(i)
  <2>1. /\ state[i] = "none" /\ state'[i] = "open"
        /\ \A j \in Iterators : state[j] # "open"
        /\ from' = [from EXCEPT ![i] = IF closed THEN 0 ELSE position]
        /\ \A j \in Iterators \ {i} : state'[j] = state[j]
        /\ ~errorOccurred[i] /\ ~ended[i]
        /\ UNCHANGED <<platform, errorOccurred, nextElement, ended, out>>
    BY <1>0, <1>10 DEF MakeIterator, Started
  <2> DEFINE first == IF closed THEN 0 ELSE position
  <2>2. first \in {0} \cup UNION {Stream!Reached(j) : j \in Stream!Left}
    <3>1. CASE closed \/ position = 0
      BY <3>1
    <3>2. CASE ~closed /\ position # 0
      <4>1. PICK j \in Iterators : LeftAt(j)
        BY <1>0, <2>1, <3>2 DEF OneReader
      <4>2. j \in Stream!Left
        BY <1>0, <4>1 DEF LeftAt, Stream!Left
      <4>3. position \in Stream!Reached(j)
        BY <1>0, <4>1 DEF LeftAt, At, Stream!Reached
      <4> QED BY <3>2, <4>2, <4>3
    <3> QED BY <3>1, <3>2
  <2> HIDE DEF first
  <2>3. from' = [from EXCEPT ![i] = first]
    BY <2>1 DEF first
  <2> DEFINE status == [j \in Iterators |->
                          IF errorOccurred[j] THEN "failed"
                          ELSE IF ended[j] THEN "complete"
                          ELSE IF state[j] = "none" THEN "none" ELSE "reading"]
  <2>4. status[i] = "none" /\ status' = [status EXCEPT ![i] = "reading"]
    BY <2>1
  <2> HIDE DEF status
  <2>5. \E f \in {0} \cup UNION {Stream!Reached(j) : j \in Stream!Left} :
           from' = [from EXCEPT ![i] = f]
    BY <2>2, <2>3
  <2> QED BY <2>1, <2>4, <2>5 DEF Stream!Start, status
<1> QED
  BY <1>1, <1>2, <1>3, <1>4, <1>5, <1>6, <1>7, <1>8, <1>9, <1>10
     DEF Next, Advance, Stream!Next

(* RowCursor with either iterator implements RowStream: the rows in order, a  *)
(* complete end or one failure, and nothing after it.                         *)
THEOREM CursorsImplementRowStream == ASSUME ConstantsOK PROVE Spec => StreamSpec
<1>1. Init => Stream!Init
  BY DEF Init, Stream!Init
<1>2. Inductive /\ [Next]_vars => [Stream!Next]_(Stream!vars)
  BY StreamStep
<1> QED
  BY <1>1, <1>2, CursorsInductive, PTL DEF Spec, StreamSpec, Stream!Spec
-----------------------------------------------------------------------------
(* The results an iterator hands out, after every step.                       *)
LEMMA HandedOutStep ==
    ASSUME ConstantsOK, Inductive, [Next]_vars, NEW j \in Iterators, HandedOut(j)
    PROVE  HandedOut(j)'
<1>a. TypeOK /\ Started(j) /\ InStep(j) /\ Fetched(j) /\ (Failed(j) => errorOccurred[j])
  BY DEF Inductive
<1> USE <1>a DEF ConstantsOK, TypeOK, HandedOut, Failed, Failure
<1>1. CASE UNCHANGED <<platform, out[j], from[j], ended[j], errorOccurred[j]>>
  BY <1>1
<1>2. ASSUME NEW i \in Iterators, Advance(i), i # j PROVE HandedOut(j)'
  <2>1. UNCHANGED <<platform, out[j], from[j], ended[j], errorOccurred[j]>>
    BY <1>2 DEF Advance, NextRow, NextNil, NextFails, HasNextTrue, HasNextFalse,
                HasNextFails, NextElement
  <2> QED BY <1>1, <2>1
<1>3. CASE NextRow(j) \/ NextElement(j)
  <2>1. PICK r \in 1 .. RowCount :
           /\ r = from[j] + Len(out[j]) + 1 /\ out'[j] = Append(out[j], r)
           /\ ~errorOccurred[j] /\ UNCHANGED <<platform, ended, errorOccurred, from>>
           /\ ~ended[j]
    <3>1. CASE NextRow(j)
      BY <3>1 DEF NextRow, StepRow, Asking, InStep, Fetched, At
    <3>2. CASE NextElement(j)
      BY <3>2 DEF NextElement, Asking, Fetched
    <3> QED BY <1>3, <3>1, <3>2
  <2>2. \A k \in DOMAIN out'[j] : out'[j][k] \in {from[j] + k, Failure}
    <3>1. out[j] \in Seq(0 .. RowCount) /\ r \in 0 .. RowCount
      BY <2>1
    <3>2. /\ DOMAIN out'[j] = 1 .. Len(out[j]) + 1 /\ out'[j][Len(out[j]) + 1] = r
          /\ \A k \in 1 .. Len(out[j]) : out'[j][k] = out[j][k]
      BY <2>1, <3>1
    <3>3. \A k \in 1 .. Len(out[j]) : out[j][k] \in {from[j] + k, Failure}
      BY <3>1
    <3>4. r = from[j] + (Len(out[j]) + 1) /\ Len(out[j]) \in Nat
      BY <2>1, <3>1
    <3>5. \A k \in 1 .. Len(out[j]) + 1 : k \in 1 .. Len(out[j]) \/ k = Len(out[j]) + 1
      BY <3>4
    <3> HIDE DEF TypeOK, ConstantsOK, HandedOut
    <3> QED BY <2>1, <3>2, <3>3, <3>4, <3>5
  <2> QED BY <2>1, <2>2
<1>4. CASE NextNil(j) \/ HasNextFalse(j)
  <2>1. /\ UNCHANGED <<platform, out, errorOccurred, from>>
        /\ ~errorOccurred[j] => position = RowCount /\ ~closed
        /\ state[j] = "open" /\ ~ended[j] /\ ~asked[j]
    BY <1>4 DEF NextNil, HasNextFalse, StepDone, Asking, Fetched
  <2>2. ~errorOccurred[j] => from[j] + Len(out[j]) = RowCount
    BY <2>1 DEF InStep, At
  <2> QED BY <2>1, <2>2
<1>5. CASE NextFails(j)
  <2>1. /\ out'[j] = Append(out[j], 0) /\ errorOccurred'[j] /\ UNCHANGED <<ended, from>>
        /\ out[j] \in Seq(0 .. RowCount)
    BY <1>5 DEF NextFails
  <2>2. /\ DOMAIN out'[j] = 1 .. Len(out[j]) + 1 /\ out'[j][Len(out[j]) + 1] = 0
        /\ \A k \in 1 .. Len(out[j]) : out'[j][k] = out[j][k]
        /\ DOMAIN out[j] = 1 .. Len(out[j])
    BY <2>1
  <2>3. \A k \in DOMAIN out'[j] : out'[j][k] \in {from[j] + k, Failure}
    <3>1. \A k \in 1 .. Len(out[j]) : out[j][k] \in {from[j] + k, Failure}
      BY <2>2
    <3>2. \A k \in 1 .. Len(out[j]) + 1 : k \in 1 .. Len(out[j]) \/ k = Len(out[j]) + 1
      BY <2>1
    <3> QED BY <2>2, <3>1, <3>2
  <2>4. Failed(j)'
    <3>1. Len(out[j]) \in Nat
      BY <2>1
    <3>2. Len(out[j]) + 1 \in 1 .. Len(out[j]) + 1
      BY <3>1
    <3>3. Len(out[j]) + 1 \in DOMAIN out'[j]
      BY <2>2, <3>2
    <3> HIDE DEF TypeOK, ConstantsOK, HandedOut
    <3> QED BY <2>2, <3>3
  <2> QED BY <2>1, <2>3, <2>4
<1>6. CASE HasNextTrue(j) \/ HasNextFails(j)
  <2>1. /\ UNCHANGED <<platform, out, from>> /\ platform = "kotlin"
        /\ errorOccurred'[j] \/ UNCHANGED <<ended, errorOccurred>>
    BY <1>6 DEF HasNextTrue, HasNextFails
  <2> QED BY <2>1
<1>7. CASE \/ UNCHANGED vars \/ CloseCursor
           \/ \E i \in Iterators : Drop(i) \/ Collect(i)
  <2>1. UNCHANGED <<platform, out, ended, errorOccurred, from>>
    BY <1>7 DEF vars, iterVars, CloseCursor, Drop, Collect
  <2> QED BY <1>1, <2>1
<1>8. ASSUME NEW i \in Iterators, MakeIterator(i) PROVE HandedOut(j)'
  <2>1. CASE i # j
    <3>1. UNCHANGED <<platform, out[j], from[j], ended[j], errorOccurred[j]>>
      BY <1>8, <2>1 DEF MakeIterator
    <3> QED BY <1>1, <3>1
  <2>2. CASE i = j
    <3>1. ~ended'[j] /\ ~errorOccurred'[j] /\ out'[j] = <<>>
      BY <1>8, <2>2 DEF MakeIterator, Started
    <3> QED BY <3>1
  <2> QED BY <2>1, <2>2
<1> QED
  BY <1>2, <1>3, <1>4, <1>5, <1>6, <1>7, <1>8 DEF Next, Advance

LEMMA AllHandedOut == ASSUME ConstantsOK PROVE Spec => [](\A i \in Iterators : HandedOut(i))
<1>1. Init => \A i \in Iterators : HandedOut(i)
  <2> DEFINE none == <<>>
  <2>1. DOMAIN none = {}
    OBVIOUS
  <2>2. Init => \A i \in Iterators : out[i] = none /\ ~ended[i] /\ ~errorOccurred[i]
    BY DEF Init
  <2> HIDE DEF none
  <2> QED BY <2>1, <2>2 DEF HandedOut
<1>2. Inductive /\ (\A i \in Iterators : HandedOut(i)) /\ [Next]_vars
         => (\A i \in Iterators : HandedOut(i))'
  BY HandedOutStep
<1> QED
  BY <1>1, <1>2, CursorsInductive, PTL DEF Spec

(* Every loop that ran to its end without a failure has had every row, on iOS *)
(* always, and on Android unless its hasNext() has caught an error that       *)
(* next() was never asked for; or the cursor's loop before was left early,    *)
(* and it has had the rest: CompleteOrFailed, but for where it fails.         *)
CompleteUnlessCaught ==
    \A i \in Iterators :
        ended[i] /\ ~Failed(i)
          => \/ out[i] = [k \in 1 .. RowCount |-> k]
             \/ /\ platform = "kotlin"
                /\ \/ errorOccurred[i]
                   \/ /\ from[i] > 0
                      /\ out[i] = [k \in 1 .. RowCount - from[i] |-> from[i] + k]

(* The loops of both iterators are complete, with those two exceptions.       *)
THEOREM LoopsComplete == ASSUME ConstantsOK PROVE Spec => []CompleteUnlessCaught
<1>1. ASSUME Inductive, NEW i \in Iterators, HandedOut(i),
             platform # "kotlin" \/ ~errorOccurred[i],
             ended[i], ~Failed(i)
      PROVE  \/ out[i] = [k \in 1 .. RowCount |-> k]
             \/ /\ platform = "kotlin" /\ from[i] > 0
                /\ out[i] = [k \in 1 .. RowCount - from[i] |-> from[i] + k]
  <2>1. TypeOK /\ platform \in {"swift", "kotlin"} /\ from[i] \in Nat /\ Started(i)
    BY <1>1 DEF Inductive, TypeOK, ConstantsOK
  <2>2. ~errorOccurred[i] /\ from[i] + Len(out[i]) = RowCount
    BY <1>1, <2>1 DEF HandedOut
  <2>3. \A k \in DOMAIN out[i] : out[i][k] = from[i] + k
    BY <1>1 DEF HandedOut, Failed
  <2>4. out[i] \in Seq(0 .. RowCount)
    BY <2>1 DEF TypeOK
  <2>5. /\ out[i] = [k \in DOMAIN out[i] |-> out[i][k]]
        /\ DOMAIN out[i] = 1 .. RowCount - from[i]
    BY <2>1, <2>2, <2>4
  <2>6. out[i] = [k \in 1 .. RowCount - from[i] |-> from[i] + k]
    BY <2>3, <2>5
  <2>7. CASE from[i] = 0
    <3>1. RowCount - from[i] = RowCount /\ \A k \in 1 .. RowCount : from[i] + k = k
      BY <2>2, <2>4, <2>7
    <3> QED BY <2>6, <3>1
  <2>8. CASE from[i] # 0
    BY <2>1, <2>6, <2>8 DEF Started
  <2> QED BY <2>7, <2>8
<1>2. Inductive /\ (\A i \in Iterators : HandedOut(i)) => CompleteUnlessCaught
  BY <1>1 DEF CompleteUnlessCaught
<1> QED
  BY <1>2, AllHandedOut, CursorsInductive, PTL

-----------------------------------------------------------------------------
(* An iterator without an error has handed out no more than the rows.         *)
LEMMA NoMoreThanRows ==
    ASSUME ConstantsOK, Inductive, NEW i \in Iterators, HandedOut(i)
    PROVE  /\ Len(out[i]) \in Nat /\ from[i] \in 0 .. RowCount
           /\ ~errorOccurred[i] => from[i] + Len(out[i]) <= RowCount
           /\ CallsLeft(i) \in 0 .. 2 * RowCount + 2
           /\ ~ended[i] => CallsLeft(i) > 0
<1>1. /\ out[i] \in Seq(0 .. RowCount) /\ RowCount \in Nat /\ from[i] \in 0 .. RowCount
      /\ errorOccurred[i] \in BOOLEAN /\ ended[i] \in BOOLEAN /\ asked[i] \in BOOLEAN
  BY DEF Inductive, TypeOK, ConstantsOK
<1>2. Len(out[i]) \in Nat /\ DOMAIN out[i] = 1 .. Len(out[i])
  BY <1>1
<1>3. ASSUME ~errorOccurred[i], Len(out[i]) # 0 PROVE from[i] + Len(out[i]) <= RowCount
  <2>1. Len(out[i]) \in DOMAIN out[i]
    BY <1>2, <1>3
  <2>2. out[i][Len(out[i])] = from[i] + Len(out[i])
    BY <1>3, <2>1 DEF HandedOut, Inductive, Failed
  <2>3. out[i][Len(out[i])] \in 0 .. RowCount
    BY <1>1, <2>1
  <2> QED
    BY <1>1, <2>2, <2>3
<1>4. ~errorOccurred[i] => from[i] + Len(out[i]) <= RowCount
  BY <1>1, <1>2, <1>3
<1>5. CASE ended[i]
  <2>1. CallsLeft(i) = 0
    BY <1>5 DEF CallsLeft
  <2> QED
    BY <1>1, <1>2, <1>4, <1>5, <2>1
<1>6. CASE ~ended[i] /\ errorOccurred[i]
  <2>1. CallsLeft(i) = 1
    BY <1>6 DEF CallsLeft
  <2> QED
    BY <1>1, <1>2, <1>4, <1>6, <2>1
<1>7. CASE ~ended[i] /\ ~errorOccurred[i]
  <2> DEFINE ahead == IF asked[i] THEN 1 ELSE 2
             taken == from[i] + Len(out[i])
  <2>1. CallsLeft(i) = 2 * (RowCount - taken) + ahead /\ ahead \in {1, 2}
    BY <1>1, <1>2, <1>7 DEF CallsLeft
  <2>2. taken \in Nat /\ taken <= RowCount
    BY <1>1, <1>2, <1>4, <1>7
  <2> HIDE DEF ahead, taken
  <2>3. 2 * (RowCount - taken) + ahead \in 1 .. 2 * RowCount + 2
    BY <1>1, <2>1, <2>2
  <2>4. CallsLeft(i) \in 0 .. 2 * RowCount + 2 /\ CallsLeft(i) > 0
    BY <1>1, <2>1, <2>3
  <2> QED
    BY <1>1, <1>2, <1>4, <1>7, <2>4
<1> QED
  BY <1>1, <1>5, <1>6, <1>7

LEMMA CallsGoOn ==
    ASSUME ConstantsOK, Inductive, NEW i \in Iterators, HandedOut(i), Advance(i)
    PROVE  CallsLeft(i)' < CallsLeft(i) /\ CallsLeft(i)' <= CallsLeft(i)
<1>1. /\ TypeOK /\ RowCount \in Nat /\ Fetched(i) /\ out[i] \in Seq(0 .. RowCount)
      /\ errorOccurred[i] \in BOOLEAN /\ ended[i] \in BOOLEAN /\ asked[i] \in BOOLEAN
      /\ Len(out[i]) \in Nat /\ from[i] \in 0 .. RowCount
      /\ ~errorOccurred[i] => from[i] + Len(out[i]) <= RowCount
      /\ CallsLeft(i) \in 0 .. 2 * RowCount + 2
      /\ ~ended[i] => CallsLeft(i) > 0
  BY NoMoreThanRows DEF Inductive, TypeOK, ConstantsOK
<1> DEFINE rest == RowCount - from[i] - Len(out[i])
<1>a. rest \in Int /\ RowCount - from[i] - (Len(out[i]) + 1) = rest - 1
  <2>1. RowCount \in Int /\ from[i] \in Int
    BY <1>1
  <2>2. Len(out[i]) \in Int
    BY <1>1
  <2> QED
    BY <2>1, <2>2
<1>2. ASSUME NEW r PROVE Len(Append(out[i], r)) = Len(out[i]) + 1
  BY <1>1
<1>3. CASE NextRow(i)
  <2>1. /\ out'[i] = Append(out[i], position') /\ ~ended[i] /\ ~errorOccurred[i] /\ ~asked[i]
        /\ UNCHANGED <<ended, errorOccurred, asked, from>>
    BY <1>1, <1>3 DEF NextRow, Asking, Fetched, TypeOK
  <2>2. Len(out'[i]) = Len(out[i]) + 1
    BY <1>2, <2>1
  <2>3. CallsLeft(i) = 2 * rest + 2
    BY <2>1 DEF CallsLeft
  <2>4. CallsLeft(i)' = 2 * (RowCount - from[i] - (Len(out[i]) + 1)) + 2
    BY <2>1, <2>2 DEF CallsLeft
  <2>5. CallsLeft(i)' = 2 * (rest - 1) + 2
    BY <1>a, <2>4
  <2> HIDE DEF rest
  <2> QED
    BY <1>a, <2>3, <2>5
<1>4. CASE NextNil(i) \/ HasNextFalse(i) \/ HasNextFails(i)
  <2>1. ended'[i] /\ ~ended[i]
    BY <1>1, <1>4 DEF NextNil, HasNextFalse, HasNextFails, Asking, TypeOK
  <2>2. CallsLeft(i)' = 0
    BY <2>1 DEF CallsLeft
  <2> QED
    BY <1>1, <2>1, <2>2
<1>5. CASE NextFails(i)
  <2>1. errorOccurred'[i] /\ ~errorOccurred[i] /\ ~ended[i] /\ UNCHANGED ended /\ ~asked[i]
    BY <1>1, <1>5 DEF NextFails, Asking, Fetched, TypeOK
  <2>2. CallsLeft(i)' = 1
    BY <2>1 DEF CallsLeft
  <2>3. CallsLeft(i) = 2 * rest + 2 /\ rest >= 0
    BY <1>1, <2>1 DEF CallsLeft
  <2> HIDE DEF rest
  <2> QED
    BY <1>a, <2>2, <2>3
<1>6. CASE HasNextTrue(i)
  <2>1. /\ asked'[i] /\ ~asked[i] /\ ~ended[i] /\ ~errorOccurred[i]
        /\ UNCHANGED <<ended, errorOccurred, out, from>>
    BY <1>1, <1>6 DEF HasNextTrue, Asking, TypeOK
  <2>2. CallsLeft(i) = 2 * rest + 2 /\ CallsLeft(i)' = 2 * rest + 1
    BY <2>1 DEF CallsLeft
  <2> HIDE DEF rest
  <2> QED
    BY <1>a, <2>2
<1>7. CASE NextElement(i)
  <2>1. /\ asked[i] /\ ~asked'[i] /\ ~ended[i] /\ ~errorOccurred[i]
        /\ out'[i] = Append(out[i], nextElement[i])
        /\ UNCHANGED <<ended, errorOccurred, from>>
    BY <1>1, <1>7 DEF NextElement, Asking, Fetched, TypeOK
  <2>2. Len(out'[i]) = Len(out[i]) + 1
    BY <1>2, <2>1
  <2>3. CallsLeft(i) = 2 * rest + 1
    BY <2>1 DEF CallsLeft
  <2>4. CallsLeft(i)' = 2 * (RowCount - from[i] - (Len(out[i]) + 1)) + 2
    BY <2>1, <2>2 DEF CallsLeft
  <2>5. CallsLeft(i)' = 2 * (rest - 1) + 2
    BY <1>a, <2>4
  <2> HIDE DEF rest
  <2> QED
    BY <1>a, <2>3, <2>5
<1> QED
  BY <1>3, <1>4, <1>5, <1>6, <1>7 DEF Advance

(* The calls of one loop are no calls of another, nor are makeIterator(),     *)
(* which may only spare its loop some rows, and the closes.                   *)
LEMMA OthersStay ==
    ASSUME ConstantsOK, Inductive, [Next]_vars, NEW i \in Iterators,
           HandedOut(i), ~Advance(i)
    PROVE  CallsLeft(i)' <= CallsLeft(i)
<1> USE DEF Inductive
<1>a. CallsLeft(i) \in Nat /\ RowCount \in Nat
  BY NoMoreThanRows DEF ConstantsOK
<1>1. CASE UNCHANGED <<out[i], from[i], ended[i], errorOccurred[i], asked[i]>>
  <2>1. CallsLeft(i)' = CallsLeft(i)
    BY <1>1 DEF CallsLeft
  <2> QED BY <1>a, <2>1
<1>2. ASSUME NEW j \in Iterators \ {i}, Advance(j) \/ MakeIterator(j)
      PROVE  UNCHANGED <<out[i], from[i], ended[i], errorOccurred[i], asked[i]>>
  BY <1>2 DEF Advance, NextRow, NextNil, NextFails, HasNextTrue, HasNextFalse,
              HasNextFails, NextElement, MakeIterator, TypeOK
<1>3. CASE MakeIterator(i)
  <2>1. /\ ~ended'[i] /\ ~errorOccurred'[i] /\ ~asked'[i] /\ out'[i] = out[i]
        /\ ~ended[i] /\ ~errorOccurred[i] /\ ~asked[i] /\ from[i] = 0
        /\ from'[i] \in Nat /\ Len(out[i]) \in Nat
    BY <1>3 DEF MakeIterator, Started, TypeOK, ConstantsOK
  <2>2. /\ CallsLeft(i) = 2 * (RowCount - 0 - Len(out[i])) + 2
        /\ CallsLeft(i)' = 2 * (RowCount - from'[i] - Len(out[i])) + 2
    BY <2>1 DEF CallsLeft
  <2> QED BY <1>a, <2>1, <2>2
<1>4. CASE \/ UNCHANGED vars \/ CloseCursor
           \/ \E j \in Iterators : Drop(j) \/ Collect(j)
  <2>1. UNCHANGED <<out, from, ended, errorOccurred, asked>>
    BY <1>4 DEF vars, iterVars, CloseCursor, Drop, Collect
  <2> QED BY <1>1, <2>1
<1> QED
  BY <1>1, <1>2, <1>3, <1>4 DEF Next

(* The safety part of LoopEnds: a loop calls next() and hasNext() at most two *)
(* times for each row and two times more, whatever fails or is closed.        *)
THEOREM LoopsOnlyGoForward == ASSUME ConstantsOK PROVE Spec => LoopsAreShort
<1> DEFINE Forward == \A i \in Iterators :
                         /\ CallsLeft(i) \in 0 .. 2 * RowCount + 2
                         /\ CallsLeft(i)' <= CallsLeft(i)
                         /\ Advance(i) => CallsLeft(i)' < CallsLeft(i)
<1>1. ASSUME Inductive, \A i \in Iterators : HandedOut(i), [Next]_vars
      PROVE  Forward
  <2> SUFFICES ASSUME NEW i \in Iterators
               PROVE  /\ CallsLeft(i) \in 0 .. 2 * RowCount + 2
                      /\ CallsLeft(i)' <= CallsLeft(i)
                      /\ Advance(i) => CallsLeft(i)' < CallsLeft(i)
    OBVIOUS
  <2>1. CallsLeft(i) \in 0 .. 2 * RowCount + 2 /\ RowCount \in Nat
    BY <1>1, NoMoreThanRows DEF ConstantsOK
  <2>2. CASE Advance(i)
    BY <1>1, <2>1, <2>2, CallsGoOn
  <2>3. CASE ~Advance(i)
    <3>1. CallsLeft(i)' <= CallsLeft(i)
      BY <1>1, <2>3, OthersStay
    <3> QED
      BY <2>1, <2>3, <3>1
  <2> QED
    BY <2>2, <2>3
<1>2. Inductive /\ (\A i \in Iterators : HandedOut(i)) /\ [Next]_vars => [Forward]_vars
  BY <1>1
<1> QED
  BY <1>2, AllHandedOut, CursorsInductive, PTL DEF Spec, LoopsAreShort
=============================================================================
