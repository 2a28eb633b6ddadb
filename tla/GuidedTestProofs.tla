-------------------------- MODULE GuidedTestProofs --------------------------
(***************************************************************************)
(* The guided test page and the evidence it sends, for any number of       *)
(* tests, pictures, presses, moves and faults.                             *)
(***************************************************************************)
EXTENDS GuidedTest, SequenceTheorems, WellFoundedInduction, TLAPS

PressType == [id : Nat, step : Step, knew : BOOLEAN,
              all : Seq(Photo), left : Seq(Photo), attempt : Nat,
              stage : {"record", "original", "derivative", "row", "load"},
              from : {"page", "left", "gone"}]
ActType == [step : Step, overtaken : BOOLEAN]
AttemptType == [step : Step, photos : Seq(Photo), blind : BOOLEAN]

\* The types, in groups that different actions touch.
PageOK == shown \in 0..Review /\ known \subseteq Step /\ photos \in Seq(Photo)
WorkOK == \A x \in work : x \in PressType
OutputOK == /\ acts \in Seq(ActType) /\ pattern \in Step \cup {0}
            /\ disturbed \in BOOLEAN
EvidenceOK == /\ \A e \in originals \cup derivatives \cup rows \cup failed :
                    e \in (1..Len(attempts)) \X Photo
              /\ attempts \in Seq(AttemptType)
              /\ finished \subseteq 1..Len(attempts)
CountersOK == deeds \in Nat /\ faults \in Nat /\ doubtful \subseteq Step

Recorded(x) == x.stage # "record"
Done(x) == Len(x.all) - Len(x.left)

\* What a press has done so far: its photos that are left are the last ones
\* that were attached, those before them have their rows and no other photo has
\* one for this attempt; the files of the first one left are there as far as
\* the stage says.
Pressed(x) ==
    /\ Len(x.left) <= Len(x.all)
    /\ \A j \in 1..Len(x.left) : x.left[j] = x.all[Done(x) + j]
    /\ x.stage = "record" => x.left = x.all
    /\ x.stage \in {"original", "derivative", "row"} => x.left # <<>>
    /\ x.stage = "load" => x.left = <<>>
    /\ Recorded(x) =>
         /\ x.attempt \in 1..Len(attempts)
         /\ attempts[x.attempt].photos = x.all
         /\ \A i \in 1..Done(x) : <<x.attempt, x.all[i]>> \in rows
         /\ \A e \in rows : e[1] = x.attempt => \E i \in 1..Done(x) : x.all[i] = e[2]
    /\ x.stage \in {"derivative", "row"} => File(x) \in originals
    /\ x.stage = "row" => File(x) \in derivatives

\* No two presses add evidence to one attempt.
ChainInv ==
    /\ \A x \in work : Pressed(x)
    /\ \A x, y \in work :
          Recorded(x) /\ Recorded(y) /\ x.attempt = y.attempt => x = y

\* The page deals with one press at a time; a press that is not the page's own
\* is in doubt; an answer the page does not know of is that of its own press or
\* is in doubt, and so is one its press did not know of.
OnePress ==
    /\ \A x, y \in work : x.from = "page" /\ y.from = "page" => x = y
    /\ \A x \in work : x.from # "page" => x.step \in doubtful
    /\ shown \in Step =>
         \A s \in Answered \ (known \cup doubtful) :
            \E x \in work : x.from = "page" /\ x.stage # "record" /\ x.step = s
    /\ \A x \in work : x.from = "page" /\ x.stage = "record" /\ x.step \in Answered
                       => x.knew \/ x.step \in doubtful

PageInv == TypeOK /\ ChainInv

-----------------------------------------------------------------------------
(* Types.                                                                  *)

\* The types are the types of the groups.
LEMMA TypeParts ==
    TypeOK <=> PageOK /\ WorkOK /\ OutputOK /\ EvidenceOK /\ CountersOK
BY DEF TypeOK, PageOK, WorkOK, OutputOK, EvidenceOK, CountersOK, PressType,
       ActType, AttemptType

\* A set of naturals with a member has a first one.
LEMMA FirstIn ==
    ASSUME NEW S \in SUBSET Nat, S # {}
    PROVE  First(S) \in S /\ \A t \in S : First(S) <= t
<1> DEFINE R == OpToRel(<, Nat)
<1>1. IsWellFoundedOn(R, Nat)
  BY NatLessThanWellFounded
<1>2. PICK x \in S : \A y \in S : <<y, x>> \notin R
  <2> HIDE DEF R
  <2> QED
    BY <1>1, WFMin
<1>3. \A y \in S : ~(y < x)
  BY <1>2 DEF OpToRel
<1>4. \A y \in S : x <= y
  BY <1>3
<1>5. QED
  BY <1>4 DEF First

\* The answered steps are steps.
LEMMA AnsweredSteps == EvidenceOK => Answered \subseteq Step
<1> SUFFICES ASSUME EvidenceOK, NEW k \in 1..Len(attempts)
             PROVE  attempts[k].step \in Step
  BY DEF Answered
<1>1. attempts[k] \in AttemptType
  BY ElementOfSeq DEF EvidenceOK
<1> QED
  BY <1>1 DEF AttemptType

\* Showing a page keeps the types of page and output.
LEMMA ShowTyped ==
    ASSUME PageOK, OutputOK, NEW s \in 0..Review, Show(s), known' \subseteq Step
    PROVE  PageOK' /\ OutputOK'
<1>1. shown' = s
  BY DEF Show
<1>2. CASE s \in Step /\ s # shown
  <2>1. [step |-> s, overtaken |-> FALSE] \in ActType
    BY <1>2 DEF ActType
  <2>2. acts' \in Seq(ActType)
    BY <1>2, <2>1, AppendProperties DEF Show, Activate, OutputOK
  <2>3. photos' = <<>> /\ pattern' = pattern
        /\ disturbed' = (disturbed /\ acts # <<>>)
    BY <1>2 DEF Show, Activate
  <2>4. photos' \in Seq(Photo)
    BY <2>3, EmptySeq
  <2> QED
    BY <1>1, <2>2, <2>3, <2>4 DEF PageOK, OutputOK
<1>3. CASE ~(s \in Step /\ s # shown)
  <2>1. UNCHANGED <<output, photos>>
    BY <1>3 DEF Show
  <2> QED
    BY <1>1, <2>1 DEF PageOK, OutputOK, output
<1> QED
  BY <1>2, <1>3

-----------------------------------------------------------------------------
(* The chain of calls of a press.                                          *)

\* What is done is what is no longer left.
LEMMA DoneIs ==
    ASSUME NEW x, NEW m \in Nat, NEW n \in Nat, Len(x.all) = m, Len(x.left) = n
    PROVE  Done(x) = m - n
BY DEF Done

\* The file of a press that has a photo left is that of the photo after those
\* it is done with.
LEMMA NextFile ==
    ASSUME PageInv, NEW x \in work, Recorded(x), x.left # <<>>
    PROVE  /\ x \in PressType /\ Pressed(x)
           /\ Len(x.left) \in Nat /\ Len(x.left) >= 1 /\ Len(x.all) \in Nat
           /\ Done(x) \in Nat /\ Done(x) + 1 \in 1..Len(x.all)
           /\ File(x) = <<x.attempt, x.all[Done(x) + 1]>>
           /\ File(x) \in (1..Len(attempts)) \X Photo
<1>1. x \in PressType /\ Pressed(x)
  BY TypeParts DEF PageInv, ChainInv, WorkOK
<1>2. x.left \in Seq(Photo) /\ x.all \in Seq(Photo)
  BY <1>1 DEF PressType
<1>3. Len(x.left) \in Nat /\ Len(x.left) >= 1 /\ Len(x.all) \in Nat
  <2>1. Len(x.left) \in Nat /\ Len(x.all) \in Nat /\ Len(x.left) # 0
    BY <1>2, LenProperties, EmptySeq
  <2> QED
    BY <2>1
<1>4. Len(x.left) <= Len(x.all)
  BY <1>1 DEF Pressed
<1>5. Done(x) \in Nat /\ Done(x) + 1 \in 1..Len(x.all)
  <2>1. PICK m \in Nat, n \in Nat : Len(x.all) = m /\ Len(x.left) = n
    BY <1>3
  <2>2. Done(x) = m - n /\ n >= 1 /\ n <= m
    BY <1>3, <1>4, <2>1, DoneIs
  <2> QED
    BY <2>1, <2>2
<1>6. Head(x.left) = x.left[1] /\ 1 \in 1..Len(x.left)
  BY <1>2, <1>3, HeadTailProperties
<1>7. x.left[1] = x.all[Done(x) + 1]
  BY <1>1, <1>6 DEF Pressed
<1>8. x.all[Done(x) + 1] \in Photo
  BY <1>2, <1>5, ElementOfSeq
<1>9. x.attempt \in 1..Len(attempts)
  BY <1>1 DEF Pressed
<1> QED
  BY <1>1, <1>3, <1>5, <1>6, <1>7, <1>8, <1>9 DEF File

\* A press goes on, or ends, and the others have what they had.
LEMMA GoesOn ==
    ASSUME PageInv, NEW x \in work, NEW y \in PressType,
           work' \subseteq (work \ {x}) \cup {y}, Pressed(y)',
           \A z \in work \ {x} : Pressed(z)',
           \A z \in work \ {x} : Recorded(z) => z.attempt # y.attempt
    PROVE  WorkOK' /\ ChainInv'
<1>1. WorkOK /\ ChainInv
  BY TypeParts DEF PageInv
<1>2. WorkOK'
  BY <1>1 DEF WorkOK
<1>3. \A z \in work' : Pressed(z)'
  OBVIOUS
<1>4. \A z, v \in work' : Recorded(z) /\ Recorded(v) /\ z.attempt = v.attempt => z = v
  BY <1>1 DEF ChainInv
<1> QED
  BY <1>2, <1>3, <1>4 DEF ChainInv

\* Whoever leaves table and files alone leaves a press what it has done.
LEMMA PressedKept ==
    ASSUME NEW x, UNCHANGED <<attempts, evidence>>, Pressed(x)
    PROVE  Pressed(x)'
BY DEF Pressed, evidence, File, Recorded, Done

\* Presses are given up.
LEMMA FewerPresses ==
    ASSUME PageInv, UNCHANGED <<attempts, evidence>>, work' \subseteq work
    PROVE  WorkOK' /\ ChainInv'
<1>1. WorkOK /\ ChainInv
  BY TypeParts DEF PageInv
<1>2. WorkOK'
  BY <1>1 DEF WorkOK
<1>3. \A x \in work' : Pressed(x)'
  BY <1>1, PressedKept DEF ChainInv
<1> QED
  BY <1>1, <1>2, <1>3 DEF ChainInv

\* The attempt is recorded.
LEMMA RecordChain ==
    ASSUME PageInv, NEW x \in work, RecordAttempt(x)
    PROVE  WorkOK' /\ ChainInv' /\ EvidenceOK'
<1> DEFINE n == Len(attempts) + 1
           a == [step |-> x.step, photos |-> x.all,
                 blind |-> x.step \in Answered /\ ~x.knew]
<1>1. /\ x \in PressType /\ Pressed(x) /\ x.stage = "record"
      /\ EvidenceOK /\ ChainInv /\ WorkOK
  BY TypeParts DEF PageInv, ChainInv, WorkOK, RecordAttempt
<1>2. attempts \in Seq(AttemptType) /\ a \in AttemptType
  BY <1>1 DEF EvidenceOK, PressType, AttemptType
<1>3. /\ attempts' = Append(attempts, a) /\ UNCHANGED evidence
      /\ UNCHANGED <<finished, failed>>
  BY DEF RecordAttempt
<1>4. n \in Nat \ {0}
  BY <1>2, LenProperties
<1>pick. PICK y : y = [x EXCEPT !.attempt = n,
                             !.stage = IF x.left = <<>> THEN "load" ELSE "original"]
  OBVIOUS
<1>5. /\ attempts' \in Seq(AttemptType) /\ Len(attempts') = n
      /\ attempts'[n] = a
      /\ \A k \in 1..Len(attempts) : attempts'[k] = attempts[k]
      /\ Len(attempts) \in Nat
  <2> HIDE DEF a
  <2> QED
    BY <1>2, <1>3, AppendProperties, LenProperties
<1>6. EvidenceOK'
  BY <1>1, <1>3, <1>5 DEF EvidenceOK, evidence
<1>7. /\ y.left = x.left /\ y.all = x.all /\ y.attempt = n
      /\ y.stage = IF x.left = <<>> THEN "load" ELSE "original"
      /\ y \in PressType /\ work' \subseteq (work \ {x}) \cup {y}
  BY <1>1, <1>4, <1>pick DEF PressType, RecordAttempt, Answer
<1>8. x.left = x.all /\ Done(x) = 0
  <2>1. x.left = x.all
    BY <1>1 DEF Pressed
  <2>2. Len(x.all) \in Nat
    BY <1>1, LenProperties DEF PressType
  <2> QED
    BY <2>1, <2>2 DEF Done
<1>9. a.photos = x.all
  OBVIOUS
<1>10. \A e \in rows' : e[1] # n
  BY <1>1, <1>3, <1>5 DEF EvidenceOK, evidence
<1>11. \A z \in work \ {x} : Recorded(z) => z.attempt # n /\ z.attempt \in 1..Len(attempts)
  BY <1>1, <1>5 DEF ChainInv, Pressed
<1>12. Pressed(y)'
  <2> HIDE DEF a, n
  <2>1. Done(y) = 0 /\ y.left = y.all
    BY <1>7, <1>8 DEF Done
  <2>2. Len(y.left) <= Len(y.all) /\ \A j \in 1..Len(y.left) : y.left[j] = y.all[Done(y) + j]
    BY <1>7, <1>8, <2>1, <1>1, LenProperties DEF PressType
  <2>3. n \in 1..Len(attempts')
    BY <1>4, <1>5
  <2>4. 1..Done(y) = {}
    BY <2>1
  <2>5. /\ y.attempt \in 1..Len(attempts') /\ attempts'[y.attempt].photos = y.all
        /\ \A e \in rows' : e[1] # y.attempt
    BY <1>5, <1>7, <1>9, <1>10, <2>3
  <2>6. /\ y.stage = "load" => y.left = <<>>
        /\ y.stage = "original" => y.left # <<>>
        /\ y.stage \in {"load", "original"}
    BY <1>7
  <2> QED
    BY <2>1, <2>2, <2>4, <2>5, <2>6 DEF Pressed, Recorded
<1>13. \A z \in work \ {x} : Pressed(z)'
  <2> SUFFICES ASSUME NEW z \in work \ {x} PROVE Pressed(z)'
    OBVIOUS
  <2>1. Pressed(z) /\ Recorded(z) => z.attempt \in 1..Len(attempts) /\ z.attempt \in 1..Len(attempts')
    BY <1>4, <1>5, <1>11
  <2> HIDE DEF a, n
  <2> QED
    BY <1>1, <1>3, <1>5, <2>1 DEF Pressed, ChainInv, evidence, File, Recorded, Done
<1>14. \A z \in work \ {x} : Recorded(z) => z.attempt # y.attempt
  BY <1>7, <1>11
<1> HIDE DEF n, a
<1> QED
  BY <1>3, <1>6, <1>7, <1>12, <1>13, <1>14, GoesOn

\* One of the two files is written.
LEMMA FileChain ==
    ASSUME PageInv, NEW x \in work, WriteOriginal(x) \/ WriteDerivative(x)
    PROVE  WorkOK' /\ ChainInv' /\ EvidenceOK'
<1> DEFINE y == [x EXCEPT !.stage = IF x.stage = "original" THEN "derivative" ELSE "row"]
<1>1. /\ x.stage \in {"original", "derivative"}
      /\ originals \subseteq originals' /\ derivatives \subseteq derivatives'
      /\ originals' \cup derivatives' \subseteq originals \cup derivatives \cup {File(x)}
      /\ File(x) \in IF x.stage = "original" THEN originals' ELSE derivatives'
      /\ UNCHANGED <<attempts, rows, finished, failed>>
      /\ work' \subseteq (work \ {x}) \cup {y}
  BY DEF WriteOriginal, WriteDerivative, Within
<1>2. x \in PressType /\ Pressed(x) /\ EvidenceOK /\ ChainInv
  BY TypeParts DEF PageInv, ChainInv, WorkOK
<1>3. Recorded(x) /\ x.left # <<>>
  BY <1>1, <1>2 DEF Recorded, Pressed
<1>4. File(x) \in (1..Len(attempts)) \X Photo
  BY <1>3, NextFile
<1>5. EvidenceOK'
  BY <1>1, <1>2, <1>4 DEF EvidenceOK
<1>6. /\ y \in PressType /\ y.left = x.left /\ y.all = x.all /\ y.attempt = x.attempt
      /\ y.stage = IF x.stage = "original" THEN "derivative" ELSE "row"
  BY <1>1, <1>2 DEF PressType
<1>7. \A z \in work : z # x => Pressed(z)'
  BY <1>1, <1>2 DEF ChainInv, Pressed, File, Recorded, Done
<1>8. Pressed(y)'
  <2> HIDE DEF y
  <2>1. File(y) = File(x) /\ Done(y) = Done(x)
    BY <1>6 DEF File, Done
  <2> QED
    BY <1>1, <1>2, <1>3, <1>6, <2>1 DEF Pressed, Recorded
<1>9. \A z \in work \ {x} : Recorded(z) => z.attempt # y.attempt
  BY <1>2, <1>3, <1>6 DEF ChainInv
<1> HIDE DEF y
<1> QED
  BY <1>1, <1>5, <1>6, <1>7, <1>8, <1>9, GoesOn

\* The row is inserted, which is the end of this photo.
LEMMA RowChain ==
    ASSUME PageInv, NEW x \in work, InsertRow(x)
    PROVE  WorkOK' /\ ChainInv' /\ EvidenceOK'
<1> DEFINE st == IF Len(x.left) = 1 THEN "load" ELSE "original"
           y == [x EXCEPT !.left = Tail(@), !.stage = st]
<1>1. /\ x.stage = "row" /\ rows' = rows \cup {File(x)}
      /\ UNCHANGED <<attempts, originals, derivatives, finished, failed>>
      /\ work' \subseteq (work \ {x}) \cup {y}
  BY DEF InsertRow, Answer
<1>2. x \in PressType /\ Pressed(x) /\ EvidenceOK /\ ChainInv
  BY TypeParts DEF PageInv, ChainInv, WorkOK
<1>3. Recorded(x) /\ x.left # <<>>
  BY <1>1, <1>2 DEF Recorded, Pressed
<1>4. /\ File(x) \in (1..Len(attempts)) \X Photo
      /\ Len(x.left) \in Nat /\ Len(x.left) >= 1 /\ Len(x.all) \in Nat
      /\ Done(x) \in Nat /\ Done(x) + 1 \in 1..Len(x.all)
      /\ File(x) = <<x.attempt, x.all[Done(x) + 1]>>
  BY <1>3, NextFile
<1>5. EvidenceOK'
  BY <1>1, <1>2, <1>4 DEF EvidenceOK
<1>6. /\ Tail(x.left) \in Seq(Photo) /\ Len(Tail(x.left)) = Len(x.left) - 1
      /\ \A j \in 1..Len(x.left) - 1 : Tail(x.left)[j] = x.left[j + 1]
  BY <1>2, <1>3, HeadTailProperties DEF PressType
<1>7. /\ y \in PressType /\ y.left = Tail(x.left) /\ y.all = x.all
      /\ y.attempt = x.attempt /\ y.stage = st
  BY <1>2, <1>6 DEF PressType
<1>8. \A z \in work \ {x} : Recorded(z) => z.attempt # x.attempt
  BY <1>2, <1>3 DEF ChainInv
<1>9. \A z \in work \ {x} : Pressed(z)'
  <2> SUFFICES ASSUME NEW z \in work \ {x} PROVE Pressed(z)'
    OBVIOUS
  <2>1. Pressed(z) /\ (Recorded(z) => z.attempt # File(x)[1])
    BY <1>2, <1>4, <1>8 DEF ChainInv
  <2> HIDE DEF y, st
  <2> QED
    BY <1>1, <2>1 DEF Pressed, Recorded, File, Done
<1>10. Pressed(y)'
  <2> HIDE DEF y
  <2>1. Done(y) = Done(x) + 1
    <3>1. PICK m \in Nat, n \in Nat : Len(x.all) = m /\ Len(x.left) = n
      BY <1>4
    <3>2. n >= 1 /\ n - 1 \in Nat
      BY <1>4, <3>1
    <3>3. Len(y.all) = m /\ Len(y.left) = n - 1
      BY <1>6, <1>7, <3>1
    <3>4. Done(x) = m - n /\ Done(y) = m - (n - 1)
      BY <3>1, <3>2, <3>3, DoneIs
    <3> QED
      BY <3>2, <3>4
  <2>2. Len(y.left) <= Len(y.all)
    BY <1>2, <1>4, <1>6, <1>7 DEF Pressed
  <2>3. \A j \in 1..Len(y.left) : y.left[j] = y.all[Done(y) + j]
    <3> SUFFICES ASSUME NEW j \in 1..Len(y.left)
                 PROVE  y.left[j] = y.all[Done(y) + j]
      OBVIOUS
    <3>1. y.left[j] = x.left[j + 1] /\ j + 1 \in 1..Len(x.left)
      BY <1>4, <1>6, <1>7
    <3>2. x.left[j + 1] = x.all[Done(x) + (j + 1)]
      BY <1>2, <3>1 DEF Pressed
    <3>3. Done(x) + (j + 1) = Done(y) + j
      BY <1>4, <2>1
    <3> QED
      BY <1>7, <3>1, <3>2, <3>3
  <2>4. y.stage = "load" => y.left = <<>>
    <3>1. st = "load" => Len(x.left) = 1
      OBVIOUS
    <3>2. Len(x.left) = 1 => Len(y.left) = 0
      BY <1>6, <1>7
    <3> HIDE DEF st
    <3> QED
      BY <1>6, <1>7, <3>1, <3>2, EmptySeq
  <2>5. y.stage \in {"original", "derivative", "row"} => y.left # <<>>
    <3>1. st # "load" => Len(x.left) # 1
      OBVIOUS
    <3>2. Len(x.left) # 1 => Len(y.left) # 0
      BY <1>4, <1>6, <1>7
    <3> HIDE DEF st
    <3> QED
      BY <1>7, <3>1, <3>2, EmptySeq
  <2>6. y.stage \notin {"record", "derivative", "row"}
    BY <1>7
  <2>7. \A i \in 1..Done(y) : <<y.attempt, y.all[i]>> \in rows'
    <3> SUFFICES ASSUME NEW i \in 1..Done(y)
                 PROVE  <<x.attempt, x.all[i]>> \in rows'
      BY <1>7
    <3>1. CASE i = Done(x) + 1
      BY <1>1, <1>4, <3>1
    <3>2. CASE i \in 1..Done(x)
      BY <1>1, <1>2, <1>3, <3>2 DEF Pressed
    <3> QED
      BY <1>4, <2>1, <3>1, <3>2
  <2>8. \A e \in rows' : e[1] = y.attempt => \E i \in 1..Done(y) : y.all[i] = e[2]
    <3> SUFFICES ASSUME NEW e \in rows', e[1] = x.attempt
                 PROVE  \E i \in 1..Done(y) : x.all[i] = e[2]
      BY <1>7
    <3>1. CASE e \in rows
      <4>1. PICK i \in 1..Done(x) : x.all[i] = e[2]
        BY <1>2, <1>3, <3>1 DEF Pressed
      <4> QED
        BY <1>4, <2>1, <4>1
    <3>2. CASE e = File(x)
      BY <1>4, <2>1, <3>2
    <3> QED
      BY <1>1, <3>1, <3>2
  <2>9. y.attempt \in 1..Len(attempts') /\ attempts'[y.attempt].photos = y.all
    BY <1>1, <1>2, <1>3, <1>7 DEF Pressed
  <2> QED
    BY <2>2, <2>3, <2>4, <2>5, <2>6, <2>7, <2>8, <2>9 DEF Pressed, Recorded
<1> HIDE DEF y, st
<1> QED
  BY <1>1, <1>5, <1>7, <1>8, <1>9, <1>10, GoesOn

\* The derivative fails and the original goes: the other presses have files of
\* their own.
LEMMA FailedDerivativeChain ==
    ASSUME PageInv, NEW x \in work, DerivativeFails(x)
    PROVE  WorkOK' /\ ChainInv' /\ EvidenceOK'
<1>1. /\ x.stage = "derivative" /\ originals' = originals \ {File(x)}
      /\ failed' = failed \cup {File(x)}
      /\ UNCHANGED <<attempts, derivatives, rows, finished>>
      /\ work' = work \ {x}
  BY DEF DerivativeFails
<1>2. x \in PressType /\ Pressed(x) /\ EvidenceOK /\ ChainInv /\ WorkOK
  BY TypeParts DEF PageInv, ChainInv, WorkOK
<1>file. File(x) \in (1..Len(attempts)) \X Photo
  BY <1>1, <1>2, NextFile DEF Recorded, Pressed
<1>3. EvidenceOK'
  BY <1>1, <1>2, <1>file DEF EvidenceOK
<1>4. WorkOK'
  BY <1>1, <1>2 DEF WorkOK
<1>5. \A z \in work' : Pressed(z)'
  <2> SUFFICES ASSUME NEW z \in work \ {x} PROVE Pressed(z)'
    BY <1>1
  <2>1. Pressed(z) /\ (Recorded(z) => z.attempt # x.attempt)
    BY <1>1, <1>2 DEF ChainInv, Recorded
  <2>2. Recorded(z) => File(z) # File(x)
    BY <2>1 DEF File
  <2> QED
    BY <1>1, <2>1, <2>2 DEF Pressed, Recorded, File, Done
<1> QED
  BY <1>1, <1>2, <1>3, <1>4, <1>5 DEF ChainInv

\* Presses change hands: what is at the server, or in the closure of a page that
\* is not there any more, goes on as it was.
LEMMA HandedOver ==
    ASSUME PageInv, UNCHANGED <<attempts, evidence>>, NEW g \in [work -> PressType],
           work' \subseteq {g[x] : x \in work},
           \A x \in work : /\ g[x].left = x.left /\ g[x].all = x.all
                           /\ g[x].attempt = x.attempt /\ g[x].stage = x.stage
    PROVE  WorkOK' /\ ChainInv'
<1>1. ChainInv
  BY DEF PageInv
<1>2. \A x \in work : Pressed(g[x])
  <2> TAKE x \in work
  <2>1. PICK y : y = g[x]
    OBVIOUS
  <2>2. /\ y.left = x.left /\ y.all = x.all /\ y.attempt = x.attempt
        /\ y.stage = x.stage /\ Pressed(x)
    BY <1>1, <2>1 DEF ChainInv
  <2>3. Done(y) = Done(x) /\ File(y) = File(x) /\ Recorded(y) = Recorded(x)
    BY <2>2 DEF Done, File, Recorded
  <2> QED
    BY <2>1, <2>2, <2>3 DEF Pressed
<1>3. \A z \in work' : z \in PressType /\ Pressed(z)'
  BY <1>2, PressedKept
<1>4. \A z, v \in work' : Recorded(z) /\ Recorded(v) /\ z.attempt = v.attempt => z = v
  BY <1>1 DEF ChainInv, Recorded
<1> QED
  BY <1>3, <1>4 DEF ChainInv, WorkOK

\* The page is left: its presses go on.
LEMMA LeftChain ==
    ASSUME PageInv, UNCHANGED <<attempts, evidence>>, NEW W \in SUBSET work,
           work' = LeaveBehind(W)
    PROVE  WorkOK' /\ ChainInv'
<1> DEFINE g == [x \in work |->
                   [x EXCEPT !.from = IF @ = "page" THEN "left" ELSE @]]
<1>1. WorkOK
  BY TypeParts DEF PageInv
<1>2. g \in [work -> PressType]
  BY <1>1 DEF WorkOK, PressType
<1>3. work' \subseteq {g[x] : x \in work}
  BY DEF LeaveBehind
<1>4. \A x \in work : /\ g[x].left = x.left /\ g[x].all = x.all
                      /\ g[x].attempt = x.attempt /\ g[x].stage = x.stage
  BY <1>1 DEF WorkOK, PressType
<1> HIDE DEF g
<1> QED
  BY <1>2, <1>3, <1>4, HandedOver

\* Nobody waits for some of the presses any more.
LEMMA UnawaitedChain ==
    ASSUME PageInv, UNCHANGED <<attempts, evidence>>, NEW W \in SUBSET work,
           work' \subseteq (work \ W) \cup {Unawaited(x) : x \in W}
    PROVE  WorkOK' /\ ChainInv'
<1> DEFINE g == [x \in work |-> IF x \in W THEN Unawaited(x) ELSE x]
<1>1. WorkOK
  BY TypeParts DEF PageInv
<1>2. g \in [work -> PressType]
  BY <1>1 DEF WorkOK, PressType, Unawaited
<1>3. work' \subseteq {g[x] : x \in work}
  OBVIOUS
<1>4. \A x \in work : /\ g[x].left = x.left /\ g[x].all = x.all
                      /\ g[x].attempt = x.attempt /\ g[x].stage = x.stage
  BY <1>1 DEF WorkOK, PressType, Unawaited
<1> HIDE DEF g
<1> QED
  BY <1>2, <1>3, <1>4, HandedOver

\* A call fails, whether the server goes on with it or not.
LEMMA CallFailsChain ==
    ASSUME PageInv, NEW x \in work, CallFails(x)
    PROVE  WorkOK' /\ ChainInv'
<1>1. UNCHANGED <<attempts, evidence>>
  BY DEF CallFails
<1>2. PICK W : W = {x}
  OBVIOUS
<1>3. work' \subseteq (work \ W) \cup {Unawaited(z) : z \in W}
  BY <1>2 DEF CallFails
<1> QED
  BY <1>1, <1>2, <1>3, UnawaitedChain

\* A press begins.
LEMMA PressChain ==
    ASSUME PageInv, Press
    PROVE  WorkOK' /\ ChainInv'
<1>1. /\ shown \in Step /\ work' = work \cup {NewPress}
      /\ UNCHANGED <<attempts, evidence>>
  BY DEF Press
<1>2. WorkOK /\ ChainInv /\ photos \in Seq(Photo) /\ deeds \in Nat
  BY TypeParts DEF PageInv, PageOK, CountersOK
<1>3. NewPress \in PressType
  BY <1>1, <1>2 DEF NewPress, PressType
<1>4. /\ NewPress.stage = "record" /\ NewPress.left = photos /\ NewPress.all = photos
  BY DEF NewPress
<1>5. Pressed(NewPress)
  <2>1. Len(photos) \in Nat
    BY <1>2, LenProperties
  <2>2. Done(NewPress) = 0
    BY <1>4, <2>1 DEF Done
  <2> QED
    BY <1>4, <2>1, <2>2 DEF Pressed, Recorded
<1>6. \A z \in work' : Pressed(z)'
  <2> TAKE z \in work'
  <2>1. Pressed(z)
    BY <1>1, <1>2, <1>5 DEF ChainInv
  <2> QED
    BY <1>1, <2>1, PressedKept
<1> QED
  BY <1>1, <1>2, <1>3, <1>4, <1>6 DEF ChainInv, WorkOK, Recorded

-----------------------------------------------------------------------------
(* The page and its activations.                                           *)

\* Activations stay activations when one of them arrives or is lost.
LEMMA ActsTyped ==
    ASSUME OutputOK, NEW i \in 1..Len(acts), Deliver(i) \/ LoseActivation(i)
    PROVE  OutputOK'
<1>1. acts \in Seq(ActType) /\ Len(acts) \in Nat
  BY LenProperties DEF OutputOK
<1>2. \A j \in 1..Len(acts) : acts[j] \in ActType
  BY <1>1, ElementOfSeq
<1>3. CASE Deliver(i)
  <2> DEFINE n == Len(acts) - 1
             f == [j \in 1..n |->
                     IF j < i THEN [acts[j] EXCEPT !.overtaken = TRUE] ELSE acts[j + 1]]
  <2>1. n \in Nat
    BY <1>1
  <2>2. \A j \in 1..n : f[j] \in ActType
    <3> SUFFICES ASSUME NEW j \in 1..n PROVE f[j] \in ActType
      OBVIOUS
    <3>1. acts[j] \in ActType /\ acts[j + 1] \in ActType
      BY <1>1, <1>2
    <3>2. [acts[j] EXCEPT !.overtaken = TRUE] \in ActType
      BY <3>1 DEF ActType
    <3> QED
      BY <3>1, <3>2
  <2>3. f \in [1..n -> ActType]
    BY <2>2
  <2>4. f \in Seq(ActType)
    <3> HIDE DEF f, n
    <3> QED
      BY <2>1, <2>3, SeqDef
  <2>5. acts' = f /\ pattern' = acts[i].step
        /\ disturbed' = (disturbed \/ acts[i].overtaken)
    BY <1>3 DEF Deliver
  <2>6. acts[i].step \in Step /\ acts[i].overtaken \in BOOLEAN
    BY <1>2 DEF ActType
  <2> HIDE DEF f
  <2> QED
    BY <2>4, <2>5, <2>6 DEF OutputOK
<1>4. CASE LoseActivation(i)
  <2>1. acts' = SubSeq(acts, 1, i - 1) \o SubSeq(acts, i + 1, Len(acts))
    BY <1>1, <1>4 DEF LoseActivation, RemoveAt
  <2>2. /\ SubSeq(acts, 1, i - 1) \in Seq(ActType)
        /\ SubSeq(acts, i + 1, Len(acts)) \in Seq(ActType)
    BY <1>1, SubSeqProperties
  <2>3. acts' \in Seq(ActType)
    BY <2>1, <2>2, ConcatProperties
  <2> QED
    BY <1>4, <2>3 DEF LoseActivation, OutputOK
<1> QED
  BY <1>3, <1>4

\* The page to which a press moves on is a step or the review.
LEMMA NextPage ==
    EvidenceOK => First(Unanswered \cup {Review}) \in 0..Review
<1> SUFFICES ASSUME EvidenceOK
             PROVE  First(Unanswered \cup {Review}) \in 0..Review
  OBVIOUS
<1>1. Unanswered \cup {Review} \in SUBSET (0..Review) /\ Review \in Nat
  BY GuidedBounds DEF Unanswered, Step, Review
<1>2. Unanswered \cup {Review} \in SUBSET Nat
  BY <1>1
<1>3. First(Unanswered \cup {Review}) \in Unanswered \cup {Review}
  BY <1>2, FirstIn
<1> QED
  BY <1>1, <1>3

\* A press that is over has moved the page on.
LEMMA MoveOnStep ==
    ASSUME PageInv, NEW x \in work, MoveOn(x)
    PROVE  PageInv'
<1>1. PageOK /\ WorkOK /\ OutputOK /\ EvidenceOK /\ CountersOK /\ ChainInv
  BY TypeParts DEF PageInv
<1>2. WorkOK' /\ ChainInv'
  BY FewerPresses DEF MoveOn
<1>3. Answered \subseteq Step
  BY <1>1, AnsweredSteps
<1>4. PICK s \in 0..Review : s = First(Unanswered \cup {Review})
  BY <1>1, NextPage
<1>5. Show(s) /\ known' \subseteq Step
  BY <1>3, <1>4 DEF MoveOn
<1>6. PageOK' /\ OutputOK'
  BY <1>1, <1>5, ShowTyped
<1>7. x.attempt \in 1..Len(attempts)
  BY <1>1 DEF MoveOn, ChainInv, Pressed, Recorded
<1>8. EvidenceOK'
  BY <1>1, <1>7 DEF MoveOn, EvidenceOK, evidence
<1>9. CountersOK'
  BY <1>1 DEF MoveOn, CountersOK
<1> QED
  BY <1>2, <1>6, <1>8, <1>9, TypeParts, PTL DEF PageInv

\* What is in doubt are steps.
LEMMA DoubtTyped ==
    ASSUME WorkOK, CountersOK, NEW W \in SUBSET work
    PROVE  InDoubt(W) \subseteq Step
BY DEF InDoubt, WorkOK, CountersOK, PressType

\* A press of a page that was left is over, and the review may be shown.
LEMMA MoveAwayStep ==
    ASSUME PageInv, NEW x \in work, MoveAway(x)
    PROVE  PageInv'
<1>1. PageOK /\ WorkOK /\ OutputOK /\ EvidenceOK /\ CountersOK /\ ChainInv
  BY TypeParts DEF PageInv
<1>2. WorkOK' /\ ChainInv'
  <2>1. CASE Unanswered = {}
    BY <2>1, LeftChain DEF MoveAway
  <2>2. CASE Unanswered # {}
    BY <2>2, FewerPresses DEF MoveAway
  <2> QED
    BY <2>1, <2>2
<1>3. PageOK'
  <2>1. Review \in 0..Review
    BY GuidedBounds DEF Review
  <2> QED
    BY <1>1, <2>1 DEF MoveAway, PageOK
<1>4. OutputOK'
  BY <1>1 DEF MoveAway, OutputOK, output
<1>5. x.attempt \in 1..Len(attempts)
  BY <1>1 DEF MoveAway, ChainInv, Pressed, Recorded
<1>6. EvidenceOK'
  BY <1>1, <1>5 DEF MoveAway, EvidenceOK, evidence
<1>7. CountersOK'
  BY <1>1, DoubtTyped DEF MoveAway, CountersOK
<1> QED
  BY <1>2, <1>3, <1>4, <1>6, <1>7, TypeParts, PTL DEF PageInv

-----------------------------------------------------------------------------
(* The invariant of the page.                                              *)

\* A page that was not loaded has nothing under way.
LEMMA PageInit == Init => PageInv
<1> SUFFICES ASSUME Init PROVE PageInv
  OBVIOUS
<1>1. PageOK /\ OutputOK
  <2>1. 0 \in 0..Review
    BY GuidedBounds DEF Review
  <2>2. acts = <<>> /\ photos = <<>> /\ shown = 0 /\ known = {} /\ pattern = 0
        /\ disturbed = FALSE
    BY DEF Init, Loading
  <2>3. acts \in Seq(ActType) /\ photos \in Seq(Photo)
    BY <2>2, EmptySeq
  <2> QED
    BY <2>1, <2>2, <2>3 DEF PageOK, OutputOK
<1>2. WorkOK /\ ChainInv
  BY DEF Init, WorkOK, ChainInv
<1>3. EvidenceOK
  BY EmptySeq DEF Init, EvidenceOK
<1>4. CountersOK
  BY DEF Init, CountersOK
<1> QED
  BY <1>1, <1>2, <1>3, <1>4, TypeParts DEF PageInv

\* Every step of page, server and network keeps it.
LEMMA PageStep == PageInv /\ [Next]_vars => PageInv'
<1> SUFFICES ASSUME PageInv, [Next]_vars PROVE PageInv'
  OBVIOUS
<1>1. PageOK /\ WorkOK /\ OutputOK /\ EvidenceOK /\ CountersOK /\ ChainInv
  BY TypeParts DEF PageInv
<1> DEFINE Typed == PageOK /\ WorkOK /\ OutputOK /\ EvidenceOK /\ CountersOK
<1>2. Typed' /\ ChainInv' => PageInv'
  BY TypeParts, PTL DEF PageInv
<1>3. UNCHANGED <<attempts, evidence>> /\ work' \subseteq work => WorkOK' /\ ChainInv'
  BY FewerPresses
<1>4. UNCHANGED <<attempts, evidence, finished, failed>> => EvidenceOK'
  BY <1>1 DEF EvidenceOK, evidence
<1>5. UNCHANGED output => OutputOK'
  BY <1>1 DEF OutputOK, output
<1>6. (Fault => faults' \in Nat) /\ (Deed => deeds' \in Nat)
  BY <1>1 DEF Fault, Deed, CountersOK
<1>doubt. \A W \in SUBSET work : InDoubt(W) \subseteq Step
  BY <1>1, DoubtTyped
<1>steps. \A x \in work : x.step \in Step
  BY <1>1 DEF WorkOK, PressType
<1>7. Loading \in 0..Review /\ Step \subseteq 0..Review
  BY GuidedBounds DEF Loading, Review, Step
<1>8. CASE Load
  <2>1. PICK s \in Step : Show(s)
    BY <1>8 DEF Load
  <2>2. PageOK' /\ OutputOK'
    BY <1>1, <1>7, <1>8, <2>1, AnsweredSteps, ShowTyped DEF Load
  <2> QED
    BY <1>1, <1>2, <1>3, <1>4, <1>8, <2>2 DEF Load, CountersOK
<1>9. CASE Move
  <2>1. PICK s \in Step : Show(s)
    BY <1>9 DEF Move
  <2>2. PageOK' /\ OutputOK'
    BY <1>1, <1>7, <1>9, <2>1, ShowTyped DEF Move, PageOK
  <2> QED
    BY <1>1, <1>2, <1>3, <1>4, <1>6, <1>9, <2>2 DEF Move, CountersOK
<1>10. CASE GoTo
  <2>1. PageOK'
    BY <1>7, <1>10, EmptySeq DEF GoTo, PageOK
  <2> QED
    BY <1>1, <1>2, <1>3, <1>4, <1>6, <1>5, <1>10, <2>1 DEF GoTo, CountersOK
<1>11. CASE Press
  <2>1. WorkOK' /\ ChainInv'
    BY <1>11, PressChain
  <2>2. PageOK'
    BY <1>1, <1>11 DEF Press, PageOK
  <2> QED
    BY <1>1, <1>2, <1>4, <1>5, <1>6, <1>11, <2>1, <2>2 DEF Press, CountersOK
<1>12. CASE Kill
  <2>1. PageOK' /\ OutputOK'
    BY <1>1, <1>12 DEF Kill, PageOK, OutputOK
  <2>2. CountersOK'
    BY <1>1, <1>6, <1>12, <1>doubt DEF Kill, CountersOK
  <2> QED
    BY <1>2, <1>3, <1>4, <1>12, <2>1, <2>2 DEF Kill
<1>13. CASE Reload
  <2>1. WorkOK' /\ ChainInv'
    <3>1. PICK W \in SUBSET work : W = {y \in work : y.stage # "load"}
      OBVIOUS
    <3> QED
      BY <1>13, <3>1, UnawaitedChain DEF Reload
  <2>2. PageOK'
    BY <1>7, <1>13, EmptySeq DEF Reload, PageOK
  <2>3. CountersOK'
    BY <1>1, <1>6, <1>13, <1>doubt DEF Reload, CountersOK
  <2> QED
    BY <1>2, <1>4, <1>5, <1>13, <2>1, <2>2, <2>3 DEF Reload
<1>14. ASSUME NEW p \in Photo, Attach(p) PROVE PageInv'
  <2>1. photos' \in Seq(Photo)
    BY <1>1, <1>14, AppendProperties DEF Attach, PageOK
  <2>2. PageOK'
    BY <1>1, <1>14, <2>1 DEF Attach, PageOK
  <2> QED
    BY <1>1, <1>2, <1>3, <1>4, <1>5, <1>6, <1>14, <2>2 DEF Attach, CountersOK
<1>15. ASSUME NEW x \in work, RecordAttempt(x) PROVE PageInv'
  <2>1. WorkOK' /\ ChainInv' /\ EvidenceOK'
    BY <1>15, RecordChain
  <2>2. PageOK' /\ CountersOK'
    BY <1>1, <1>15 DEF RecordAttempt, PageOK, CountersOK
  <2> QED
    BY <1>2, <1>5, <1>15, <2>1, <2>2 DEF RecordAttempt
<1>16. ASSUME NEW x \in work, WriteOriginal(x) \/ WriteDerivative(x) PROVE PageInv'
  <2>1. WorkOK' /\ ChainInv' /\ EvidenceOK'
    BY <1>16, FileChain
  <2>2. PageOK' /\ CountersOK'
    BY <1>1, <1>16 DEF WriteOriginal, WriteDerivative, PageOK, CountersOK
  <2> QED
    BY <1>2, <1>5, <1>16, <2>1, <2>2 DEF WriteOriginal, WriteDerivative
<1>17. ASSUME NEW x \in work, InsertRow(x) PROVE PageInv'
  <2>1. WorkOK' /\ ChainInv' /\ EvidenceOK'
    BY <1>17, RowChain
  <2>2. PageOK' /\ CountersOK'
    BY <1>1, <1>17 DEF InsertRow, PageOK, CountersOK
  <2> QED
    BY <1>2, <1>5, <1>17, <2>1, <2>2 DEF InsertRow
<1>18. ASSUME NEW x \in work, CallFails(x) PROVE PageInv'
  <2>1. PageOK'
    BY <1>1, <1>18 DEF CallFails, PageOK
  <2>2. CountersOK'
    BY <1>1, <1>6, <1>18, <1>steps DEF CallFails, CountersOK
  <2>3. WorkOK' /\ ChainInv'
    BY <1>18, CallFailsChain
  <2> QED
    BY <1>2, <1>4, <1>5, <1>18, <2>1, <2>2, <2>3 DEF CallFails
<1>19. ASSUME NEW x \in work, DerivativeFails(x) PROVE PageInv'
  <2>1. WorkOK' /\ ChainInv' /\ EvidenceOK'
    BY <1>19, FailedDerivativeChain
  <2>2. PageOK'
    BY <1>1, <1>19 DEF DerivativeFails, PageOK
  <2>3. CountersOK'
    BY <1>1, <1>6, <1>19, <1>steps DEF DerivativeFails, CountersOK
  <2> QED
    BY <1>2, <1>5, <1>19, <2>1, <2>2, <2>3 DEF DerivativeFails
<1>20. ASSUME NEW i \in 1..Len(acts), Deliver(i) \/ LoseActivation(i) PROVE PageInv'
  <2>1. OutputOK'
    BY <1>1, <1>20, ActsTyped
  <2>2. PageOK'
    BY <1>1, <1>20 DEF Deliver, LoseActivation, PageOK
  <2>3. CountersOK'
    BY <1>1, <1>6, <1>20 DEF Deliver, LoseActivation, CountersOK
  <2> QED
    BY <1>2, <1>3, <1>4, <1>20, <2>1, <2>2, <2>3 DEF Deliver, LoseActivation
<1>21. CASE UNCHANGED vars
  <2>1. PageOK' /\ CountersOK'
    BY <1>1, <1>21 DEF vars, PageOK, CountersOK
  <2> QED
    BY <1>2, <1>3, <1>4, <1>5, <1>21, <2>1 DEF vars
<1>22. CASE Leave
  <2>1. WorkOK' /\ ChainInv'
    BY <1>22, LeftChain DEF Leave
  <2>2. PageOK'
    BY <1>7, <1>22, EmptySeq DEF Leave, PageOK
  <2>3. CountersOK'
    BY <1>1, <1>6, <1>22, <1>doubt DEF Leave, CountersOK
  <2> QED
    BY <1>2, <1>4, <1>5, <1>22, <2>1, <2>2, <2>3 DEF Leave
<1>23. CASE SoakEnds
  <2>1. PageOK' /\ OutputOK' /\ CountersOK'
    BY <1>1, <1>23 DEF SoakEnds, PageOK, OutputOK, CountersOK
  <2> QED
    BY <1>2, <1>3, <1>4, <1>23, <2>1 DEF SoakEnds
<1> QED
  BY <1>8, <1>9, <1>10, <1>11, <1>12, <1>13, <1>14, <1>15, <1>16, <1>17, <1>18,
     <1>19, <1>20, <1>21, <1>22, <1>23, MoveOnStep, MoveAwayStep DEF Next, Chain

\* The invariant holds in every reachable state.
LEMMA PageInvariant == Spec => []PageInv
BY PageInit, PageStep, PTL DEF Spec

\* Whatever presses, moves, returns to the page, reloads, kills and failing
\* calls overlap, page, activations and evidence keep their types; in
\* particular every file and row is that of a recorded attempt.
THEOREM TypesOfGuidedTest == Spec => []TypeOK
<1>1. PageInv => TypeOK
  BY DEF PageInv
<1> QED
  BY <1>1, PageInvariant, PTL

-----------------------------------------------------------------------------
(* No step is answered twice unseen.                                       *)

AnswersInv == OnePress /\ NoBlindRetest

\* No attempt is added: presses are given up or change hands, and the steps of
\* those that are no longer the page's own are in doubt.
LEMMA AnswersKept ==
    ASSUME AnswersInv, attempts' = attempts, doubtful \subseteq doubtful',
           \A z \in work' : z.from = "page" => z \in work,
           \A z \in work' : z.from # "page" => z.step \in doubtful',
           \/ known' = Answered
           \/ shown' \notin Step
           \/ /\ known' = known /\ (shown' = shown \/ shown \in Step)
              /\ \A x \in work : x.from = "page" => x \in work' \/ x.step \in doubtful'
    PROVE  AnswersInv'
<1>1. Answered' = Answered
  BY DEF Answered
<1>2. NoBlindRetest'
  BY DEF AnswersInv, NoBlindRetest
<1>3. OnePress'
  <2>1. \A x, y \in work' : x.from = "page" /\ y.from = "page" => x = y
    BY DEF AnswersInv, OnePress
  <2>2. ASSUME shown' \in Step, NEW s \in Answered \ (known' \cup doubtful')
        PROVE  \E x \in work' : x.from = "page" /\ x.stage # "record" /\ x.step = s
    <3>1. /\ known' = known /\ shown \in Step
          /\ \A x \in work : x.from = "page" => x \in work' \/ x.step \in doubtful'
      BY <2>2
    <3>2. PICK x \in work : x.from = "page" /\ x.stage # "record" /\ x.step = s
      BY <2>2, <3>1 DEF AnswersInv, OnePress
    <3> QED
      BY <2>2, <3>1, <3>2
  <2>3. \A x \in work' : x.from = "page" /\ x.stage = "record" /\ x.step \in Answered
                         => x.knew \/ x.step \in doubtful'
    BY DEF AnswersInv, OnePress
  <2> QED
    BY <1>1, <2>1, <2>2, <2>3 DEF OnePress
<1> QED
  BY <1>2, <1>3 DEF AnswersInv

\* A press begins: it is the only one of the page, which knew what is not in
\* doubt.
LEMMA PressKnew ==
    ASSUME PageInv, AnswersInv, Press
    PROVE  AnswersInv'
<1>1. Answered' = Answered /\ UNCHANGED <<shown, known, doubtful>>
  BY DEF Answered, Press
<1>2. NoBlindRetest'
  BY DEF AnswersInv, NoBlindRetest, Press
<1>3. PICK y : y = NewPress
  OBVIOUS
<1>4. /\ y.from = "page" /\ y.stage = "record" /\ y.step = shown
      /\ y.knew = (shown \in known)
  BY <1>3 DEF NewPress
<1>5. work' = work \cup {y} /\ shown \in Step /\ \A x \in work : x.from # "page"
  BY <1>3 DEF Press, Busy
<1>6. Answered \subseteq known \cup doubtful
  BY <1>5 DEF AnswersInv, OnePress
<1>7. OnePress'
  <2>1. \A x \in work' : x.from # "page" => x.step \in doubtful
    BY <1>4, <1>5 DEF AnswersInv, OnePress
  <2>2. y.step \in Answered => y.knew \/ y.step \in doubtful
    <3>1. CASE shown \in known
      BY <1>4, <3>1
    <3>2. CASE shown \notin known
      BY <1>4, <1>6, <3>2
    <3> QED
      BY <3>1, <3>2
  <2> QED
    BY <1>1, <1>4, <1>5, <1>6, <2>1, <2>2 DEF OnePress
<1> QED
  BY <1>2, <1>7 DEF AnswersInv

\* A press x goes on as y, past its attempt: its step is the only one that may
\* have become answered.
LEMMA GoesOnKnew ==
    ASSUME OnePress, NEW x \in work, NEW y,
           y.from = x.from, y.step = x.step, y.stage # "record",
           work' \subseteq (work \ {x}) \cup {y},
           work \ {x} \subseteq work', x.from # "gone" => y \in work',
           UNCHANGED <<shown, known, doubtful>>,
           Answered' \subseteq Answered \cup {x.step}
    PROVE  OnePress'
<1>1. \A z, v \in work' : z.from = "page" /\ v.from = "page" => z = v
  BY DEF OnePress
<1>2. \A z \in work' : z.from # "page" => z.step \in doubtful
  BY DEF OnePress
<1>3. ASSUME shown \in Step, NEW s \in Answered' \ (known \cup doubtful)
      PROVE  \E z \in work' : z.from = "page" /\ z.stage # "record" /\ z.step = s
  <2>1. CASE s = x.step
    <3>1. x.from = "page"
      BY <1>3, <2>1 DEF OnePress
    <3> QED
      BY <2>1, <3>1
  <2>2. CASE s # x.step
    <3>1. PICK z \in work : z.from = "page" /\ z.stage # "record" /\ z.step = s
      BY <1>3, <2>2 DEF OnePress
    <3> QED
      BY <2>2, <3>1
  <2> QED
    BY <2>1, <2>2
<1>4. ASSUME NEW z \in work', z.from = "page", z.stage = "record", z.step \in Answered'
      PROVE  z.knew \/ z.step \in doubtful
  <2>1. z \in work /\ z # x
    BY <1>4
  <2>2. CASE z.step \in Answered
    BY <1>4, <2>1, <2>2 DEF OnePress
  <2>3. CASE z.step = x.step
    BY <1>4, <2>1, <2>3 DEF OnePress
  <2> QED
    BY <1>4, <2>2, <2>3
<1> QED
  BY <1>1, <1>2, <1>3, <1>4 DEF OnePress

\* An attempt is recorded: if it is blind, its step is in doubt.
LEMMA RecordKnew ==
    ASSUME PageInv, AnswersInv, NEW x \in work, RecordAttempt(x)
    PROVE  AnswersInv'
<1> DEFINE b == x.step \in Answered /\ ~x.knew
           a == [step |-> x.step, photos |-> x.all, blind |-> b]
           y == [x EXCEPT !.attempt = Len(attempts) + 1,
                          !.stage = IF x.left = <<>> THEN "load" ELSE "original"]
<1>1. /\ x.stage = "record" /\ attempts' = Append(attempts, a)
      /\ UNCHANGED <<shown, known, doubtful>>
      /\ work' = (work \ {x}) \cup (IF x.from # "gone" THEN {y} ELSE {})
  BY DEF RecordAttempt, Answer
<1>2. x \in PressType /\ attempts \in Seq(AttemptType)
  BY TypeParts DEF PageInv, WorkOK, EvidenceOK
<1>3. y.from = x.from /\ y.step = x.step /\ y.stage # "record"
  BY <1>2 DEF PressType
<1>4. a \in AttemptType /\ a.step = x.step /\ a.blind = b
  BY <1>2 DEF AttemptType, PressType
<1>5. b => x.step \in doubtful
  BY <1>1 DEF AnswersInv, OnePress
<1>6. /\ Len(attempts') = Len(attempts) + 1 /\ Len(attempts) \in Nat
      /\ attempts'[Len(attempts) + 1] = a
      /\ \A k \in 1..Len(attempts) : attempts'[k] = attempts[k]
  <2> HIDE DEF a
  <2> QED
    BY <1>1, <1>2, <1>4, AppendProperties, LenProperties
<1> HIDE DEF a, b, y
<1>7. Answered' \subseteq Answered \cup {x.step}
  <2> SUFFICES ASSUME NEW k \in 1..Len(attempts')
               PROVE  attempts'[k].step \in Answered \cup {x.step}
    BY DEF Answered
  <2>1. CASE k = Len(attempts) + 1
    BY <1>4, <1>6, <2>1
  <2>2. CASE k \in 1..Len(attempts)
    BY <1>6, <2>2 DEF Answered
  <2> QED
    BY <1>6, <2>1, <2>2
<1>8. OnePress'
  <2>1. /\ work' \subseteq (work \ {x}) \cup {y} /\ work \ {x} \subseteq work'
        /\ x.from # "gone" => y \in work'
    BY <1>1
  <2> QED
    BY <1>1, <1>3, <1>7, <2>1, GoesOnKnew DEF AnswersInv
<1>9. NoBlindRetest'
  <2> SUFFICES ASSUME NEW k \in 1..Len(attempts'), attempts'[k].blind
               PROVE  attempts'[k].step \in doubtful
    BY <1>1 DEF NoBlindRetest
  <2>1. CASE k = Len(attempts) + 1
    BY <1>4, <1>5, <1>6, <2>1
  <2>2. CASE k \in 1..Len(attempts)
    BY <1>6, <2>2 DEF AnswersInv, NoBlindRetest
  <2> QED
    BY <1>6, <2>1, <2>2
<1> QED
  BY <1>8, <1>9 DEF AnswersInv

\* A press goes on at the server, which adds no attempt.
LEMMA ServerKnew ==
    ASSUME PageInv, AnswersInv, NEW x \in work,
           WriteOriginal(x) \/ WriteDerivative(x) \/ InsertRow(x)
    PROVE  AnswersInv'
<1>1. UNCHANGED <<shown, known, attempts, doubtful>>
  BY DEF WriteOriginal, WriteDerivative, InsertRow
<1>2. x \in PressType
  BY TypeParts DEF PageInv, WorkOK
<1>3. PICK y : /\ y.from = x.from /\ y.step = x.step /\ y.stage # "record"
               /\ \/ work' = (work \ {x}) \cup {y}
                  \/ work' = work \ {x} /\ x.from = "gone"
  <2>1. CASE WriteOriginal(x) \/ WriteDerivative(x)
    <3> DEFINE st == IF x.stage = "original" THEN "derivative" ELSE "row"
               y == [x EXCEPT !.stage = st]
    <3>1. y.from = x.from /\ y.step = x.step /\ y.stage # "record"
      BY <1>2 DEF PressType
    <3>2. work' = (work \ {x}) \cup {y}
      BY <2>1 DEF WriteOriginal, WriteDerivative, Within
    <3> HIDE DEF y
    <3> QED
      BY <3>1, <3>2
  <2>2. CASE InsertRow(x)
    <3> DEFINE st == IF Len(x.left) = 1 THEN "load" ELSE "original"
               y == [x EXCEPT !.left = Tail(@), !.stage = st]
    <3>1. y.from = x.from /\ y.step = x.step /\ y.stage # "record"
      BY <1>2 DEF PressType
    <3>2. work' = (work \ {x}) \cup (IF x.from # "gone" THEN {y} ELSE {})
      BY <2>2 DEF InsertRow, Answer
    <3> HIDE DEF y
    <3> QED
      BY <3>1, <3>2
  <2> QED
    BY <2>1, <2>2
<1>4. Answered' \subseteq Answered \cup {x.step}
  BY <1>1 DEF Answered
<1>5. /\ work' \subseteq (work \ {x}) \cup {y} /\ work \ {x} \subseteq work'
      /\ x.from # "gone" => y \in work'
  BY <1>3
<1>6. OnePress'
  BY <1>1, <1>3, <1>4, <1>5, GoesOnKnew DEF AnswersInv
<1>7. NoBlindRetest'
  BY <1>1 DEF AnswersInv, NoBlindRetest
<1> QED
  BY <1>6, <1>7 DEF AnswersInv

\* Presses left behind are no longer the page's own, and in doubt.
LEMMA BehindInDoubt ==
    ASSUME PageInv, OnePress, NEW W \in SUBSET work
    PROVE  /\ \A z \in LeaveBehind(W) : z.from # "page" /\ z.step \in InDoubt(work)
           /\ \A z \in W : Unawaited(z).from # "page"
                           /\ Unawaited(z).step = z.step
           /\ \A z \in work : z.step \in InDoubt(work)
<1>1. \A z \in W : z \in PressType
  BY TypeParts DEF PageInv, WorkOK
<1>2. \A z \in work : z.step \in InDoubt(work)
  BY DEF OnePress, InDoubt
<1>3. \A z \in W : Unawaited(z).from # "page" /\ Unawaited(z).step = z.step
  BY <1>1 DEF Unawaited, PressType
<1>4. ASSUME NEW z \in LeaveBehind(W)
      PROVE  z.from # "page" /\ z.step \in InDoubt(work)
  <2>1. PICK x \in W : z = [x EXCEPT !.from = IF @ = "page" THEN "left" ELSE @]
    BY DEF LeaveBehind
  <2>2. z.from # "page" /\ z.step = x.step
    BY <1>1, <2>1 DEF PressType
  <2> QED
    BY <1>2, <2>2
<1> QED
  BY <1>2, <1>3, <1>4

\* The page is taken down: what it had under way is in doubt.
LEMMA TakenDown ==
    ASSUME PageInv, AnswersInv, Leave \/ Kill \/ Reload
    PROVE  AnswersInv'
<1>1. attempts' = attempts /\ doubtful' = InDoubt(work) /\ doubtful \subseteq doubtful'
  BY DEF Leave, Kill, Reload, InDoubt
<1>2. OnePress
  BY DEF AnswersInv
<1>3. \A z \in work' : z.from # "page" /\ z.step \in doubtful'
  <2>1. CASE Leave
    BY <1>1, <1>2, <2>1, BehindInDoubt DEF Leave
  <2>2. CASE Kill
    BY <2>2 DEF Kill
  <2>3. CASE Reload
    <3>1. PICK W \in SUBSET work : W = {y \in work : y.stage # "load"}
      OBVIOUS
    <3>2. work' = {Unawaited(x) : x \in W}
      BY <2>3, <3>1 DEF Reload
    <3> QED
      BY <1>1, <1>2, <3>2, BehindInDoubt
  <2> QED
    BY <2>1, <2>2, <2>3
<1>4. \A x \in work : x.step \in doubtful'
  BY <1>1, <1>2, BehindInDoubt
<1>5. shown' \notin Step \/ (known' = known /\ shown' = shown)
  BY DEF Leave, Kill, Reload, Loading, Step
<1> QED
  BY <1>1, <1>3, <1>4, <1>5, AnswersKept

\* A press of a page that was left is over.
LEMMA AwayKnew ==
    ASSUME PageInv, AnswersInv, NEW x \in work, MoveAway(x)
    PROVE  AnswersInv'
<1>1. attempts' = attempts /\ known' = known /\ x.from = "left" /\ OnePress
  BY DEF MoveAway, AnswersInv
<1>2. CASE Unanswered = {}
  <2>1. /\ shown' = Review /\ doubtful' = InDoubt(work)
        /\ work' = LeaveBehind(work \ {x})
    BY <1>2 DEF MoveAway
  <2>2. doubtful \subseteq doubtful'
    BY <2>1 DEF InDoubt
  <2>3. \A z \in work' : z.from # "page" /\ z.step \in doubtful'
    BY <1>1, <2>1, BehindInDoubt
  <2>4. shown' \notin Step
    BY <2>1, GuidedBounds DEF Review, Step
  <2> QED
    BY <1>1, <2>2, <2>3, <2>4, AnswersKept
<1>3. CASE Unanswered # {}
  <2>1. work' = work \ {x} /\ doubtful' = doubtful /\ shown' = shown
    BY <1>3 DEF MoveAway
  <2> QED
    BY <1>1, <2>1, AnswersKept DEF OnePress
<1> QED
  BY <1>2, <1>3

\* A call fails: its step is in doubt.
LEMMA FailsKnew ==
    ASSUME PageInv, AnswersInv, NEW x \in work, CallFails(x) \/ DerivativeFails(x)
    PROVE  AnswersInv'
<1>1. /\ attempts' = attempts /\ known' = known /\ shown' = shown
      /\ doubtful' = doubtful \cup {x.step} /\ OnePress
  BY DEF CallFails, DerivativeFails, AnswersInv
<1>2. /\ work' \subseteq (work \ {x}) \cup {Unawaited(x)}
      /\ work \ {x} \subseteq work'
  BY DEF CallFails, DerivativeFails
<1>3. Unawaited(x).from # "page" /\ Unawaited(x).step = x.step
  BY <1>1, BehindInDoubt
<1>4. \A z \in work' : z.from = "page" => z \in work
  BY <1>2, <1>3
<1>5. \A z \in work' : z.from # "page" => z.step \in doubtful'
  BY <1>1, <1>2, <1>3 DEF OnePress
<1>6. \A z \in work : z \in work' \/ z.step \in doubtful'
  BY <1>1, <1>2
<1> QED
  BY <1>1, <1>4, <1>5, <1>6, AnswersKept

\* Presses, faults and moves keep what the page knows.
LEMMA AnswersStep == PageInv /\ AnswersInv /\ [Next]_vars => AnswersInv'
<1> SUFFICES ASSUME PageInv, AnswersInv, [Next]_vars PROVE AnswersInv'
  OBVIOUS
<1>1. ASSUME UNCHANGED <<work, attempts, doubtful>>,
             \/ known' = Answered
             \/ shown' \notin Step
             \/ known' = known /\ (shown' = shown \/ shown \in Step)
      PROVE  AnswersInv'
  <2>1. OnePress
    BY DEF AnswersInv
  <2> QED
    BY <1>1, <2>1, AnswersKept DEF OnePress
<1>2. CASE Load \/ Move
  BY <1>1, <1>2 DEF Load, Move
<1>3. CASE GoTo
  <2>1. shown' \notin Step
    BY <1>3 DEF GoTo, Loading, Step
  <2> QED
    BY <1>1, <1>3, <2>1 DEF GoTo
<1>4. CASE SoakEnds
  BY <1>1, <1>4 DEF SoakEnds
<1>5. ASSUME NEW p \in Photo, Attach(p) PROVE AnswersInv'
  BY <1>1, <1>5 DEF Attach
<1>6. ASSUME NEW x \in work, MoveOn(x) PROVE AnswersInv'
  <2>1. /\ work' = work \ {x} /\ known' = Answered
        /\ attempts' = attempts /\ doubtful' = doubtful /\ OnePress
    BY <1>6 DEF MoveOn, AnswersInv
  <2> QED
    BY <2>1, AnswersKept DEF OnePress
<1>7. ASSUME NEW i \in 1..Len(acts), Deliver(i) \/ LoseActivation(i)
      PROVE  AnswersInv'
  BY <1>1, <1>7 DEF Deliver, LoseActivation
<1>8. CASE UNCHANGED vars
  BY <1>1, <1>8 DEF vars
<1> QED
  BY <1>2, <1>3, <1>4, <1>5, <1>6, <1>7, <1>8, TakenDown, PressKnew, RecordKnew,
     ServerKnew, AwayKnew, FailsKnew DEF Next, Chain

\* FR-24, a second answer of a step is a retest the engineer knows of: whatever
\* pages, moves and activations overlap, the page showed the earlier result when
\* the later answer was pressed, but for the steps of a press whose call failed
\* or whose page was left or reloaded before it was over (busy, and the load
\* before the next step, in GuidedTest.tsx).
THEOREM NoBlindRetestAlways == Spec => []NoBlindRetest
<1>1. Init => AnswersInv
  BY DEF Init, AnswersInv, OnePress, NoBlindRetest, Loading, Step
<1>2. AnswersInv => NoBlindRetest
  BY DEF AnswersInv
<1> QED
  BY <1>1, <1>2, AnswersStep, PageInvariant, PTL DEF Spec

-----------------------------------------------------------------------------
(* Evidence is what was attached.                                          *)

\* The rows of an attempt the page moved on from are complete.
FinishedWhole ==
    \A k \in finished : \A i \in 1..Len(attempts[k].photos) :
        <<k, attempts[k].photos[i]>> \in rows

\* A row has both files, or the second copy of its picture failed.
RowsWhole ==
    \A e \in rows :
        \/ e \in originals /\ e \in derivatives
        \/ e \in failed /\ Twice(attempts[e[1]].photos, e[2])

\* The two parts of the property.
LEMMA WholeParts == EvidenceIsWhole <=> FinishedWhole /\ RowsWhole
BY DEF EvidenceIsWhole, FinishedWhole, RowsWhole

\* The attempts there are stay as they are, whoever adds one.
LEMMA AttemptsStay ==
    ASSUME PageInv, [Next]_vars
    PROVE  \A k \in 1..Len(attempts) : attempts'[k] = attempts[k]
<1>1. CASE attempts' = attempts
  BY <1>1
<1>2. ASSUME NEW x \in work, RecordAttempt(x)
      PROVE  \A k \in 1..Len(attempts) : attempts'[k] = attempts[k]
  <2>1. attempts \in Seq(AttemptType) /\ x \in PressType
    BY TypeParts DEF PageInv, EvidenceOK, WorkOK
  <2>2. PICK a : a = [step |-> x.step, photos |-> x.all,
                      blind |-> x.step \in Answered /\ ~x.knew]
    OBVIOUS
  <2>3. a \in AttemptType
    BY <2>1, <2>2 DEF AttemptType, PressType
  <2>4. attempts' = Append(attempts, a)
    BY <1>2, <2>2 DEF RecordAttempt
  <2> QED
    BY <2>1, <2>3, <2>4, AppendProperties
<1>3. (\A x \in work : ~RecordAttempt(x)) => attempts' = attempts
  BY DEF Next, Chain, vars, Load, Move, GoTo, Leave, Press, SoakEnds, Kill, Reload,
         Attach, WriteOriginal, WriteDerivative, InsertRow, MoveOn, MoveAway,
         CallFails, DerivativeFails, Deliver, LoseActivation
<1> QED
  BY <1>1, <1>2, <1>3

\* Who takes neither rows nor files away leaves the evidence whole.
LEMMA EvidenceGrows ==
    ASSUME PageInv, EvidenceIsWhole, [Next]_vars, finished' = finished,
           rows \subseteq rows', originals \subseteq originals',
           derivatives \subseteq derivatives', failed \subseteq failed',
           \A e \in rows' \ rows : e \in originals' /\ e \in derivatives'
    PROVE  EvidenceIsWhole'
<1>1. FinishedWhole /\ RowsWhole /\ EvidenceOK
  BY WholeParts, TypeParts DEF PageInv
<1>2. FinishedWhole'
  BY <1>1, AttemptsStay DEF FinishedWhole, EvidenceOK
<1>3. RowsWhole'
  <2> SUFFICES ASSUME NEW e \in rows
               PROVE  \/ e \in originals' /\ e \in derivatives'
                      \/ e \in failed' /\ Twice(attempts'[e[1]].photos, e[2])
    BY DEF RowsWhole
  <2>1. e[1] \in 1..Len(attempts)
    BY <1>1 DEF EvidenceOK
  <2> QED
    BY <1>1, <2>1, AttemptsStay DEF RowsWhole
<1> QED
  BY <1>2, <1>3, WholeParts, PTL

\* A press that is over has the rows of all its photos.
LEMMA MoveOnWhole ==
    ASSUME PageInv, EvidenceIsWhole, NEW x \in work, MoveOn(x) \/ MoveAway(x)
    PROVE  EvidenceIsWhole'
<1>1. FinishedWhole /\ RowsWhole /\ x \in PressType /\ Pressed(x)
  BY WholeParts, TypeParts DEF PageInv, WorkOK, ChainInv
<1>2. /\ x.stage = "load" /\ finished' = finished \cup {x.attempt}
      /\ UNCHANGED <<attempts, originals, derivatives, rows, failed>>
  BY DEF MoveOn, MoveAway, evidence
<1>3. x.left = <<>> /\ attempts[x.attempt].photos = x.all
  BY <1>1, <1>2 DEF Pressed, Recorded
<1>4. Len(x.all) \in Nat /\ Done(x) = Len(x.all)
  BY <1>1, <1>3, LenProperties, EmptySeq DEF Done, PressType
<1>5. \A i \in 1..Len(x.all) : <<x.attempt, x.all[i]>> \in rows
  BY <1>1, <1>2, <1>4 DEF Pressed, Recorded
<1>6. FinishedWhole'
  BY <1>1, <1>2, <1>3, <1>5 DEF FinishedWhole
<1>7. RowsWhole'
  BY <1>1, <1>2 DEF RowsWhole
<1> QED
  BY <1>6, <1>7, WholeParts, PTL

\* The original that goes with a failed derivative may be that of a row: then
\* the picture was attached before.
LEMMA FailedDerivativeWhole ==
    ASSUME PageInv, EvidenceIsWhole, NEW x \in work, DerivativeFails(x)
    PROVE  EvidenceIsWhole'
<1>1. FinishedWhole /\ RowsWhole /\ x \in PressType /\ Pressed(x)
  BY WholeParts, TypeParts DEF PageInv, WorkOK, ChainInv
<1>2. /\ x.stage = "derivative" /\ originals' = originals \ {File(x)}
      /\ failed' = failed \cup {File(x)}
      /\ UNCHANGED <<attempts, derivatives, rows, finished>>
  BY DEF DerivativeFails
<1>3. Recorded(x) /\ x.left # <<>> /\ attempts[x.attempt].photos = x.all
  BY <1>1, <1>2 DEF Pressed, Recorded
<1>4. /\ Done(x) \in Nat /\ Done(x) + 1 \in 1..Len(x.all) /\ Len(x.all) \in Nat
      /\ File(x) = <<x.attempt, x.all[Done(x) + 1]>>
  BY <1>3, NextFile
<1>5. FinishedWhole'
  BY <1>1, <1>2 DEF FinishedWhole
<1>6. RowsWhole'
  <2> SUFFICES ASSUME NEW e \in rows
               PROVE  \/ e \in originals' /\ e \in derivatives'
                      \/ e \in failed' /\ Twice(attempts[e[1]].photos, e[2])
    BY <1>2 DEF RowsWhole
  <2>1. CASE e # File(x)
    BY <1>1, <1>2, <2>1 DEF RowsWhole
  <2>2. CASE e = File(x)
    <3>1. e[1] = x.attempt /\ e[2] = x.all[Done(x) + 1]
      BY <1>4, <2>2
    <3>2. PICK i \in 1..Done(x) : x.all[i] = e[2]
      BY <1>1, <1>3, <3>1 DEF Pressed
    <3>3. i \in 1..Len(x.all) /\ i # Done(x) + 1
      BY <1>4, <3>2
    <3>4. Twice(x.all, e[2])
      BY <1>4, <3>1, <3>2, <3>3 DEF Twice
    <3> QED
      BY <1>2, <1>3, <2>2, <3>1, <3>4
  <2> QED
    BY <2>1, <2>2
<1> QED
  BY <1>5, <1>6, WholeParts, PTL

\* No step leaves a row without its files, or a press without its rows.
LEMMA WholeStep == PageInv /\ EvidenceIsWhole /\ [Next]_vars => EvidenceIsWhole'
<1> SUFFICES ASSUME PageInv, EvidenceIsWhole, [Next]_vars PROVE EvidenceIsWhole'
  OBVIOUS
<1>1. ASSUME UNCHANGED <<evidence, finished>>, failed \subseteq failed'
      PROVE  EvidenceIsWhole'
  BY <1>1, EvidenceGrows DEF evidence
<1>2. CASE Load \/ Move \/ GoTo \/ Leave \/ Press \/ SoakEnds \/ Kill \/ Reload
  BY <1>1, <1>2 DEF Load, Move, GoTo, Leave, Press, SoakEnds, Kill, Reload
<1>3. ASSUME NEW p \in Photo, Attach(p) PROVE EvidenceIsWhole'
  BY <1>1, <1>3 DEF Attach
<1>4. ASSUME NEW x \in work, RecordAttempt(x) \/ CallFails(x)
      PROVE  EvidenceIsWhole'
  BY <1>1, <1>4 DEF RecordAttempt, CallFails
<1>5. ASSUME NEW x \in work, WriteOriginal(x) \/ WriteDerivative(x)
      PROVE  EvidenceIsWhole'
  BY <1>5, EvidenceGrows DEF WriteOriginal, WriteDerivative
<1>6. ASSUME NEW x \in work, InsertRow(x) PROVE EvidenceIsWhole'
  <2>1. x.stage = "row" /\ Pressed(x)
    BY <1>6 DEF InsertRow, PageInv, ChainInv
  <2>2. File(x) \in originals /\ File(x) \in derivatives
    BY <2>1 DEF Pressed
  <2> QED
    BY <1>6, <2>2, EvidenceGrows DEF InsertRow
<1>7. ASSUME NEW i \in 1..Len(acts), Deliver(i) \/ LoseActivation(i)
      PROVE  EvidenceIsWhole'
  BY <1>1, <1>7 DEF Deliver, LoseActivation
<1>8. CASE UNCHANGED vars
  BY <1>1, <1>8 DEF vars
<1> QED
  BY <1>2, <1>3, <1>4, <1>5, <1>6, <1>7, <1>8, MoveOnWhole, FailedDerivativeWhole
     DEF Next, Chain

\* Evidence is what was attached: for any number of photos, presses, kills and
\* failing writes, a press the page moved on from has the rows of all its
\* photos, and a row has both its files unless one picture was attached twice
\* and its second copy failed (upload_evidence, store_photo).
THEOREM EvidenceIsWholeAlways == Spec => []EvidenceIsWhole
<1>1. Init => EvidenceIsWhole
  BY DEF Init, EvidenceIsWhole
<1> QED
  BY <1>1, WholeStep, PageInvariant, PTL DEF Spec

=============================================================================
