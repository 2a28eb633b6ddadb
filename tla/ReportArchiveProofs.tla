------------------------- MODULE ReportArchiveProofs -------------------------
(***************************************************************************)
(* Revisions, report files and the code on the report screen, for any      *)
(* number of sessions, report requests, days, changes of status and kills. *)
(***************************************************************************)
EXTENDS ReportArchive, FiniteSetTheorems, SequenceTheorems, TLAPS

\* Job j has its row, and the rows of a session.
Filed(j) == pc[j] \in {"inserted", "done"}
Rows(s) == Cardinality(RowsOf(s))

\* The rows of the table are those of the jobs that got theirs in.
FiledInv ==
    /\ \A i \in DOMAIN rows : Filed(rows[i])
    /\ \A j \in Job : Filed(j) => \E i \in DOMAIN rows : rows[i] = j

\* The revisions of a session have no gap, and a job that has its number is at
\* most one ahead of them.
Numbered(j) == pc[j] \in {"write", "render", "insert"}
CountInv ==
    /\ \A s \in Session : Revisions(s) = 1..Rows(s)
    /\ \A j \in Job : Numbered(j) => rev[j] \in 1..(Rows(sess[j]) + 1)

\* The one who wrote a file that job j wrote, too, is j itself, or is still at
\* work or failed, or has a row, and then its revision is not lower.
Writer(w, j, unfiled) ==
    /\ w \in Job /\ sess[w] = sess[j] /\ day[w] = day[j]
    /\ \/ w = j
       \/ pc[w] \in unfiled
       \/ Filed(w) /\ rev[w] >= rev[j]

Written == {"render", "insert", "inserted", "done"}
Rendered == {"insert", "inserted", "done"}
JsonInv ==
    \A j \in Job : pc[j] \in Written =>
        Writer(json[sess[j]][day[j]], j, {"render", "insert", "failed"})
PdfInv ==
    \A j \in Job : pc[j] \in Rendered =>
        Writer(pdf[sess[j]][day[j]], j, {"insert", "failed"})
DayInv == today \in Day /\ day \in [Job -> Day]

\* A screen that came up for one report shows no image asked for earlier.
ScreenInv ==
    kiosk.calm /\ kiosk.pattern = "report" =>
        /\ kiosk.row <= Len(rows)
        /\ kiosk.qr # 0 => kiosk.qr >= kiosk.row
        /\ \A j \in Job : load[j] > Asked => load[j] >= kiosk.row

TableInv == TypeOK /\ FiledInv /\ CountInv
FilesInv == DayInv /\ JsonInv /\ PdfInv

-----------------------------------------------------------------------------
(* The table.                                                              *)

\* The highest of the revisions 1..n.
LEMMA HighestRevision ==
    ASSUME NEW n \in Nat
    PROVE  Max((1..n) \cup {0}) = n
PROOF
<1>1. n \in (1..n) \cup {0} /\ \A y \in (1..n) \cup {0} : n >= y
  OBVIOUS
<1>2. \A x \in (1..n) \cup {0} : (\A y \in (1..n) \cup {0} : x >= y) => x = n
  <2> SUFFICES ASSUME NEW x \in (1..n) \cup {0}, \A y \in (1..n) \cup {0} : x >= y
               PROVE  x = n
    OBVIOUS
  <2>1. x >= n /\ x <= n /\ x \in Nat
    BY <1>1
  <2> QED
    BY <2>1
<1> QED
  BY <1>1, <1>2 DEF Max

\* The rows of a session are finitely many.
LEMMA RowsFinite ==
    ASSUME TypeOK, NEW s
    PROVE  /\ IsFiniteSet(RowsOf(s)) /\ Rows(s) \in Nat
           /\ RowsOf(s) \subseteq 1..Len(rows) /\ Len(rows) \in Nat
           /\ DOMAIN rows = 1..Len(rows)
PROOF
<1>1. rows \in Seq(Job)
  BY DEF TypeOK
<1>2. DOMAIN rows = 1..Len(rows) /\ Len(rows) \in Nat
  BY <1>1, LenProperties
<1>3. IsFiniteSet(1..Len(rows))
  BY <1>2, FS_Interval
<1>4. RowsOf(s) \subseteq 1..Len(rows)
  BY <1>2 DEF RowsOf
<1> QED
  BY <1>2, <1>3, <1>4, FS_Subset, FS_CardinalityType DEF Rows

\* Every row is that of a job that got it.
LEMMA RowJobs ==
    ASSUME TypeOK, FiledInv
    PROVE  \A i \in DOMAIN rows : rows[i] \in Job /\ Filed(rows[i])
PROOF
  BY ElementOfSeq, LenProperties DEF TypeOK, FiledInv

\* A step that inserts nothing and leaves the jobs with rows alone changes no
\* revision of any session.
LEMMA SameRows ==
    ASSUME TypeOK, FiledInv, rows' = rows,
           \A j \in Job : Filed(j) => sess'[j] = sess[j] /\ rev'[j] = rev[j],
           NEW s
    PROVE  RowsOf(s)' = RowsOf(s) /\ Revisions(s)' = Revisions(s)
           /\ Rows(s)' = Rows(s)
PROOF
<1>1. \A i \in DOMAIN rows : rows[i] \in Job /\ Filed(rows[i])
  BY RowJobs
<1>2. RowsOf(s)' = RowsOf(s)
  BY <1>1 DEF RowsOf
<1>3. Revisions(s)' = Revisions(s)
  BY <1>1, <1>2 DEF Revisions, RowsOf
<1> QED
  BY <1>2, <1>3 DEF Rows

\* The empty table satisfies the invariant of the table.
LEMMA TableInit == Init => TableInv
PROOF
<1> SUFFICES ASSUME Init PROVE TableInv
  OBVIOUS
<1>1. rows = <<>> /\ rows \in Seq(Job) /\ DOMAIN rows = {}
  BY EmptySeq DEF Init
<1>2. \A s : RowsOf(s) = {} /\ Revisions(s) = {}
  BY <1>1 DEF RowsOf, Revisions
<1>3. Cardinality({}) = 0
  BY FS_EmptySet
<1>4. (CHOOSE s \in Session : TRUE) \in Session
  BY ArchiveBounds
<1>5. TypeOK
  BY <1>1, <1>4, ArchiveBounds DEF Init, TypeOK, NoFile, Idle
<1>6. \A s : Revisions(s) = 1..Rows(s)
  BY <1>2, <1>3 DEF Rows
<1> QED
  BY <1>1, <1>5, <1>6 DEF Init, TableInv, FiledInv, CountInv, Filed, Numbered

\* A new request has no row yet.
LEMMA RequestTable ==
    ASSUME TableInv, NEW j \in Job, Request(j)
    PROVE  TableInv'
PROOF
<1>1. TypeOK /\ FiledInv /\ CountInv
  BY DEF TableInv
<1>2. /\ pc[j] = "unused" /\ pc' = [pc EXCEPT ![j] = "build"]
      /\ UNCHANGED <<world, rev, day, archive, screen>>
  BY DEF Request, Goto
<1>3. PICK s \in Session : sess' = [sess EXCEPT ![j] = s]
  BY DEF Request
<1>4. /\ \A i \in Job \ {j} : sess'[i] = sess[i] /\ pc'[i] = pc[i]
      /\ pc'[j] = "build"
  BY <1>1, <1>2, <1>3 DEF TypeOK
<1>5. \A i \in DOMAIN rows : rows[i] \in Job \ {j}
  BY <1>1, <1>2, RowJobs DEF Filed
<1>6. TypeOK'
  BY <1>1, <1>2, <1>3, <1>4, <1>5 DEF TypeOK, world, archive, screen
<1>7. FiledInv'
  BY <1>1, <1>2, <1>4, <1>5 DEF FiledInv, Filed, archive
<1>8. \A t : Revisions(t)' = Revisions(t) /\ Rows(t)' = Rows(t)
  BY <1>1, <1>2, <1>4, SameRows DEF Filed, archive
<1>9. CountInv'
  BY <1>1, <1>2, <1>4, <1>8 DEF CountInv, Numbered
<1> QED
  BY <1>6, <1>7, <1>9 DEF TableInv

\* A job that takes its number takes the next one.
LEMMA NumberTable ==
    ASSUME TableInv, NEW j \in Job, Number(j)
    PROVE  /\ TableInv'
           /\ rev'[j] = Rows(sess[j]) + 1
PROOF
<1>1. TypeOK /\ FiledInv /\ CountInv
  BY DEF TableInv
<1>2. /\ pc[j] = "number" /\ pc' = [pc EXCEPT ![j] = "write"]
      /\ rev' = [rev EXCEPT ![j] = Max(Revisions(sess[j]) \cup {0}) + 1]
      /\ day' = [day EXCEPT ![j] = today]
      /\ UNCHANGED <<world, sess, archive, screen>>
  BY DEF Number, Goto
<1>3. sess[j] \in Session /\ Rows(sess[j]) \in Nat
  BY <1>1, RowsFinite DEF TypeOK
<1>4. Max(Revisions(sess[j]) \cup {0}) = Rows(sess[j])
  BY <1>1, <1>3, HighestRevision DEF CountInv
<1>5. /\ \A i \in Job \ {j} : rev'[i] = rev[i] /\ pc'[i] = pc[i]
      /\ pc'[j] = "write" /\ rev'[j] = Rows(sess[j]) + 1
  BY <1>1, <1>2, <1>4 DEF TypeOK
<1>6. \A i \in DOMAIN rows : rows[i] \in Job \ {j}
  BY <1>1, <1>2, RowJobs DEF Filed
<1>7. TypeOK'
  BY <1>1, <1>2, <1>3, <1>4, <1>5, <1>6 DEF TypeOK, world, archive, screen
<1>8. FiledInv'
  BY <1>1, <1>2, <1>5, <1>6 DEF FiledInv, Filed, archive
<1>9. \A t : Revisions(t)' = Revisions(t) /\ Rows(t)' = Rows(t)
  BY <1>1, <1>2, <1>5, SameRows DEF Filed, archive
<1>10. CountInv'
  BY <1>1, <1>2, <1>3, <1>5, <1>9 DEF CountInv, Numbered
<1> QED
  BY <1>5, <1>7, <1>8, <1>10 DEF TableInv

\* The row that is inserted is the next revision of its session.
LEMMA InsertTable ==
    ASSUME TableInv, NEW j \in Job, Insert(j)
    PROVE  TableInv'
PROOF
<1>1. TypeOK /\ FiledInv /\ CountInv
  BY DEF TableInv
<1>2. pc[j] = "insert" /\ UNCHANGED <<world, jobs, json, pdf, screen>>
  BY DEF Insert
<1>3. CASE rev[j] \in Revisions(sess[j])
  <2>1. pc' = [pc EXCEPT ![j] = "failed"] /\ rows' = rows
    BY <1>3 DEF Insert, Goto
  <2>2. /\ \A i \in Job \ {j} : pc'[i] = pc[i]
        /\ pc'[j] = "failed"
    BY <1>1, <2>1 DEF TypeOK
  <2>3. \A i \in DOMAIN rows : rows[i] \in Job \ {j}
    BY <1>1, <1>2, RowJobs DEF Filed
  <2>4. TypeOK'
    BY <1>1, <1>2, <2>1 DEF TypeOK, world, jobs, screen
  <2>5. FiledInv'
    BY <1>1, <1>2, <2>1, <2>2, <2>3 DEF FiledInv, Filed
  <2>6. \A t : Revisions(t)' = Revisions(t) /\ Rows(t)' = Rows(t)
    BY <1>1, <1>2, <2>1, SameRows DEF jobs
  <2>7. CountInv'
    BY <1>1, <1>2, <2>2, <2>6 DEF CountInv, Numbered, jobs
  <2> QED
    BY <2>4, <2>5, <2>7 DEF TableInv
<1>4. CASE rev[j] \notin Revisions(sess[j])
  <2> DEFINE n == Len(rows)
  <2>1. pc' = [pc EXCEPT ![j] = "inserted"] /\ rows' = Append(rows, j)
    BY <1>4 DEF Insert, Goto
  <2>2. /\ rows' \in Seq(Job) /\ Len(rows') = n + 1 /\ n \in Nat
        /\ DOMAIN rows = 1..n /\ DOMAIN rows' = 1..(n + 1)
        /\ \A i \in 1..n : rows'[i] = rows[i] /\ rows[i] \in Job
        /\ rows'[n + 1] = j
    BY <1>1, <2>1, AppendProperties, LenProperties, ElementOfSeq DEF TypeOK
  <2> HIDE DEF n
  <2>3. /\ \A i \in Job \ {j} : pc'[i] = pc[i]
        /\ pc'[j] = "inserted"
    BY <1>1, <2>1 DEF TypeOK
  <2>4. sess' = sess /\ rev' = rev /\ day' = day
    BY <1>2 DEF jobs
  <2>5. \A t : t # sess[j] => RowsOf(t)' = RowsOf(t)
    BY <2>2, <2>4 DEF RowsOf
  <2>6. RowsOf(sess[j])' = RowsOf(sess[j]) \cup {n + 1}
    BY <2>2, <2>4 DEF RowsOf
  <2>a. \A t : RowsOf(t) \subseteq 1..n
    BY <2>2 DEF RowsOf
  <2>b. n + 1 \notin 1..n
    BY <2>2
  <2>7. n + 1 \notin RowsOf(sess[j]) /\ IsFiniteSet(RowsOf(sess[j]))
        /\ Rows(sess[j]) \in Nat
    BY <1>1, <2>a, <2>b, RowsFinite
  <2>8. Rows(sess[j])' = Rows(sess[j]) + 1
    BY <2>4, <2>6, <2>7, FS_AddElement DEF Rows
  <2>9. \A t : t # sess[j] => Rows(t)' = Rows(t) /\ Revisions(t)' = Revisions(t)
    <3> SUFFICES ASSUME NEW t, t # sess[j]
                 PROVE  Rows(t)' = Rows(t) /\ Revisions(t)' = Revisions(t)
      OBVIOUS
    <3>1. RowsOf(t)' = RowsOf(t)
      BY <2>5
    <3>2. \A i \in RowsOf(t) : rev'[rows'[i]] = rev[rows[i]]
      BY <2>2, <2>4, <2>a
    <3>3. Revisions(t)' = Revisions(t)
      BY <3>1, <3>2 DEF Revisions
    <3> QED
      BY <3>1, <3>3 DEF Rows
  <2>10. sess[j] \in Session /\ Revisions(sess[j]) = 1..Rows(sess[j])
    BY <1>1 DEF CountInv, TypeOK
  <2>11. rev[j] = Rows(sess[j]) + 1
    BY <1>1, <1>2, <1>4, <2>7, <2>10 DEF CountInv, Numbered
  <2>12. Revisions(sess[j])' = Revisions(sess[j]) \cup {rev[j]}
    BY <2>2, <2>4, <2>6 DEF Revisions, RowsOf
  <2>13. Revisions(sess[j])' = 1..(Rows(sess[j]) + 1)
    BY <2>7, <2>10, <2>11, <2>12
  <2>14. CountInv'
    <3>1. ASSUME NEW s \in Session PROVE Revisions(s)' = 1..Rows(s)'
      BY <1>1, <2>4, <2>8, <2>9, <2>13 DEF CountInv
    <3>2. ASSUME NEW i \in Job, Numbered(i)'
          PROVE  rev'[i] \in 1..(Rows(sess[i])' + 1)
      <4>1. i # j /\ Numbered(i) /\ rev[i] \in 1..(Rows(sess[i]) + 1)
        BY <1>1, <2>3, <3>2 DEF Numbered, CountInv
      <4>2. Rows(sess[i])' \in {Rows(sess[i]), Rows(sess[i]) + 1}
        BY <2>4, <2>8, <2>9
      <4>3. Rows(sess[i]) \in Nat
        BY <1>1, RowsFinite
      <4> QED
        BY <2>4, <4>1, <4>2, <4>3
    <3> QED
      BY <2>4, <3>1, <3>2 DEF CountInv
  <2>15. FiledInv'
    BY <1>1, <1>2, <2>2, <2>3 DEF FiledInv, Filed
  <2>16. \A i \in 1..n : sess[rows[i]] = sess[j] => rev[rows[i]] # rev[j]
    BY <1>4, <2>2 DEF Revisions, RowsOf
  <2>17. \A i, k \in DOMAIN rows' :
            sess'[rows'[i]] = sess'[rows'[k]] /\ rev'[rows'[i]] = rev'[rows'[k]]
               => i = k
    <3> SUFFICES ASSUME NEW i \in 1..(n + 1), NEW k \in 1..(n + 1),
                        sess[rows'[i]] = sess[rows'[k]],
                        rev[rows'[i]] = rev[rows'[k]]
                 PROVE  i = k
      BY <2>2, <2>4
    <3>1. CASE i \in 1..n /\ k \in 1..n
      BY <1>1, <2>2, <3>1 DEF TypeOK
    <3>2. CASE i = n + 1 /\ k \in 1..n
      BY <2>2, <2>16, <3>2
    <3>3. CASE i \in 1..n /\ k = n + 1
      BY <2>2, <2>16, <3>3
    <3>4. CASE i = n + 1 /\ k = n + 1
      BY <3>4
    <3> QED
      BY <2>2, <3>1, <3>2, <3>3, <3>4
  <2>18. TypeOK'
    BY <1>1, <1>2, <2>1, <2>2, <2>17 DEF TypeOK, world, jobs, screen
  <2> QED
    BY <2>14, <2>15, <2>18 DEF TableInv
<1> QED
  BY <1>3, <1>4

\* A step that takes no number and inserts nothing keeps the table.
LEMMA QuietTable ==
    ASSUME TableInv, TypeOK', rows' = rows, jobs' = jobs,
           \A j \in Job : Filed(j)' <=> Filed(j),
           \A j \in Job : Numbered(j)' => Numbered(j)
    PROVE  TableInv'
PROOF
<1>1. TypeOK /\ FiledInv /\ CountInv
  BY DEF TableInv
<1>2. \A t : Revisions(t)' = Revisions(t) /\ Rows(t)' = Rows(t)
  BY <1>1, SameRows DEF jobs
<1>3. FiledInv'
  BY <1>1, RowJobs DEF FiledInv
<1>4. CountInv'
  BY <1>1, <1>2 DEF CountInv, jobs
<1> QED
  BY <1>3, <1>4 DEF TableInv

\* Writing a file, an image on its way, a change of status, midnight: none of
\* them is about the table.
LEMMA OtherTable ==
    ASSUME TypeOK,
           \/ \E j \in Job : \/ Build(j) \/ WriteJson(j) \/ Render(j)
                             \/ RenderFails(j) \/ ShowReport(j)
                             \/ ServeQr(j) \/ QrLoaded(j)
           \/ ShowTest \/ Midnight \/ Kill
           \/ \E s \in Session : ChangeStatus(s)
           \/ UNCHANGED vars
    PROVE  /\ TypeOK' /\ rows' = rows /\ jobs' = jobs
           /\ \A j \in Job : Filed(j)' <=> Filed(j)
           /\ \A j \in Job : Numbered(j)' => Numbered(j)
PROOF
<1> DEFINE Goal == /\ TypeOK' /\ rows' = rows /\ jobs' = jobs
                   /\ \A j \in Job : Filed(j)' <=> Filed(j)
                   /\ \A j \in Job : Numbered(j)' => Numbered(j)
<1>1. ASSUME NEW j \in Job, Build(j) PROVE Goal
  BY <1>1 DEF Build, Goto, TypeOK, world, archive, jobs, screen, Filed, Numbered
<1>2. ASSUME NEW j \in Job, WriteJson(j) PROVE Goal
  <2>1. json' \in [Session -> [Day -> Job \cup {NoFile}]]
    BY <1>2 DEF WriteJson, TypeOK
  <2> QED
    BY <1>2, <2>1 DEF WriteJson, Goto, TypeOK, world, jobs, screen, Filed,
                      Numbered
<1>3. ASSUME NEW j \in Job, Render(j) \/ RenderFails(j) PROVE Goal
  <2>1. pdf' \in [Session -> [Day -> Job \cup {NoFile}]]
    <3>1. [pdf EXCEPT ![sess[j]][day[j]] = j]
             \in [Session -> [Day -> Job \cup {NoFile}]]
      BY DEF TypeOK
    <3>2. pdf' = pdf \/ pdf' = [pdf EXCEPT ![sess[j]][day[j]] = j]
      BY <1>3 DEF Render, RenderFails
    <3> QED
      BY <3>1, <3>2 DEF TypeOK
  <2>2. pc' \in {[pc EXCEPT ![j] = "insert"], [pc EXCEPT ![j] = "failed"]}
    BY <1>3 DEF Render, RenderFails, Goto
  <2>3. pc[j] = "render" /\ UNCHANGED <<world, jobs, rows, json, screen>>
    BY <1>3 DEF Render, RenderFails
  <2> QED
    BY <2>1, <2>2, <2>3 DEF TypeOK, world, jobs, screen, Filed, Numbered
<1>4. TypeOK => Len(rows) \in Nat
  BY LenProperties DEF TypeOK
<1>5. ASSUME NEW p \in {"test", "report"}, NEW j \in Job \cup {1}, Frame(p, j)
      PROVE  /\ load' \in [Job -> Nat \cup {Idle}]
             /\ kiosk' \in [pattern : {"test", "report"}, row : Nat, qr : Nat,
                            calm : BOOLEAN]
  BY <1>4, <1>5 DEF Frame, Named, Calm, TypeOK, Idle, Asked
<1>6. ASSUME NEW j \in Job, ShowReport(j) PROVE Goal
  <2>1. Frame("report", j) /\ pattern' = "report"
    BY <1>6 DEF ShowReport
  <2>2. pc[j] = "inserted" /\ pc' = [pc EXCEPT ![j] = "done"]
        /\ UNCHANGED <<world, jobs, archive>>
    BY <1>6 DEF ShowReport, Goto
  <2> QED
    BY <1>5, <2>1, <2>2 DEF TypeOK, world, jobs, archive, Filed, Numbered
<1>7. ASSUME ShowTest PROVE Goal
  BY <1>5, <1>7 DEF ShowTest, TypeOK, world, jobs, archive, Filed, Numbered
<1>8. ASSUME NEW j \in Job, ServeQr(j) \/ QrLoaded(j) PROVE Goal
  <2>1. /\ load' \in [Job -> Nat \cup {Idle}]
        /\ kiosk' \in [pattern : {"test", "report"}, row : Nat, qr : Nat,
                       calm : BOOLEAN]
    <3>1. CASE ServeQr(j)
      BY <1>4, <3>1 DEF ServeQr, TypeOK
    <3>2. CASE QrLoaded(j)
      <4>1. load[j] \in Nat
        BY <3>2 DEF QrLoaded, TypeOK, Idle, Asked
      <4> QED
        BY <3>2, <4>1 DEF QrLoaded, TypeOK
    <3> QED
      BY <1>8, <3>1, <3>2
  <2>2. UNCHANGED <<world, pc, jobs, archive, pattern>>
    BY <1>8 DEF ServeQr, QrLoaded
  <2> QED
    BY <2>1, <2>2 DEF TypeOK, world, jobs, archive, Filed, Numbered
<1>9. ASSUME Kill PROVE Goal
  <2>1. /\ Frame("test", 1) /\ pattern' = "test" /\ kills < MaxKills
        /\ kills' = kills + 1
        /\ UNCHANGED <<completed, reopens, today, jobs, archive>>
    BY <1>9 DEF Kill
  <2>2. pc' \in [Job -> {"unused", "build", "number", "write", "render",
                         "insert", "inserted", "done", "refused", "failed"}]
    BY <1>9 DEF Kill, TypeOK
  <2>3. /\ \A j \in Job : Filed(j)' <=> Filed(j)
        /\ \A j \in Job : Numbered(j)' => Numbered(j)
    BY <1>9 DEF Kill, TypeOK, Filed, Numbered
  <2>4. kills' \in 0..MaxKills
    BY <2>1, ArchiveBounds DEF TypeOK
  <2> QED
    BY <1>5, <2>1, <2>2, <2>3, <2>4 DEF TypeOK, jobs, archive
<1>10. ASSUME Midnight PROVE Goal
  BY <1>10 DEF Midnight, TypeOK, jobs, archive, screen, Filed, Numbered
<1>11. ASSUME NEW s \in Session, ChangeStatus(s) PROVE Goal
  <2>1. reopens' \in 0..MaxReopens
    BY <1>11, ArchiveBounds DEF ChangeStatus, TypeOK
  <2> QED
    BY <1>11, <2>1 DEF ChangeStatus, TypeOK, jobs, archive, screen, Filed,
                       Numbered
<1>12. ASSUME UNCHANGED vars PROVE Goal
  BY <1>12 DEF vars, TypeOK, world, jobs, archive, screen, Filed, Numbered
<1> QED
  BY <1>1, <1>2, <1>3, <1>6, <1>7, <1>8, <1>9, <1>10, <1>11, <1>12

\* Whatever is done, types, table and revisions stay as they must.
LEMMA TableStep == TableInv /\ [Next]_vars => TableInv'
PROOF
<1> SUFFICES ASSUME TableInv, [Next]_vars PROVE TableInv'
  OBVIOUS
<1>1. CASE \E j \in Job : Request(j)
  BY <1>1, RequestTable
<1>2. CASE \E j \in Job : Number(j)
  BY <1>2, NumberTable
<1>3. CASE \E j \in Job : Insert(j)
  BY <1>3, InsertTable
<1>4. CASE \/ \E j \in Job : \/ Build(j) \/ WriteJson(j) \/ Render(j)
                             \/ RenderFails(j) \/ ShowReport(j)
                             \/ ServeQr(j) \/ QrLoaded(j)
           \/ ShowTest \/ Midnight \/ Kill
           \/ \E s \in Session : ChangeStatus(s)
           \/ UNCHANGED vars
  BY <1>4, OtherTable, QuietTable DEF TableInv
<1> QED
  BY <1>1, <1>2, <1>3, <1>4 DEF Next, Generate

\* The invariant of the table holds in every reachable state.
LEMMA TableInvariant == Spec => []TableInv
PROOF
  BY TableInit, TableStep, PTL DEF Spec

\* Whatever requests, failures, kills and frames do, every variable keeps its
\* type and the report table its keys (reports.py generate_report).
THEOREM TypesOfReports == Spec => []TypeOK
PROOF
<1>1. TableInv => TypeOK
  BY DEF TableInv
<1> QED
  BY <1>1, TableInvariant, PTL

-----------------------------------------------------------------------------
(* Revisions in the order of the rows.                                     *)

\* A row that is there keeps its place among the revisions, and the one that
\* is appended is the highest.
LEMMA OrderStep ==
    TableInv /\ RevisionsContiguous /\ [Next]_vars => RevisionsContiguous'
PROOF
<1> SUFFICES ASSUME TableInv, RevisionsContiguous, [Next]_vars
             PROVE  RevisionsContiguous'
  OBVIOUS
<1>1. TypeOK /\ FiledInv /\ CountInv
  BY DEF TableInv
<1>2. ASSUME rows' = rows,
             \A j \in Job : Filed(j) => sess'[j] = sess[j] /\ rev'[j] = rev[j]
      PROVE  RevisionsContiguous'
  <2>1. \A s : RowsOf(s)' = RowsOf(s)
    BY <1>1, <1>2, SameRows
  <2>2. \A i \in DOMAIN rows : /\ sess'[rows'[i]] = sess[rows[i]]
                               /\ rev'[rows'[i]] = rev[rows[i]]
    BY <1>1, <1>2, RowJobs
  <2> QED
    BY <1>2, <2>1, <2>2 DEF RevisionsContiguous
<1>3. ASSUME NEW j \in Job, Request(j) \/ Number(j) PROVE RevisionsContiguous'
  <2>1. rows' = rows /\ ~Filed(j)
    BY <1>3 DEF Request, Number, archive, Filed
  <2>2. \A i \in Job \ {j} : sess'[i] = sess[i] /\ rev'[i] = rev[i]
    BY <1>1, <1>3 DEF Request, Number, TypeOK
  <2> QED
    BY <1>2, <2>1, <2>2
<1>4. ASSUME NEW j \in Job, Insert(j) PROVE RevisionsContiguous'
  <2>1. sess' = sess /\ rev' = rev /\ pc[j] = "insert"
    BY <1>4 DEF Insert, jobs
  <2>2. CASE rev[j] \in Revisions(sess[j])
    BY <1>2, <1>4, <2>1, <2>2 DEF Insert
  <2>3. CASE rev[j] \notin Revisions(sess[j])
    <3>0. PICK n \in Nat : n = Len(rows)
      BY <1>1, LenProperties DEF TypeOK
    <3>1. rows' = Append(rows, j)
      BY <1>4, <2>3 DEF Insert
    <3>2. /\ rows' \in Seq(Job) /\ Len(rows') = n + 1 /\ n \in Nat
          /\ DOMAIN rows = 1..n /\ DOMAIN rows' = 1..(n + 1)
          /\ \A i \in 1..n : rows'[i] = rows[i] /\ rows[i] \in Job
          /\ rows'[n + 1] = j
      BY <1>1, <3>0, <3>1, AppendProperties, LenProperties, ElementOfSeq
         DEF TypeOK
    <3>3. \A s : RowsOf(s) \subseteq 1..n
      BY <3>2 DEF RowsOf
    <3>4. \A s : RowsOf(s)' \subseteq RowsOf(s) \cup {n + 1}
                 /\ RowsOf(s) \subseteq RowsOf(s)'
      BY <2>1, <3>2 DEF RowsOf
    <3>5. RowsOf(sess[j])' = RowsOf(sess[j]) \cup {n + 1}
      BY <2>1, <3>2 DEF RowsOf
    <3>6. sess[j] \in Session /\ Rows(sess[j]) \in Nat
      BY <1>1, RowsFinite DEF TypeOK
    <3>7. rev[j] = Rows(sess[j]) + 1
      BY <1>1, <2>1, <2>3, <3>6 DEF CountInv, Numbered
    <3>8. Rows(sess[j])' = Rows(sess[j]) + 1
      <4>1. n + 1 \notin 1..n
        BY <3>2
      <4>2. n + 1 \notin RowsOf(sess[j]) /\ IsFiniteSet(RowsOf(sess[j]))
        BY <1>1, <3>3, <4>1, RowsFinite
      <4> QED
        BY <3>5, <4>2, FS_AddElement DEF Rows
    <3>9. ASSUME NEW i \in 1..n
          PROVE  (rev[rows[i]]
                   = Cardinality({k \in RowsOf(sess[rows[i]]) : k <= i}))'
      <4>1. PICK s : s = sess[rows[i]]
        OBVIOUS
      <4>2. sess'[rows'[i]] = s /\ rev'[rows'[i]] = rev[rows[i]]
        BY <2>1, <3>2, <4>1
      <4>3. rev[rows[i]] = Cardinality({k \in RowsOf(s) : k <= i})
        BY <3>2, <4>1 DEF RevisionsContiguous
      <4>4. {k \in RowsOf(s)' : k <= i} = {k \in RowsOf(s) : k <= i}
        <5>1. ~(n + 1 <= i)
          BY <3>2
        <5>2. RowsOf(s)' \subseteq RowsOf(s) \cup {n + 1}
              /\ RowsOf(s) \subseteq RowsOf(s)'
          BY <3>4
        <5> QED
          BY <5>1, <5>2
      <4>5. (RowsOf(sess[rows[i]]))' = RowsOf(s)'
        BY <4>2 DEF RowsOf
      <4> QED
        BY <4>2, <4>3, <4>4, <4>5
    <3>10. (rev[rows[n + 1]] = Cardinality({k \in RowsOf(sess[rows[n + 1]]) :
                                               k <= n + 1}))'
      <4>1. PICK s : s = sess[j]
        OBVIOUS
      <4>2. sess'[rows'[n + 1]] = s /\ rev'[rows'[n + 1]] = rev[j]
        BY <2>1, <3>2, <4>1
      <4>3. RowsOf(s)' = RowsOf(s) \cup {n + 1}
        BY <2>1, <3>5, <4>1 DEF RowsOf
      <4>4. {k \in RowsOf(s)' : k <= n + 1} = RowsOf(s)'
        BY <3>3, <4>3
      <4>5. (RowsOf(sess[rows[n + 1]]))' = RowsOf(s)'
        BY <4>2 DEF RowsOf
      <4>6. Rows(s)' = Rows(sess[j]) + 1
        BY <2>1, <3>8, <4>1 DEF Rows, RowsOf
      <4> QED
        BY <3>7, <4>2, <4>4, <4>5, <4>6 DEF Rows
    <3>11. \A i \in DOMAIN rows' : i \in 1..n \/ i = n + 1
      BY <3>2
    <3> QED
      BY <3>9, <3>10, <3>11 DEF RevisionsContiguous
  <2> QED
    BY <2>2, <2>3
<1>5. CASE \/ \E j \in Job : \/ Build(j) \/ WriteJson(j) \/ Render(j)
                             \/ RenderFails(j) \/ ShowReport(j)
                             \/ ServeQr(j) \/ QrLoaded(j)
           \/ ShowTest \/ Midnight \/ Kill
           \/ \E s \in Session : ChangeStatus(s)
           \/ UNCHANGED vars
  <2>1. rows' = rows /\ jobs' = jobs
    BY <1>1, <1>5, OtherTable
  <2> QED
    BY <1>2, <2>1 DEF jobs
<1> QED
  BY <1>3, <1>4, <1>5 DEF Next, Generate

\* The revisions of a session are 1, 2, 3, ... in the order of its rows, for
\* any number of requests that overlap, fail or are killed (reports.py
\* generate_report, UNIQUE (session_id, revision)).
THEOREM RevisionsContiguousAlways == Spec => []RevisionsContiguous
PROOF
<1>1. Init => RevisionsContiguous
  BY EmptySeq DEF Init, RevisionsContiguous
<1> QED
  BY <1>1, OrderStep, TableInvariant, PTL DEF Spec

-----------------------------------------------------------------------------
(* The files.                                                              *)

\* What becomes of a writer keeps it a writer.
LEMMA WriterKept ==
    ASSUME NEW w, NEW j, NEW U, Writer(w, j, U),
           sess'[w] = sess[w], day'[w] = day[w], rev'[w] = rev[w],
           sess'[j] = sess[j], day'[j] = day[j], rev'[j] = rev[j],
           \/ pc[w] \in U => pc'[w] \in U
           \/ Filed(w)' /\ rev[w] >= rev[j],
           Filed(w) => Filed(w)'
    PROVE  Writer(w, j, U)'
PROOF
  BY DEF Writer

\* A step that writes no export leaves every export with a writer.
LEMMA SameJson ==
    ASSUME JsonInv, json' = json,
           \A j \in Job : pc[j] \in Written \cup {"failed"} =>
               sess'[j] = sess[j] /\ day'[j] = day[j] /\ rev'[j] = rev[j],
           \A j \in Job : pc'[j] \in Written => pc[j] \in Written,
           \A w, j \in Job :
               pc[w] \in {"render", "insert", "failed"}
               /\ pc'[j] \in Written /\ sess[w] = sess[j]
               => \/ pc'[w] \in {"render", "insert", "failed"}
                  \/ Filed(w)' /\ rev[w] >= rev[j],
           \A j \in Job : Filed(j) => Filed(j)'
    PROVE  JsonInv'
PROOF
<1> SUFFICES ASSUME NEW j \in Job, pc'[j] \in Written
             PROVE  Writer(json[sess[j]][day[j]], j, {"render", "insert", "failed"})'
  BY DEF JsonInv
<1>1. PICK w : w = json[sess[j]][day[j]]
  OBVIOUS
<1>2. pc[j] \in Written /\ pc[j] \in Written
  BY DEF Written, Rendered
<1>3. Writer(w, j, {"render", "insert", "failed"})
  BY <1>1, <1>2 DEF JsonInv
<1>4. w \in Job /\ pc[w] \in Written \cup {"failed"} /\ sess[w] = sess[j]
  BY <1>2, <1>3 DEF Writer, Written, Filed
<1>5. Writer(w, j, {"render", "insert", "failed"})'
  BY <1>2, <1>3, <1>4, WriterKept
<1>6. json'[sess'[j]][day'[j]] = w
  BY <1>1, <1>2
<1> QED
  BY <1>5, <1>6 DEF Writer

\* A step that writes no PDF leaves every PDF with a writer.
LEMMA SamePdf ==
    ASSUME PdfInv, pdf' = pdf,
           \A j \in Job : pc[j] \in Written \cup {"failed"} =>
               sess'[j] = sess[j] /\ day'[j] = day[j] /\ rev'[j] = rev[j],
           \A j \in Job : pc'[j] \in Rendered => pc[j] \in Rendered,
           \A w, j \in Job :
               pc[w] \in {"insert", "failed"}
               /\ pc'[j] \in Rendered /\ sess[w] = sess[j]
               => \/ pc'[w] \in {"insert", "failed"}
                  \/ Filed(w)' /\ rev[w] >= rev[j],
           \A j \in Job : Filed(j) => Filed(j)'
    PROVE  PdfInv'
PROOF
<1> SUFFICES ASSUME NEW j \in Job, pc'[j] \in Rendered
             PROVE  Writer(pdf[sess[j]][day[j]], j, {"insert", "failed"})'
  BY DEF PdfInv
<1>1. PICK w : w = pdf[sess[j]][day[j]]
  OBVIOUS
<1>2. pc[j] \in Rendered /\ pc[j] \in Written
  BY DEF Written, Rendered
<1>3. Writer(w, j, {"insert", "failed"})
  BY <1>1, <1>2 DEF PdfInv
<1>4. w \in Job /\ pc[w] \in Written \cup {"failed"} /\ sess[w] = sess[j]
  BY <1>2, <1>3 DEF Writer, Written, Filed
<1>5. Writer(w, j, {"insert", "failed"})'
  BY <1>2, <1>3, <1>4, WriterKept
<1>6. pdf'[sess'[j]][day'[j]] = w
  BY <1>1, <1>2
<1> QED
  BY <1>5, <1>6 DEF Writer

\* The job that inserts its row has a revision as high as any job of its
\* session has.
LEMMA InsertHighest ==
    ASSUME TableInv, NEW w \in Job, pc[w] = "insert",
           rev[w] \notin Revisions(sess[w]),
           NEW j \in Job, Numbered(j) \/ Filed(j), sess[j] = sess[w]
    PROVE  rev[w] >= rev[j]
PROOF
<1>1. TypeOK /\ FiledInv /\ CountInv
  BY DEF TableInv
<1>2. sess[w] \in Session /\ Rows(sess[w]) \in Nat
  BY <1>1, RowsFinite DEF TypeOK
<1>3. rev[w] = Rows(sess[w]) + 1
  BY <1>1, <1>2 DEF CountInv, Numbered
<1>4. rev[j] \in 1..(Rows(sess[w]) + 1)
  <2>1. CASE Numbered(j)
    BY <1>1, <2>1 DEF CountInv
  <2>2. CASE Filed(j)
    <3>1. PICK i \in DOMAIN rows : rows[i] = j
      BY <1>1, <2>2 DEF FiledInv
    <3>2. rev[j] \in Revisions(sess[w])
      BY <3>1 DEF Revisions, RowsOf
    <3> QED
      BY <1>1, <1>2, <3>2 DEF CountInv
  <2> QED
    BY <2>1, <2>2
<1> QED
  BY <1>2, <1>3, <1>4

\* A new row: its JSON file and its PDF are written after it, by the same request.
LEMMA InsertFiles ==
    ASSUME TableInv, FilesInv, NEW x \in Job, Insert(x)
    PROVE  FilesInv'
PROOF
<1>1. /\ JsonInv /\ PdfInv /\ DayInv /\ pc[x] = "insert" /\ TypeOK
      /\ UNCHANGED <<world, jobs, json, pdf, screen>>
  BY DEF Insert, FilesInv, TableInv
<1>2. \/ pc' = [pc EXCEPT ![x] = "failed"]
      \/ /\ pc' = [pc EXCEPT ![x] = "inserted"]
         /\ rev[x] \notin Revisions(sess[x])
  BY DEF Insert, Goto
<1>3. \A i \in Job \ {x} : pc'[i] = pc[i]
  BY <1>1, <1>2 DEF TypeOK
<1>4. pc'[x] \in {"failed", "inserted"}
  BY <1>1, <1>2 DEF TypeOK
<1>5. /\ \A j \in Job : pc'[j] \in Written => pc[j] \in Written
      /\ \A j \in Job : pc'[j] \in Rendered => pc[j] \in Rendered
      /\ \A j \in Job : Filed(j) => Filed(j)'
  BY <1>1, <1>3, <1>4 DEF Written, Rendered, Filed
<1>6. ASSUME NEW w \in Job, NEW j \in Job, pc[w] \in {"render", "insert", "failed"},
             pc'[j] \in Written, sess[w] = sess[j], pc'[w] # pc[w]
      PROVE  pc'[w] = "failed" \/ (Filed(w)' /\ rev[w] >= rev[j])
  <2>1. w = x
    BY <1>3, <1>6
  <2>2. CASE pc'[x] = "failed"
    BY <2>1, <2>2
  <2>3. CASE pc'[x] = "inserted"
    <3>1. rev[x] \notin Revisions(sess[x])
      BY <1>1, <1>2, <2>3 DEF TypeOK
    <3>2. Numbered(j) \/ Filed(j)
      BY <1>5, <1>6 DEF Written, Numbered, Filed
    <3> QED
      BY <1>1, <1>6, <2>1, <2>3, <3>1, <3>2, InsertHighest DEF Filed
  <2> QED
    BY <1>4, <2>2, <2>3
<1>7. JsonInv'
  BY <1>1, <1>5, <1>6, SameJson DEF jobs
<1>8. PdfInv'
  <2>1. \A j \in Job : pc'[j] \in Rendered => pc'[j] \in Written
    BY DEF Rendered, Written
  <2> QED
    BY <1>1, <1>5, <1>6, <2>1, SamePdf DEF jobs
<1> QED
  BY <1>1, <1>7, <1>8 DEF FilesInv, DayInv, jobs, world

\* A written JSON file: the one of its day, its PDF is still to come.
LEMMA WriteJsonFiles ==
    ASSUME TableInv, FilesInv, NEW x \in Job, WriteJson(x)
    PROVE  FilesInv'
PROOF
<1>1. /\ JsonInv /\ PdfInv /\ DayInv /\ pc[x] = "write" /\ TypeOK
      /\ json' = [json EXCEPT ![sess[x]][day[x]] = x]
      /\ pc' = [pc EXCEPT ![x] = "render"]
      /\ UNCHANGED <<world, jobs, rows, pdf, screen>>
  BY DEF WriteJson, FilesInv, TableInv, Goto
<1>2. /\ \A i \in Job \ {x} : pc'[i] = pc[i]
      /\ pc'[x] = "render" /\ sess' = sess /\ day' = day /\ rev' = rev
  BY <1>1 DEF TypeOK, jobs
<1>3. /\ \A j \in Job : pc'[j] \in Rendered => pc[j] \in Rendered
      /\ \A j \in Job : Filed(j) => Filed(j)'
      /\ \A j \in Job : pc[j] \in {"insert", "failed"} => pc'[j] = pc[j]
  BY <1>1, <1>2 DEF Rendered, Filed
<1>4. PdfInv'
  BY <1>1, <1>2, <1>3, SamePdf
<1>5. ASSUME NEW j \in Job, pc'[j] \in Written
      PROVE  Writer(json[sess[j]][day[j]], j, {"render", "insert", "failed"})'
  <2>0. /\ sess[x] \in Session /\ day[x] \in Day
        /\ sess[j] \in Session /\ day[j] \in Day
    BY <1>1 DEF TypeOK, DayInv
  <2>1. CASE sess[j] = sess[x] /\ day[j] = day[x]
    <3>1. json'[sess[j]][day[j]] = x
      BY <1>1, <2>0, <2>1 DEF TypeOK
    <3> QED
      BY <1>2, <2>1, <3>1 DEF Writer
  <2>2. CASE ~(sess[j] = sess[x] /\ day[j] = day[x])
    <3>1. PICK w : w = json[sess[j]][day[j]]
      OBVIOUS
    <3>2. json'[sess[j]][day[j]] = w
      BY <1>1, <2>0, <2>2, <3>1 DEF TypeOK
    <3>3. j # x /\ pc[j] \in Written
      BY <1>2, <1>5, <2>2
    <3>4. Writer(w, j, {"render", "insert", "failed"})
      BY <1>1, <3>1, <3>3 DEF JsonInv
    <3>5. w # x
      BY <1>1, <3>3, <3>4 DEF Writer, Filed
    <3>6. Writer(w, j, {"render", "insert", "failed"})'
      BY <1>2, <3>3, <3>4, <3>5 DEF Writer, Filed
    <3> QED
      BY <1>2, <3>2, <3>6 DEF Writer
  <2> QED
    BY <2>1, <2>2
<1>6. JsonInv'
  BY <1>5 DEF JsonInv
<1> QED
  BY <1>1, <1>4, <1>6 DEF FilesInv, DayInv, jobs, world

\* The renderer writes the PDF and succeeds or fails.
LEMMA RenderFiles ==
    ASSUME TableInv, FilesInv, NEW x \in Job, Render(x) \/ RenderFails(x)
    PROVE  FilesInv'
PROOF
<1>1. /\ JsonInv /\ PdfInv /\ DayInv /\ pc[x] = "render" /\ TypeOK
      /\ UNCHANGED <<world, jobs, rows, json, screen>>
  BY DEF Render, RenderFails, FilesInv, TableInv
<1>2. \/ pc' = [pc EXCEPT ![x] = "failed"]
      \/ /\ pc' = [pc EXCEPT ![x] = "insert"]
         /\ pdf' = [pdf EXCEPT ![sess[x]][day[x]] = x]
  BY DEF Render, RenderFails, Goto
<1>3. pdf' = pdf \/ pdf' = [pdf EXCEPT ![sess[x]][day[x]] = x]
  BY DEF Render, RenderFails
<1>4. /\ \A i \in Job \ {x} : pc'[i] = pc[i]
      /\ sess' = sess /\ day' = day /\ rev' = rev
      /\ \/ pc'[x] = "failed"
         \/ pc'[x] = "insert" /\ pdf' = [pdf EXCEPT ![sess[x]][day[x]] = x]
  BY <1>1, <1>2 DEF TypeOK, jobs
<1>5. /\ \A j \in Job : pc'[j] \in Written => pc[j] \in Written
      /\ \A j \in Job : Filed(j) => Filed(j)'
      /\ \A j \in Job : pc[j] \in {"render", "insert", "failed"}
                        => pc'[j] \in {"render", "insert", "failed"}
  BY <1>1, <1>4 DEF Written, Filed
<1>6. JsonInv'
  BY <1>1, <1>4, <1>5, SameJson
<1>7. ASSUME NEW j \in Job, pc'[j] \in Rendered
      PROVE  Writer(pdf[sess[j]][day[j]], j, {"insert", "failed"})'
  <2>0. /\ sess[x] \in Session /\ day[x] \in Day
        /\ sess[j] \in Session /\ day[j] \in Day
    BY <1>1 DEF TypeOK, DayInv
  <2>1. CASE /\ pdf' = [pdf EXCEPT ![sess[x]][day[x]] = x]
             /\ sess[j] = sess[x] /\ day[j] = day[x]
    <3>1. pdf'[sess[j]][day[j]] = x
      BY <1>1, <2>0, <2>1 DEF TypeOK
    <3> QED
      BY <1>4, <2>1, <3>1 DEF Writer
  <2>2. CASE \/ pdf' = pdf
             \/ /\ pdf' = [pdf EXCEPT ![sess[x]][day[x]] = x]
                /\ ~(sess[j] = sess[x] /\ day[j] = day[x])
    <3>1. PICK w : w = pdf[sess[j]][day[j]]
      OBVIOUS
    <3>2. pdf'[sess[j]][day[j]] = w
      BY <1>1, <2>0, <2>2, <3>1 DEF TypeOK
    <3>3. CASE j = x
      <4>1. w = x
        BY <1>4, <1>7, <2>0, <2>2, <3>2, <3>3, <1>1 DEF Rendered, TypeOK
      <4> QED
        BY <1>4, <3>2, <3>3, <4>1 DEF Writer
    <3>4. CASE j # x
      <4>1. pc[j] \in Rendered
        BY <1>4, <1>7, <3>4
      <4>2. Writer(w, j, {"insert", "failed"})
        BY <1>1, <3>1, <4>1 DEF PdfInv
      <4>3. w # x
        BY <1>1, <3>4, <4>2 DEF Writer, Filed
      <4>4. Writer(w, j, {"insert", "failed"})'
        BY <1>4, <3>4, <4>2, <4>3 DEF Writer, Filed
      <4> QED
        BY <1>4, <3>2, <4>4 DEF Writer
    <3> QED
      BY <3>3, <3>4
  <2> QED
    BY <1>3, <2>1, <2>2
<1>8. PdfInv'
  BY <1>7 DEF PdfInv
<1> QED
  BY <1>1, <1>6, <1>8 DEF FilesInv, DayInv, jobs, world

\* A step that writes no file and inserts no row: days stay days, and no job
\* stops being a writer.
LEMMA OtherFiles ==
    ASSUME TableInv, FilesInv,
           \/ \E j \in Job : \/ Request(j) \/ Build(j) \/ Number(j)
                             \/ ShowReport(j) \/ ServeQr(j) \/ QrLoaded(j)
           \/ ShowTest \/ Midnight \/ Kill
           \/ \E s \in Session : ChangeStatus(s)
           \/ UNCHANGED vars
    PROVE  FilesInv'
PROOF
<1> DEFINE Kept == /\ DayInv' /\ json' = json /\ pdf' = pdf
                   /\ \A j \in Job : pc[j] \in Written \cup {"failed"} =>
                         /\ sess'[j] = sess[j] /\ day'[j] = day[j]
                         /\ rev'[j] = rev[j]
                   /\ \A j \in Job : pc'[j] \in Written => pc[j] \in Written
                   /\ \A j \in Job : pc'[j] \in Rendered => pc[j] \in Rendered
                   /\ \A j \in Job : pc[j] \in {"render", "insert", "failed"}
                         => pc'[j] \in {"render", "insert", "failed"}
                   /\ \A j \in Job : pc[j] \in {"insert", "failed"}
                         => pc'[j] \in {"insert", "failed"}
                   /\ \A j \in Job : Filed(j) => Filed(j)'
<1>1. TypeOK /\ DayInv /\ JsonInv /\ PdfInv
  BY DEF TableInv, FilesInv
<1>2. ASSUME NEW x \in Job, Request(x) PROVE Kept
  BY <1>1, <1>2 DEF Request, Goto, TypeOK, DayInv, Written, Rendered, Filed,
                    world, archive, screen
<1>3. ASSUME NEW x \in Job, Build(x) PROVE Kept
  BY <1>1, <1>3 DEF Build, Goto, TypeOK, DayInv, Written, Rendered, Filed,
                    world, jobs, archive, screen
<1>4. ASSUME NEW x \in Job, Number(x) PROVE Kept
  <2>1. /\ pc[x] = "number" /\ pc' = [pc EXCEPT ![x] = "write"]
        /\ day' = [day EXCEPT ![x] = today]
        /\ UNCHANGED <<world, sess, archive, screen>>
    BY <1>4 DEF Number, Goto
  <2>2. \A i \in Job \ {x} : rev'[i] = rev[i]
    BY <1>1, <1>4 DEF Number, TypeOK
  <2> QED
    BY <1>1, <2>1, <2>2 DEF TypeOK, DayInv, Written, Rendered, Filed, world,
                            archive
<1>5. ASSUME NEW x \in Job, ShowReport(x) PROVE Kept
  BY <1>1, <1>5 DEF ShowReport, Goto, TypeOK, DayInv, Written, Rendered, Filed,
                    world, jobs, archive
<1>6. ASSUME NEW x \in Job, ServeQr(x) \/ QrLoaded(x) PROVE Kept
  <2>1. UNCHANGED <<world, pc, jobs, archive>>
    BY <1>6 DEF ServeQr, QrLoaded
  <2> QED
    BY <1>1, <2>1 DEF DayInv, Filed, world, jobs, archive
<1>7. ASSUME ShowTest \/ UNCHANGED vars PROVE Kept
  <2>1. UNCHANGED <<world, pc, jobs, archive>>
    BY <1>7 DEF ShowTest, vars
  <2> QED
    BY <1>1, <2>1 DEF DayInv, Filed, world, jobs, archive
<1>8. ASSUME Kill PROVE Kept
  BY <1>1, <1>8 DEF Kill, TypeOK, DayInv, Written, Rendered, Filed, jobs,
                    archive
<1>9. ASSUME Midnight PROVE Kept
  <2>1. today' \in Day
    BY <1>1, <1>9, ArchiveBounds DEF Midnight, DayInv, Day
  <2> QED
    BY <1>1, <1>9, <2>1 DEF Midnight, DayInv, Filed, jobs, archive
<1>10. ASSUME NEW s \in Session, ChangeStatus(s) PROVE Kept
  BY <1>1, <1>10 DEF ChangeStatus, DayInv, Filed, jobs, archive
<1>11. Kept
  BY <1>2, <1>3, <1>4, <1>5, <1>6, <1>7, <1>8, <1>9, <1>10
<1>12. JsonInv'
  BY <1>1, <1>11, SameJson
<1>13. PdfInv'
  BY <1>1, <1>11, SamePdf
<1> QED
  BY <1>11, <1>12, <1>13 DEF FilesInv

\* No step separates the files of a day from its rows.
LEMMA FilesStep == TableInv /\ FilesInv /\ [Next]_vars => FilesInv'
PROOF
<1> SUFFICES ASSUME TableInv, FilesInv, [Next]_vars PROVE FilesInv'
  OBVIOUS
<1>1. CASE \E j \in Job : WriteJson(j)
  BY <1>1, WriteJsonFiles
<1>2. CASE \E j \in Job : Render(j) \/ RenderFails(j)
  BY <1>2, RenderFiles
<1>3. CASE \E j \in Job : Insert(j)
  BY <1>3, InsertFiles
<1>4. CASE \/ \E j \in Job : \/ Request(j) \/ Build(j) \/ Number(j)
                             \/ ShowReport(j) \/ ServeQr(j) \/ QrLoaded(j)
           \/ ShowTest \/ Midnight \/ Kill
           \/ \E s \in Session : ChangeStatus(s)
           \/ UNCHANGED vars
  BY <1>4, OtherFiles
<1> QED
  BY <1>1, <1>2, <1>3, <1>4 DEF Next, Generate

\* The files of every reachable state are those of the rows.
LEMMA FilesInvariant == Spec => []FilesInv
PROOF
<1>1. Init => FilesInv
  <2>1. 1 \in Day
    BY ArchiveBounds DEF Day
  <2> QED
    BY <2>1 DEF Init, FilesInv, DayInv, JsonInv, PdfInv, Written, Rendered
<1> QED
  BY <1>1, FilesStep, TableInvariant, PTL DEF Spec

\* The files of a session and a day hold its last report of that day, however
\* many requests, revisions, days and kills there are, unless another
\* generation of that session and day is writing or failed (reports.py
\* generate_report).
THEOREM LastOfDayIntactAlways == Spec => []LastOfDayIntact
PROOF
<1>1. TableInv /\ FilesInv => LastOfDayIntact
  <2> SUFFICES ASSUME TableInv, FilesInv,
                      NEW j \in Job, j \in Range(rows), LastOfDay(j),
                      ~\E i \in Job : Disturbs(i, j)
               PROVE  json[sess[j]][day[j]] = j /\ pdf[sess[j]][day[j]] = j
    BY DEF LastOfDayIntact
  <2>1. TypeOK /\ FiledInv /\ JsonInv /\ PdfInv
    BY DEF TableInv, FilesInv
  <2>2. PICK k \in DOMAIN rows : rows[k] = j
    BY DEF Range
  <2>3. Filed(j)
    BY <2>1, <2>2 DEF FiledInv
  <2>4. ASSUME NEW w, Writer(w, j, {"render", "insert", "failed"})
        PROVE  w = j
    <3>1. w \in Job /\ sess[w] = sess[j] /\ day[w] = day[j]
      BY <2>4 DEF Writer
    <3>2. CASE pc[w] \in {"render", "insert", "failed"}
      BY <3>1, <3>2 DEF Disturbs
    <3>3. CASE Filed(w) /\ rev[w] >= rev[j]
      <4>1. PICK i \in DOMAIN rows : rows[i] = w
        BY <2>1, <3>1, <3>3 DEF FiledInv
      <4>2. rev[w] <= rev[j]
        BY <3>1, <4>1 DEF LastOfDay
      <4>3. rev[w] = rev[j]
        BY <2>1, <3>1, <3>3, <4>2 DEF TypeOK
      <4>4. i = k
        BY <2>1, <2>2, <3>1, <4>1, <4>3 DEF TypeOK
      <4> QED
        BY <2>2, <4>1, <4>4
    <3> QED
      BY <2>4, <3>2, <3>3 DEF Writer
  <2>5. Writer(json[sess[j]][day[j]], j, {"render", "insert", "failed"})
    BY <2>1, <2>3 DEF JsonInv, Filed, Written
  <2>6. Writer(pdf[sess[j]][day[j]], j, {"render", "insert", "failed"})
    BY <2>1, <2>3 DEF PdfInv, Filed, Rendered, Writer
  <2> QED
    BY <2>4, <2>5, <2>6
<1> QED
  BY <1>1, TableInvariant, FilesInvariant, PTL

-----------------------------------------------------------------------------
(* The report screen.                                                      *)

\* A frame that brings the report screen up drops the old code; only if no
\* image is on its way does the screen claim to be that of one report.
LEMMA ScreenStep == TypeOK /\ ScreenInv /\ [Next]_vars => ScreenInv'
PROOF
<1> SUFFICES ASSUME TypeOK, ScreenInv, [Next]_vars PROVE ScreenInv'
  OBVIOUS
<1>0. rows \in Seq(Job) /\ Len(rows) \in Nat
  BY LenProperties DEF TypeOK
<1>1. ASSUME NEW j, rows' = rows, Frame("report", j) PROVE ScreenInv'
  <2> SUFFICES ASSUME kiosk.pattern # "report", Calm
               PROVE  ScreenInv'
    BY <1>1 DEF Frame, ScreenInv
  <2>1. /\ kiosk' = [pattern |-> "report", row |-> Len(rows), qr |-> 0,
                     calm |-> kiosk.pattern # "report" /\ Calm]
        /\ load' = [load EXCEPT ![j] = Asked]
    BY <1>1 DEF Frame, Named
  <2>2. \A i \in Job : ~(load'[i] > Asked)
    BY <2>1 DEF Calm, TypeOK, Idle, Asked
  <2> QED
    BY <1>0, <1>1, <2>1, <2>2 DEF ScreenInv
<1>2. ASSUME NEW j, Frame("test", j) PROVE ScreenInv'
  BY <1>2 DEF Frame, ScreenInv
<1>3. ASSUME rows' = rows \/ \E j \in Job : rows' = Append(rows, j),
             UNCHANGED screen
      PROVE  ScreenInv'
  <2>1. Len(rows') \in Nat /\ Len(rows') >= Len(rows)
    BY <1>0, <1>3, AppendProperties
  <2>2. kiosk.row \in Nat
    BY DEF TypeOK
  <2> QED
    BY <1>0, <1>3, <2>1, <2>2 DEF ScreenInv, screen
<1>4. ASSUME NEW j \in Job, ServeQr(j) PROVE ScreenInv'
  <2>1. /\ load' = [load EXCEPT ![j] = Len(rows)]
        /\ UNCHANGED <<world, pc, jobs, archive, pattern, kiosk>>
    BY <1>4 DEF ServeQr
  <2>2. /\ load'[j] = Len(rows) /\ \A i \in Job \ {j} : load'[i] = load[i]
        /\ rows' = rows /\ kiosk' = kiosk
    BY <2>1 DEF TypeOK, archive
  <2> QED
    BY <1>0, <2>2 DEF ScreenInv
<1>5. ASSUME NEW j \in Job, QrLoaded(j) PROVE ScreenInv'
  <2>1. /\ load[j] > Asked /\ kiosk' = [kiosk EXCEPT !.qr = load[j]]
        /\ load' = [load EXCEPT ![j] = Idle]
        /\ rows' = rows
    BY <1>5 DEF QrLoaded, archive
  <2>2. /\ load'[j] = Idle /\ \A i \in Job \ {j} : load'[i] = load[i]
        /\ kiosk'.calm = kiosk.calm /\ kiosk'.pattern = kiosk.pattern
        /\ kiosk'.row = kiosk.row /\ kiosk'.qr = load[j]
    BY <2>1 DEF TypeOK
  <2>3. ~(Idle > Asked)
    BY DEF Idle, Asked
  <2> QED
    BY <2>1, <2>2, <2>3 DEF ScreenInv
<1>6. CASE \E j \in Job : ShowReport(j)
  BY <1>1, <1>6 DEF ShowReport, archive
<1>7. CASE ShowTest \/ Kill
  BY <1>2, <1>7 DEF ShowTest, Kill
<1>8. CASE \E j \in Job : \/ Request(j) \/ Build(j) \/ Number(j)
                          \/ WriteJson(j) \/ Render(j) \/ RenderFails(j)
                          \/ Insert(j)
  <2>1. PICK j \in Job : \/ Request(j) \/ Build(j) \/ Number(j)
                         \/ WriteJson(j) \/ Render(j) \/ RenderFails(j)
                         \/ Insert(j)
    BY <1>8
  <2>2. rows' = rows \/ rows' = Append(rows, j)
    BY <2>1 DEF Request, Build, Number, WriteJson, Render, RenderFails, Insert,
                archive
  <2>3. UNCHANGED screen
    BY <2>1 DEF Request, Build, Number, WriteJson, Render, RenderFails, Insert
  <2> QED
    BY <1>3, <2>2, <2>3
<1>9. CASE Midnight \/ (\E s \in Session : ChangeStatus(s)) \/ UNCHANGED vars
  BY <1>3, <1>9 DEF Midnight, ChangeStatus, vars, archive
<1> QED
  BY <1>4, <1>5, <1>6, <1>7, <1>8, <1>9 DEF Next, Generate

\* The code on a report screen that came up for one report, with no earlier
\* image on its way, is at least as new as the report it names, for any number
\* of reports and kills (routes.py create_report, patterns.js).
THEOREM FreshCodeAlways == Spec => []FreshCodeOnNewScreen
PROOF
<1>1. Init => ScreenInv
  BY DEF Init, ScreenInv
<1>2. ScreenInv => FreshCodeOnNewScreen
  BY DEF ScreenInv, FreshCodeOnNewScreen
<1> QED
  BY <1>1, <1>2, ScreenStep, TypesOfReports, PTL DEF Spec

=============================================================================
