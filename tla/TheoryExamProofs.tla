-------------------------- MODULE TheoryExamProofs --------------------------
(***************************************************************************)
(* Proofs about TheoryExam, for any number of tabs, admins and choices:    *)
(*   TypeCorrect           TypeOK                                          *)
(*   SubmittedForGood      StaysSubmitted                                  *)
(*   ViewIsTrue            SubmittedViewIsTrue                             *)
(*   OnlyOneSlips          OneSaveSlipsIn                                  *)
(*   FirstEditionIsSingle  DuplicatesNeedRepublish                         *)
(***************************************************************************)
EXTENDS TheoryExam, TLAPS

\* Who is about to save has read an edition that was there, and a sheet that was
\* not submitted; a sheet that was there is there.
Reading ==
    \A t \in Tabs : op[t] # "none" =>
        /\ snap[t].edition \in 1..paper.edition
        /\ snap[t].sheet.status # "Submitted"
        /\ snap[t].sheet.status # "none" => sheet.status # "none"

\* Only a submitted sheet is marked again.
Regrading ==
    \A a \in Admins : adm[a].op = "regrade" =>
        adm[a].sheet.status = "Submitted" /\ sheet.status = "Submitted"

\* Once a save has slipped in, those that passed the same check are stale.
Slipped ==
    \/ slips = 0
    \/ /\ slips = 1 /\ sheet.status = "Submitted"
       /\ \A a \in Admins : adm[a].op = "save" => adm[a].edition < paper.edition

ReadBefore == \A a \in Admins : adm[a].edition <= paper.edition

SheetNeedsPaper == sheet.status # "none" => paper.edition # 0

Publishing == \A a \in Admins : adm[a].op = "publish" => paper.edition # 0

Single(rows) == \E r \in Rows : rows = {r}

\* A sheet that exists has exactly one row.
One(s) == IF s.status = "none" THEN s.rows = {} ELSE Single(s.rows)

\* In the first edition that holds of the sheet and of every copy of it.
FirstEdition ==
    paper.edition <= 1 =>
        /\ One(sheet)
        /\ \A t \in Tabs : op[t] # "none" => One(snap[t].sheet)
        /\ \A a \in Admins : adm[a].op = "regrade" => One(adm[a].sheet)

IInv == /\ TypeOK /\ Reading /\ Regrading /\ Slipped /\ ReadBefore /\ SheetNeedsPaper
        /\ Publishing /\ FirstEdition /\ SubmittedViewIsTrue

-----------------------------------------------------------------------------
(* What a save does to the sheet                                           *)

LEMMA AppliedRows ==
  ASSUME NEW rows \in SUBSET Rows, NEW sent \in Choices \cup {Blank, Missing},
         NEW i \in RowIds, NEW out \in ApplyAnswers(rows, sent, i)
  PROVE  /\ out \in SUBSET Rows
         /\ (rows = {} \/ Single(rows)) => Single(out)
<1>1. \A c \in Choices \cup {Blank}, j \in RowIds : Plain(j, c) \in Rows
  BY DEF Plain, Rows
<1>2. CASE sent = Missing
  <2>1. out = {Plain(i, Blank)}
    BY <1>2 DEF ApplyAnswers
  <2> QED
    BY <1>1, <2>1 DEF Single
<1>3. CASE sent # Missing /\ rows = {}
  <2>1. out = {Plain(i, sent)} /\ sent \in Choices \cup {Blank}
    BY <1>3 DEF ApplyAnswers
  <2> QED
    BY <1>1, <2>1 DEF Single
<1>4. CASE sent # Missing /\ rows # {}
  <2>1. PICK r \in rows : out = (rows \ {r}) \cup {Plain(r.id, sent)}
    BY <1>4 DEF ApplyAnswers
  <2>2. Plain(r.id, sent) \in Rows
    BY <1>1, <1>4, <2>1 DEF Rows
  <2>3. Single(rows) => out = {Plain(r.id, sent)}
    BY <2>1 DEF Single
  <2> QED
    BY <1>4, <2>1, <2>2, <2>3 DEF Single
<1> QED
  BY <1>2, <1>3, <1>4

LEMMA MarkedRow == ASSUME NEW r \in Rows PROVE Marked(r) \in Rows /\ Marked(r).id = r.id
  BY DEF Marked, Rows

LEMMA GradedSheet ==
  ASSUME NEW rows \in SUBSET Rows
  PROVE  /\ Grade(rows) \in Sheets /\ Grade(rows).status = "Submitted"
         /\ Single(rows) => Single(Grade(rows).rows)
<1>1. {Marked(r) : r \in rows} \in SUBSET Rows
  BY MarkedRow
<1>2. Single(rows) => Single({Marked(r) : r \in rows})
  BY MarkedRow DEF Single
<1> QED
  BY <1>1, <1>2 DEF Grade, Sheets

LEMMA RowOfRows ==
  ASSUME NEW rows \in SUBSET Rows, NEW i \in Ids(rows)
  PROVE  RowOf(rows, i) \in rows
  BY DEF RowOf, Ids

LEMMA UpdatedRow ==
  ASSUME NEW read \in Sheets, NEW wanted \in Sheets, NEW r \in Rows,
         r.id \in Ids(read.rows) => r.id \in Ids(wanted.rows)
  PROVE  Updated(r, read, wanted) \in Rows
<1>1. read.rows \in SUBSET Rows /\ wanted.rows \in SUBSET Rows
  BY DEF Sheets
<1>2. CASE r.id \in Ids(read.rows)
  <2>1. RowOf(read.rows, r.id) \in Rows /\ RowOf(wanted.rows, r.id) \in Rows
    BY <1>1, <1>2, RowOfRows
  <2> QED
    BY <1>2, <2>1 DEF Updated, Merged, Column, Rows
<1> QED
  BY <1>2 DEF Updated

LEMMA WrittenSheet ==
  ASSUME sheet \in Sheets, NEW read \in Sheets, NEW wanted \in Sheets
  PROVE  Written(read, wanted) \in Sheets
<1>1. sheet.rows \in SUBSET Rows /\ wanted.rows \in SUBSET Rows
  BY DEF Sheets
<1>2. Written(read, wanted).rows \in SUBSET Rows
  BY <1>1, UpdatedRow DEF Written
<1>3. Column(sheet.status, read.status, wanted.status) \in {"none", "Draft", "Submitted"}
  BY DEF Sheets, Column
<1>4. Column(sheet.score, read.score, wanted.score) \in {0, 1}
  BY DEF Sheets, Column
<1> QED
  BY <1>2, <1>3, <1>4 DEF Written, Sheets

\* When the sheet, the copy of it and the sheet that is wanted have one row each,
\* so has the sheet after the save.
LEMMA WrittenSingle ==
  ASSUME sheet \in Sheets, NEW read \in Sheets, NEW wanted \in Sheets, NEW e,
         One(sheet), One(read), Single(wanted.rows),
         read.status # "none" => sheet.status # "none",
         Saves(read, wanted, e)
  PROVE  Single(Written(read, wanted).rows)
<1>1. PICK w \in Rows : wanted.rows = {w}
  BY DEF Single
<1>2. CASE read.status = "none"
  <2>1. read.rows = {} /\ sheet.rows = {}
    BY <1>2 DEF One, Saves
  <2>2. Written(read, wanted).rows = {w}
    BY <1>1, <2>1 DEF Written, Ids
  <2> QED
    BY <2>2 DEF Single
<1>3. CASE read.status # "none"
  <2>1. PICK r0 \in Rows : read.rows = {r0}
    BY <1>3 DEF One, Single
  <2>2. PICK r1 \in Rows : sheet.rows = {r1}
    BY <1>3 DEF One, Single
  <2>3. Ids(read.rows) = {r0.id} /\ Ids(sheet.rows) = {r1.id} /\ Ids(wanted.rows) = {w.id}
    BY <1>1, <2>1, <2>2 DEF Ids
  <2>4. CASE w.id # r0.id
    \* The row is replaced: the one that was read is still there.
    <3>1. r0 \in read.rows \ wanted.rows
      BY <1>1, <2>1, <2>4
    <3>2. r1.id = r0.id
      BY <3>1, <2>3 DEF Saves
    <3>3. Written(read, wanted).rows = {w}
      BY <1>1, <2>2, <2>3, <2>4, <3>2 DEF Written
    <3> QED
      BY <3>3 DEF Single
  <2>5. CASE w.id = r0.id
    <3>1. {r \in wanted.rows : r.id \notin Ids(read.rows)} = {}
      BY <1>1, <2>3, <2>5
    <3>2. {x \in sheet.rows : x.id \in Ids(read.rows) => x.id \in Ids(wanted.rows)} = {r1}
      BY <2>2, <2>3, <2>5
    <3>3. Written(read, wanted).rows = {Updated(r1, read, wanted)}
      BY <3>1, <3>2 DEF Written
    <3>4. Updated(r1, read, wanted) \in Rows
      BY <2>3, <2>5, UpdatedRow
    <3> QED
      BY <3>3, <3>4 DEF Single
  <2> QED
    BY <2>4, <2>5
<1> QED
  BY <1>2, <1>3

-----------------------------------------------------------------------------
(* The invariant                                                           *)

LEMMA InitIInv == Init => IInv
<1> SUFFICES ASSUME Init PROVE IInv
  OBVIOUS
<1> USE ExamAssumption DEF Init, NoSheet, NoPage, Unread, Calm, Editions
<1>1. TypeOK
  BY DEF TypeOK, Papers, Sheets, Pages, Reads
<1>2. Reading /\ Regrading /\ Slipped /\ ReadBefore /\ SheetNeedsPaper /\ SubmittedViewIsTrue
  BY DEF Reading, Regrading, Slipped, ReadBefore, SheetNeedsPaper, SubmittedViewIsTrue, Submitted
<1>4. Publishing
  BY DEF Publishing
<1>3. FirstEdition
  BY DEF FirstEdition, One
<1> QED
  BY <1>1, <1>2, <1>3, <1>4 DEF IInv

\* Steps of a page that reach no server but to read.
LEMMA PageIInv ==
  ASSUME IInv, NEW t \in Tabs,
         Load(t) \/ LoadFails(t) \/ (\E c \in Choices \cup {Blank} : Choose(t, c))
  PROVE  IInv'
<1> USE ExamAssumption DEF IInv
<1>1. UNCHANGED <<paper, sheet, op, snap, adm, slips>>
  BY DEF Load, LoadFails, Choose
<1>2. page' \in [Tabs -> Pages] /\ \A u \in Tabs : Submitted(u)' => sheet.status = "Submitted"
  <2>1. CASE Load(t)
    BY <2>1 DEF Load, TypeOK, Pages, Papers, Sheets, Submitted, SubmittedViewIsTrue
  <2>2. CASE LoadFails(t)
    BY <2>2 DEF LoadFails, TypeOK, Pages, NoPage, Submitted, SubmittedViewIsTrue
  <2>3. CASE \E c \in Choices \cup {Blank} : Choose(t, c)
    BY <2>3 DEF Choose, TypeOK, Submitted, SubmittedViewIsTrue
  <2> QED
    BY <2>1, <2>2, <2>3
<1>3. answers' \in [Tabs -> [Editions -> Choices \cup {Blank, Missing}]]
  <2>1. CASE Load(t)
    <3>0. \A r \in sheet.rows : r.choice \in Choices \cup {Blank}
      BY DEF TypeOK, Sheets, Rows
    <3>1. PICK c \in Choices \cup {Blank, Missing} :
              answers' = [answers EXCEPT ![t] =
                             [e \in Editions |-> IF e = paper.edition THEN c ELSE Missing]]
      BY <2>1, <3>0 DEF Load
    <3> QED
      BY <3>1 DEF TypeOK
  <2>2. CASE LoadFails(t)
    BY <2>2 DEF LoadFails, TypeOK
  <2>3. CASE \E c \in Choices \cup {Blank} : Choose(t, c)
    <3>1. PICK c \in Choices \cup {Blank} :
              answers' = [answers EXCEPT ![t][page[t].edition] = c]
      BY <2>3 DEF Choose
    <3> QED
      BY <3>1 DEF TypeOK
  <2> QED
    BY <2>1, <2>2, <2>3
<1>4. TypeOK'
  BY <1>1, <1>2, <1>3 DEF TypeOK
<1>5. SubmittedViewIsTrue'
  BY <1>1, <1>2 DEF SubmittedViewIsTrue
<1>6. Reading' /\ Regrading' /\ Slipped' /\ ReadBefore' /\ SheetNeedsPaper' /\ FirstEdition'
      /\ Publishing'
  BY <1>1 DEF Reading, Regrading, Slipped, ReadBefore, SheetNeedsPaper, FirstEdition, Publishing
<1> QED
  BY <1>4, <1>5, <1>6

LEMMA ReadIInv ==
  ASSUME IInv, NEW t \in Tabs, NEW o \in {"draft", "submit"}, ReadSheet(t, o)
  PROVE  IInv'
<1> USE ExamAssumption DEF IInv, ReadSheet
<1>0. paper.edition \in 1..paper.edition /\ paper.edition \in 0..MaxSaves
  BY DEF Open, Refused, Published, TypeOK, Papers
<1>1. TypeOK'
  BY <1>0 DEF TypeOK, Reads, Papers
<1>2. Reading'
  BY <1>0 DEF Reading, Refused, TypeOK
<1>3. Regrading' /\ Slipped' /\ ReadBefore' /\ SheetNeedsPaper' /\ SubmittedViewIsTrue'
      /\ Publishing'
  BY DEF Regrading, Slipped, ReadBefore, SheetNeedsPaper, SubmittedViewIsTrue, Submitted,
         Publishing
<1>4. FirstEdition'
  BY DEF FirstEdition, TypeOK
<1> QED
  BY <1>1, <1>2, <1>3, <1>4

\* What a request wants is a sheet, and one row of it is enough when it read one.
LEMMA WantedSheet ==
  ASSUME IInv, NEW t \in Tabs, op[t] # "none", NEW i \in FreshIds,
         NEW rows \in ApplyAnswers(snap[t].sheet.rows, answers[t][snap[t].edition], i)
  PROVE  /\ Wanted(t, rows) \in Sheets /\ snap[t].sheet \in Sheets
         /\ Wanted(t, rows).status = (IF op[t] = "draft" THEN "Draft" ELSE "Submitted")
         /\ op[t] = "draft" => Wanted(t, rows).score = snap[t].sheet.score
         /\ One(snap[t].sheet) => Single(Wanted(t, rows).rows)
<1>1. snap[t].edition \in Editions /\ snap[t].sheet \in Sheets
  BY DEF IInv, TypeOK, Reading, Reads, Editions, Papers
<1>2. answers[t][snap[t].edition] \in Choices \cup {Blank, Missing} /\ i \in RowIds
  BY <1>1 DEF IInv, TypeOK, FreshIds
<1>3. /\ rows \in SUBSET Rows
      /\ (snap[t].sheet.rows = {} \/ Single(snap[t].sheet.rows)) => Single(rows)
  BY <1>1, <1>2, AppliedRows DEF Sheets
<1>4. CASE op[t] = "draft"
  BY <1>1, <1>3, <1>4 DEF Wanted, Sheets, One
<1>5. CASE op[t] # "draft"
  BY <1>1, <1>3, <1>5, GradedSheet DEF Wanted, One
<1> QED
  BY <1>4, <1>5

LEMMA SaveIInv ==
  ASSUME IInv, NEW t \in Tabs, SaveSheet(t)
  PROVE  IInv' /\ (sheet.status = "Submitted" => sheet'.status = "Submitted")
<1> USE ExamAssumption
<1>0. /\ TypeOK /\ Reading /\ Regrading /\ Slipped /\ ReadBefore /\ SheetNeedsPaper
      /\ Publishing /\ FirstEdition /\ SubmittedViewIsTrue
  BY DEF IInv
<1>1. PICK i \in FreshIds :
        \E rows \in ApplyAnswers(snap[t].sheet.rows, answers[t][snap[t].edition], i) :
          /\ Saves(snap[t].sheet, Wanted(t, rows), snap[t].edition)
          /\ sheet' = Written(snap[t].sheet, Wanted(t, rows))
          /\ \/ page' = [page EXCEPT ![t] = [edition |-> snap[t].edition,
                                            status |-> Wanted(t, rows).status]]
             \/ page' = page
  BY DEF SaveSheet
<1>2. PICK rows \in ApplyAnswers(snap[t].sheet.rows, answers[t][snap[t].edition], i) :
          /\ Saves(snap[t].sheet, Wanted(t, rows), snap[t].edition)
          /\ sheet' = Written(snap[t].sheet, Wanted(t, rows))
          /\ \/ page' = [page EXCEPT ![t] = [edition |-> snap[t].edition,
                                            status |-> Wanted(t, rows).status]]
             \/ page' = page
  BY <1>1
<1>3. op[t] # "none" /\ UNCHANGED <<paper, answers, adm, slips>>
      /\ op' = [op EXCEPT ![t] = "none"] /\ snap' = [snap EXCEPT ![t] = Unread]
  BY DEF SaveSheet, Done
<1> DEFINE read == snap[t].sheet
           wanted == Wanted(t, rows)
<1>4. /\ wanted \in Sheets /\ read \in Sheets /\ sheet \in Sheets
      /\ wanted.status = (IF op[t] = "draft" THEN "Draft" ELSE "Submitted")
      /\ op[t] = "draft" => wanted.score = read.score
      /\ One(read) => Single(wanted.rows)
  BY <1>0, <1>2, <1>3, WantedSheet DEF IInv, TypeOK
<1>5. /\ snap[t].edition \in 1..paper.edition /\ read.status # "Submitted"
      /\ read.status # "none" => sheet.status # "none"
  BY <1>0, <1>3 DEF Reading
<1>6. Saves(read, wanted, snap[t].edition) /\ sheet' = Written(read, wanted)
  BY <1>2
<1> HIDE DEF read, wanted
<1>7. sheet'.status = Column(sheet.status, read.status, wanted.status)
      /\ sheet'.score = Column(sheet.score, read.score, wanted.score)
  BY <1>6 DEF Written
<1>8. sheet'.status # "none" /\ (sheet.status = "Submitted" => sheet'.status = "Submitted")
      /\ (wanted.status = "Submitted" => sheet'.status = "Submitted")
  <2>1. CASE read.status = "none"
    BY <1>4, <1>6, <1>7, <2>1 DEF Saves, Column
  <2>2. CASE read.status # "none"
    BY <1>4, <1>5, <1>7, <2>2 DEF Column, Sheets
  <2> QED
    BY <2>1, <2>2
<1>9. sheet' \in Sheets /\ (sheet'.score # 0 => sheet'.status = "Submitted")
  <2>1. sheet' \in Sheets
    BY <1>4, <1>6, WrittenSheet
  <2>2. CASE op[t] = "draft"
    <3>1. sheet'.score = sheet.score
      BY <1>4, <1>7, <2>2 DEF Column
    <3>2. sheet.score # 0 => sheet.status = "Submitted"
      BY <1>0 DEF TypeOK
    <3> QED
      BY <1>8, <2>1, <3>1, <3>2
  <2>3. CASE op[t] # "draft"
    <3>1. wanted.status = "Submitted"
      BY <1>4, <2>3
    <3> QED
      BY <1>8, <2>1, <3>1
  <2> QED
    BY <2>1, <2>2, <2>3
<1>10. page' \in [Tabs -> Pages]
       /\ \A u \in Tabs : page'[u].status = "Submitted" => sheet'.status = "Submitted"
  <2>1. [edition |-> snap[t].edition, status |-> wanted.status] \in Pages
    BY <1>0, <1>4, <1>5 DEF TypeOK, Papers, Pages, Sheets
  <2>2. \/ page' = [page EXCEPT ![t] = [edition |-> snap[t].edition, status |-> wanted.status]]
        \/ page' = page
    BY <1>2 DEF wanted
  <2>3. page \in [Tabs -> Pages]
        /\ \A u \in Tabs : page[u].status = "Submitted" => sheet'.status = "Submitted"
    BY <1>0, <1>8 DEF TypeOK, SubmittedViewIsTrue, Submitted
  <2>4. CASE page' = page
    BY <2>3, <2>4
  <2>5. CASE page' = [page EXCEPT ![t] = [edition |-> snap[t].edition, status |-> wanted.status]]
    <3>1. page' \in [Tabs -> Pages]
      BY <2>1, <2>3, <2>5
    <3>2. \A u \in Tabs : page'[u].status = IF u = t THEN wanted.status ELSE page[u].status
      BY <2>3, <2>5
    <3> QED
      BY <1>8, <2>3, <3>1, <3>2
  <2> QED
    BY <2>2, <2>4, <2>5
<1>11. TypeOK'
  <2>1. Unread \in Reads
    BY DEF Unread, NoSheet, Reads, Sheets
  <2> QED
    BY <1>0, <1>3, <1>9, <1>10, <2>1 DEF TypeOK
<1>12. Reading' /\ Regrading' /\ Slipped' /\ ReadBefore'
  BY <1>0, <1>3, <1>8 DEF TypeOK, Reading, Regrading, Slipped, ReadBefore
<1>13. SheetNeedsPaper' /\ SubmittedViewIsTrue' /\ Publishing'
  BY <1>0, <1>3, <1>5, <1>10
  DEF TypeOK, Papers, SheetNeedsPaper, SubmittedViewIsTrue, Submitted, Publishing
<1>14. FirstEdition'
  <2> SUFFICES ASSUME paper.edition <= 1
               PROVE  /\ One(sheet')
                      /\ \A u \in Tabs : op'[u] # "none" => One(snap'[u].sheet)
                      /\ \A a \in Admins : adm[a].op = "regrade" => One(adm[a].sheet)
    BY <1>3 DEF FirstEdition, One
  <2>1. One(sheet) /\ One(read)
    BY <1>0, <1>3 DEF FirstEdition, read
  <2>2. Single(sheet'.rows)
    BY <1>4, <1>5, <1>6, <2>1, WrittenSingle
  <2>3. One(sheet')
    BY <1>8, <2>2 DEF One
  <2>4. \A u \in Tabs : op'[u] # "none" => op[u] # "none" /\ snap'[u] = snap[u]
    BY <1>0, <1>3 DEF TypeOK
  <2> QED
    BY <1>0, <2>3, <2>4 DEF FirstEdition
<1> QED
  BY <1>8, <1>11, <1>12, <1>13, <1>14 DEF IInv

LEMMA FailIInv == ASSUME IInv, NEW t \in Tabs, SaveSheetFails(t) PROVE IInv'
<1>1. UNCHANGED <<paper, sheet, page, answers, adm, slips>>
      /\ op' = [op EXCEPT ![t] = "none"] /\ snap' = [snap EXCEPT ![t] = Unread]
  BY DEF SaveSheetFails, Done
<1>2. Unread \in Reads
  BY ExamAssumption DEF Unread, NoSheet, Reads, Sheets
<1>3. TypeOK'
  BY <1>1, <1>2 DEF IInv, TypeOK
<1>4. \A u \in Tabs : op'[u] # "none" => op[u] # "none" /\ snap'[u] = snap[u]
  BY <1>1 DEF IInv, TypeOK
<1>5. Reading' /\ FirstEdition'
  BY <1>1, <1>4 DEF IInv, Reading, FirstEdition
<1>6. Regrading' /\ Slipped' /\ ReadBefore' /\ SheetNeedsPaper' /\ SubmittedViewIsTrue'
      /\ Publishing'
  BY <1>1
  DEF IInv, Publishing, Regrading, Slipped, ReadBefore, SheetNeedsPaper, SubmittedViewIsTrue, Submitted
<1> QED
  BY <1>3, <1>5, <1>6 DEF IInv

\* An admin reads: nothing is submitted when a save begins, and the copy of the
\* sheet that is marked again is the sheet.
LEMMA BeginIInv ==
  ASSUME IInv, NEW a \in Admins, ReadForSave(a) \/ ReadForPublish(a) \/ ReadForRegrade(a)
  PROVE  IInv'
<1> USE ExamAssumption DEF IInv
<1>1. PICK o \in {"save", "publish", "regrade"}, e \in {0, paper.edition}, p \in BOOLEAN,
           s \in {NoSheet, sheet} :
        /\ adm' = [adm EXCEPT ![a] = [op |-> o, edition |-> e, published |-> p, sheet |-> s]]
        /\ o = "save" => sheet.status # "Submitted"
        /\ o = "publish" => paper.edition # 0
        /\ o = "regrade" => s = sheet /\ sheet.status = "Submitted"
  BY DEF ReadForSave, ReadForPublish, ReadForRegrade, Begin, TypeOK, Papers
<1>2. UNCHANGED <<paper, sheet, slips, tabVars>>
  BY DEF ReadForSave, ReadForPublish, ReadForRegrade, Begin
<1>3. TypeOK'
  <2>1. NoSheet \in Sheets /\ sheet \in Sheets /\ e \in 0..MaxSaves
    BY DEF NoSheet, Sheets, TypeOK, Papers
  <2> QED
    BY <1>1, <1>2, <2>1 DEF TypeOK, tabVars
<1>4. Reading' /\ SheetNeedsPaper' /\ SubmittedViewIsTrue'
  BY <1>2 DEF Reading, SheetNeedsPaper, SubmittedViewIsTrue, Submitted, tabVars
<1>5. ReadBefore'
  BY <1>1, <1>2 DEF ReadBefore, TypeOK, Papers
<1>6. Regrading' /\ Slipped' /\ Publishing'
  BY <1>1, <1>2 DEF Regrading, Slipped, Publishing, TypeOK
<1>7. FirstEdition'
  <2>1. \A b \in Admins : adm'[b].op = "regrade" => adm'[b].sheet = sheet \/ adm'[b] = adm[b]
    BY <1>1 DEF TypeOK
  <2> QED
    BY <1>2, <2>1 DEF FirstEdition, tabVars
<1> QED
  BY <1>3, <1>4, <1>5, <1>6, <1>7

LEMMA CalmAdmin ==
  ASSUME TypeOK, NEW a \in Admins, adm' = [adm EXCEPT ![a] = Calm]
  PROVE  /\ \A b \in Admins : b # a => adm'[b] = adm[b]
         /\ adm'[a] = Calm /\ Calm.op = "none" /\ Calm.edition = 0
         /\ adm' \in [Admins -> [op : {"none", "save", "publish", "regrade"},
                                 edition : 0..MaxSaves, published : BOOLEAN, sheet : Sheets]]
<1>1. Calm \in [op : {"none", "save", "publish", "regrade"}, edition : 0..MaxSaves,
                published : BOOLEAN, sheet : Sheets]
  BY ExamAssumption DEF Calm, NoSheet, Sheets
<1>2. adm \in [Admins -> [op : {"none", "save", "publish", "regrade"}, edition : 0..MaxSaves,
                          published : BOOLEAN, sheet : Sheets]]
  BY DEF TypeOK
<1>3. Calm.op = "none" /\ Calm.edition = 0
  BY DEF Calm
<1>4. \A b \in Admins : b # a => adm'[b] = adm[b]
  BY <1>2
<1>5. adm'[a] = Calm
  BY <1>2
<1>6. adm' \in [Admins -> [op : {"none", "save", "publish", "regrade"}, edition : 0..MaxSaves,
                           published : BOOLEAN, sheet : Sheets]]
  BY <1>1, <1>2
<1> QED
  BY <1>3, <1>4, <1>5, <1>6

\* The save that slips in is the only one: whoever passed the check before has
\* read the questions that it deletes.
LEMMA SavePaperIInv ==
  ASSUME IInv, NEW a \in Admins, SavePaper(a)
  PROVE  IInv' /\ sheet'.status = sheet.status
<1> USE ExamAssumption DEF IInv
<1>1. /\ adm[a].op = "save" /\ adm[a].edition = paper.edition /\ paper.edition < MaxSaves
      /\ paper'.edition = paper.edition + 1 /\ paper' \in Papers
      /\ sheet' = [sheet EXCEPT !.rows = {}] /\ adm' = [adm EXCEPT ![a] = Calm]
      /\ slips' = IF sheet.status = "Submitted" THEN slips + 1 ELSE slips
      /\ UNCHANGED tabVars
  <2>1. paper.edition \in 0..MaxSaves /\ paper.published \in BOOLEAN
    BY DEF TypeOK, Papers
  <2>2. Column(paper.published, adm[a].published, FALSE) \in BOOLEAN
    BY <2>1, Zenon DEF Column
  <2>3. paper.edition < MaxSaves => paper.edition + 1 \in 0..MaxSaves
    BY <2>1
  <2>4. paper.edition < MaxSaves => paper' \in Papers
    BY <2>2, <2>3, Zenon DEF SavePaper, Papers
  <2> QED
    BY <2>4 DEF SavePaper
<1>2. paper.edition \in 0..MaxSaves /\ sheet \in Sheets
  BY DEF TypeOK, Papers
<1>3. sheet' \in Sheets /\ sheet'.status = sheet.status /\ sheet'.score = sheet.score
      /\ sheet'.rows = {}
  BY <1>1, <1>2 DEF Sheets
<1>4. /\ \A b \in Admins : b # a => adm'[b] = adm[b]
      /\ adm'[a] = Calm /\ Calm.op = "none" /\ Calm.edition = 0
      /\ adm' \in [Admins -> [op : {"none", "save", "publish", "regrade"},
                              edition : 0..MaxSaves, published : BOOLEAN, sheet : Sheets]]
  BY <1>1, CalmAdmin
<1>5. slips = 0 /\ slips' \in {0, 1}
  BY <1>1, <1>2 DEF Slipped
<1>6. TypeOK'
  <2>1. paper'.edition # 0
    BY <1>1, <1>2
  <2> QED
    BY <1>1, <1>3, <1>4, <1>5, <2>1 DEF TypeOK, tabVars
<1>7. Reading'
  BY <1>1, <1>2, <1>3 DEF Reading, tabVars
<1>8. ReadBefore'
  <2>1. \A b \in Admins : adm[b].edition \in 0..MaxSaves
    BY DEF TypeOK
  <2> QED
    BY <1>1, <1>2, <1>4, <2>1 DEF ReadBefore
<1>9. Slipped'
  <2>1. \A b \in Admins : adm'[b].op = "save" => adm'[b].edition < paper'.edition
    <3>1. \A b \in Admins : adm[b].edition \in 0..MaxSaves
      BY DEF TypeOK
    <3> QED
      BY <1>1, <1>2, <1>4, <3>1 DEF ReadBefore
  <2> QED
    BY <1>1, <1>3, <1>5, <2>1 DEF Slipped
<1>10. Regrading' /\ SheetNeedsPaper' /\ SubmittedViewIsTrue' /\ Publishing'
  BY <1>1, <1>2, <1>3, <1>4
  DEF Publishing, Regrading, SheetNeedsPaper, SubmittedViewIsTrue, Submitted, tabVars
<1>11. FirstEdition'
  \* The first edition is saved while there is no sheet and nobody has read one.
  <2> SUFFICES ASSUME paper'.edition <= 1 PROVE FirstEdition'
    BY DEF FirstEdition
  <2>1. paper.edition = 0 /\ sheet.status = "none"
    BY <1>1, <1>2 DEF SheetNeedsPaper
  <2>2. \A t \in Tabs : op[t] = "none"
    BY <2>1 DEF Reading
  <2>3. \A b \in Admins : adm[b].op # "regrade"
    BY <2>1 DEF Regrading
  <2> QED
    BY <1>1, <1>3, <1>4, <2>1, <2>2, <2>3 DEF FirstEdition, One, tabVars
<1> QED
  BY <1>3, <1>6, <1>7, <1>8, <1>9, <1>10, <1>11

LEMMA PublishIInv ==
  ASSUME IInv, NEW a \in Admins, PublishPaper(a) \/ AdminFails(a)
  PROVE  IInv'
<1> USE ExamAssumption DEF IInv
<1>1. /\ adm' = [adm EXCEPT ![a] = Calm] /\ UNCHANGED <<sheet, slips, tabVars>>
      /\ paper' \in Papers /\ paper'.edition = paper.edition
  BY DEF PublishPaper, AdminFails, TypeOK, Papers, Column
<1>2. /\ \A b \in Admins : b # a => adm'[b] = adm[b]
      /\ adm'[a] = Calm /\ Calm.op = "none" /\ Calm.edition = 0
      /\ adm' \in [Admins -> [op : {"none", "save", "publish", "regrade"},
                              edition : 0..MaxSaves, published : BOOLEAN, sheet : Sheets]]
  BY <1>1, CalmAdmin
<1>3. paper'.published => paper'.edition # 0
  BY DEF PublishPaper, AdminFails, TypeOK, Papers, Publishing
<1>4. TypeOK'
  BY <1>1, <1>2, <1>3 DEF TypeOK, tabVars
<1>5. Reading' /\ SheetNeedsPaper' /\ SubmittedViewIsTrue'
  BY <1>1 DEF Reading, SheetNeedsPaper, SubmittedViewIsTrue, Submitted, tabVars
<1>6. Regrading' /\ Publishing' /\ Slipped'
  BY <1>1, <1>2 DEF Regrading, Publishing, Slipped
<1>7. ReadBefore'
  BY <1>1, <1>2 DEF ReadBefore, TypeOK, Papers
<1>8. FirstEdition'
  BY <1>1, <1>2 DEF FirstEdition, tabVars
<1> QED
  BY <1>4, <1>5, <1>6, <1>7, <1>8

LEMMA RegradeIInv ==
  ASSUME IInv, NEW a \in Admins, Regrade(a)
  PROVE  IInv' /\ (sheet.status = "Submitted" => sheet'.status = "Submitted")
<1> USE ExamAssumption
<1> DEFINE read == adm[a].sheet
           wanted == Grade(adm[a].sheet.rows)
<1>0. /\ TypeOK /\ Reading /\ Regrading /\ Slipped /\ ReadBefore /\ SheetNeedsPaper
      /\ Publishing /\ FirstEdition /\ SubmittedViewIsTrue
  BY DEF IInv
<1>1. /\ adm[a].op = "regrade" /\ Saves(read, wanted, adm[a].edition)
      /\ sheet' = Written(read, wanted) /\ adm' = [adm EXCEPT ![a] = Calm]
      /\ UNCHANGED <<paper, slips, tabVars>>
  BY DEF Regrade
<1>2. read \in Sheets /\ sheet \in Sheets /\ read.status = "Submitted"
      /\ sheet.status = "Submitted"
  BY <1>0, <1>1 DEF TypeOK, Regrading
<1>3. wanted \in Sheets /\ wanted.status = "Submitted"
      /\ (Single(read.rows) => Single(wanted.rows))
  BY <1>2, GradedSheet DEF Sheets
<1>4. /\ \A b \in Admins : b # a => adm'[b] = adm[b]
      /\ adm'[a] = Calm /\ Calm.op = "none" /\ Calm.edition = 0
      /\ adm' \in [Admins -> [op : {"none", "save", "publish", "regrade"},
                              edition : 0..MaxSaves, published : BOOLEAN, sheet : Sheets]]
  BY <1>0, <1>1, CalmAdmin
<1> HIDE DEF read, wanted
<1>5. sheet' \in Sheets /\ sheet'.status = "Submitted"
  <2>1. sheet' \in Sheets
    BY <1>1, <1>2, <1>3, WrittenSheet
  <2>2. sheet'.status = Column(sheet.status, read.status, wanted.status)
    BY <1>1 DEF Written
  <2> QED
    BY <1>2, <1>3, <2>1, <2>2 DEF Column
<1>6. TypeOK'
  BY <1>0, <1>1, <1>4, <1>5 DEF TypeOK, tabVars
<1>7. Reading' /\ SheetNeedsPaper' /\ SubmittedViewIsTrue'
  BY <1>0, <1>1, <1>2, <1>5
  DEF Reading, SheetNeedsPaper, SubmittedViewIsTrue, Submitted, tabVars
<1>8. Regrading' /\ Publishing' /\ Slipped'
  BY <1>0, <1>1, <1>4, <1>5 DEF Regrading, Publishing, Slipped
<1>9. ReadBefore'
  BY <1>0, <1>1, <1>4 DEF ReadBefore, TypeOK, Papers
<1>10. FirstEdition'
  <2> SUFFICES ASSUME paper.edition <= 1 PROVE FirstEdition'
    BY <1>1 DEF FirstEdition
  <2>1. One(sheet) /\ One(read)
    BY <1>0, <1>1 DEF FirstEdition, read
  <2>2. Single(sheet'.rows)
    BY <1>1, <1>2, <1>3, <2>1, WrittenSingle DEF One
  <2>3. One(sheet')
    BY <1>5, <2>2 DEF One
  <2>4. (\A t \in Tabs : op'[t] # "none" => One(snap'[t].sheet))
        /\ \A b \in Admins : adm'[b].op = "regrade" => One(adm'[b].sheet)
    BY <1>0, <1>1, <1>4 DEF FirstEdition, tabVars
  <2> QED
    BY <2>3, <2>4 DEF FirstEdition, One
<1> QED
  BY <1>5, <1>6, <1>7, <1>8, <1>9, <1>10 DEF IInv

LEMMA NextIInv ==
  IInv /\ [Next]_vars => IInv' /\ (sheet.status = "Submitted" => sheet'.status = "Submitted")
<1> SUFFICES ASSUME IInv, [Next]_vars
             PROVE  IInv' /\ (sheet.status = "Submitted" => sheet'.status = "Submitted")
  OBVIOUS
<1>1. ASSUME NEW t \in Tabs, TabNext(t)
      PROVE  IInv' /\ (sheet.status = "Submitted" => sheet'.status = "Submitted")
  <2>1. CASE Load(t) \/ LoadFails(t) \/ \E c \in Choices \cup {Blank} : Choose(t, c)
    BY <2>1, PageIInv DEF Load, LoadFails, Choose
  <2>2. CASE SaveDraft(t) \/ Submit(t)
    BY <2>2, ReadIInv DEF SaveDraft, Submit, ReadSheet
  <2>3. CASE SaveSheet(t)
    BY <2>3, SaveIInv
  <2>4. CASE SaveSheetFails(t)
    BY <2>4, FailIInv DEF SaveSheetFails
  <2> QED
    BY <1>1, <2>1, <2>2, <2>3, <2>4 DEF TabNext
<1>2. ASSUME NEW a \in Admins, AdminNext(a)
      PROVE  IInv' /\ (sheet.status = "Submitted" => sheet'.status = "Submitted")
  <2>1. CASE ReadForSave(a) \/ ReadForPublish(a) \/ ReadForRegrade(a)
    BY <2>1, BeginIInv DEF ReadForSave, ReadForPublish, ReadForRegrade, Begin
  <2>2. CASE SavePaper(a)
    BY <2>2, SavePaperIInv
  <2>3. CASE PublishPaper(a) \/ AdminFails(a)
    BY <2>3, PublishIInv DEF PublishPaper, AdminFails
  <2>4. CASE Regrade(a)
    BY <2>4, RegradeIInv
  <2> QED
    BY <1>2, <2>1, <2>2, <2>3, <2>4 DEF AdminNext
<1>3. CASE UNCHANGED vars
  <2>1. TypeOK' /\ Reading' /\ Regrading' /\ Slipped' /\ ReadBefore' /\ SheetNeedsPaper'
    BY <1>3 DEF IInv, vars, TypeOK, Reading, Regrading, Slipped, ReadBefore, SheetNeedsPaper
  <2>2. Publishing' /\ FirstEdition' /\ SubmittedViewIsTrue'
    BY <1>3 DEF IInv, vars, Publishing, FirstEdition, SubmittedViewIsTrue, Submitted
  <2> QED
    BY <1>3, <2>1, <2>2 DEF IInv, vars
<1> QED
  BY <1>1, <1>2, <1>3 DEF Next

THEOREM Invariance == Spec => []IInv
<1>1. IInv /\ [Next]_vars => IInv'
  BY NextIInv
<1> QED
  BY InitIInv, <1>1, PTL DEF Spec

\* The types; and only what was saved is published, only what was submitted has a
\* score (TheoryExamService.Grade).
THEOREM TypeCorrect == Spec => []TypeOK
<1>1. IInv => TypeOK
  BY DEF IInv
<1> QED
  BY Invariance, <1>1, PTL

\* A submitted sheet stays submitted, for any number of tabs that save drafts read
\* before (TheoryPlayerController.SaveDraft).
THEOREM SubmittedForGood == Spec => StaysSubmitted
<1>1. IInv /\ [Next]_vars =>
        [sheet.status = "Submitted" => sheet'.status = "Submitted"]_sheet
  BY NextIInv
<1> QED
  BY Invariance, <1>1, PTL DEF Spec, StaysSubmitted

\* A page that says so shows a sheet that is submitted (Theory.tsx).
THEOREM ViewIsTrue == Spec => []SubmittedViewIsTrue
<1>1. IInv => SubmittedViewIsTrue
  BY DEF IInv
<1> QED
  BY Invariance, <1>1, PTL

\* However many admins save, one save at most slips in after a submission
\* (TheoryAdminController.SavePaper).
THEOREM OnlyOneSlips == Spec => []OneSaveSlipsIn
<1>1. IInv => OneSaveSlipsIn
  BY DEF IInv, Slipped, OneSaveSlipsIn
<1> QED
  BY Invariance, <1>1, PTL

\* Without a second edition no question is answered twice, whatever is saved at
\* once (TheoryExamService.ApplyAnswers).
THEOREM FirstEditionIsSingle == Spec => []DuplicatesNeedRepublish
<1>1. IInv => DuplicatesNeedRepublish
  BY DEF IInv, FirstEdition, DuplicatesNeedRepublish, One, Single
<1> QED
  BY Invariance, <1>1, PTL
=============================================================================
