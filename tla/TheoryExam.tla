----------------------------- MODULE TheoryExam -----------------------------
(***************************************************************************)
(* The theory exam of one player: the page of Theory.tsx, open in several  *)
(* tabs, TheoryPlayerController behind it, and the paper, which admins     *)
(* save, publish and regrade through TheoryAdminController.                *)
(*                                                                         *)
(* The answer sheet has no concurrency token.  A request reads the paper   *)
(* and the sheet (snap), computes the sheet it wants and saves: EF writes  *)
(* the columns in which the two differ, wherever the row stands by then,   *)
(* and throws when a row it updates or deletes is gone, when the sheet it  *)
(* inserts exists (UserId, GameId are unique) or when a question it refers *)
(* to was deleted.  Every save of the paper deletes its questions, and the *)
(* answers with them, and inserts new ones: an edition.                    *)
(*                                                                         *)
(* An edition has one question, whose score is 1.  Ids of answer rows are  *)
(* taken again once nobody remembers them.  Reading the paper and reading  *)
(* the sheet are one step: an edition saved in between makes the request   *)
(* fail, as it does when it is saved later.                                *)
(***************************************************************************)
EXTENDS Naturals

CONSTANTS Tabs, Admins,
          Choices,     \* what can be selected
          Right,       \* the answer
          Blank,       \* nothing selected
          Missing,     \* a question the page has no entry for
          RowIds,      \* ids of TheorySubmissionAnswer
          MaxSaves     \* bound: how often the paper is saved; nobody opens the last edition

ASSUME ExamAssumption ==
    /\ Right \in Choices /\ Blank \notin Choices
    /\ Missing \notin Choices \cup {Blank}
    /\ MaxSaves \in Nat \ {0}

VARIABLES
    paper,     \* TheoryPapers: the edition of its questions, 0 for none, and IsPublished
    sheet,     \* TheoryAnswerSheets: Status ("none": no row), Score and the answer rows
    page,      \* what each tab shows
    answers,   \* the selections of each tab, by edition of the question
    op,        \* what the request of each tab asks for, "none" if there is none
    snap,      \* the sheet and the edition it has read
    adm,       \* the request of each admin, with what it has read
    slips      \* saves of the paper since the sheet was submitted (history)

vars == <<paper, sheet, page, answers, op, snap, adm, slips>>
tabVars == <<page, answers, op, snap>>

Editions == 1..MaxSaves
Rows == [id : RowIds, choice : Choices \cup {Blank}, verdict : {"none", "right", "wrong"}]
Sheets == [status : {"none", "Draft", "Submitted"}, score : {0, 1}, rows : SUBSET Rows]
NoSheet == [status |-> "none", score |-> 0, rows |-> {}]
NoPage == [edition |-> 0, status |-> "none"]
Unread == [edition |-> 0, sheet |-> NoSheet]
Calm == [op |-> "none", edition |-> 0, published |-> FALSE, sheet |-> NoSheet]

Init ==
    /\ paper = [edition |-> 0, published |-> FALSE]
    /\ sheet = NoSheet
    /\ page = [t \in Tabs |-> NoPage]
    /\ answers = [t \in Tabs |-> [e \in Editions |-> Missing]]
    /\ op = [t \in Tabs |-> "none"]
    /\ snap = [t \in Tabs |-> Unread]
    /\ adm = [a \in Admins |-> Calm]
    /\ slips = 0

-----------------------------------------------------------------------------
(* What the context of a request does with the sheet                       *)

Ids(rows) == {r.id : r \in rows}

\* Ids that no row and no request knows.
FreshIds ==
    RowIds \ (Ids(sheet.rows) \cup UNION {Ids(snap[t].sheet.rows) : t \in Tabs}
                              \cup UNION {Ids(adm[a].sheet.rows) : a \in Admins})

Plain(i, c) == [id |-> i, choice |-> c, verdict |-> "none"]

\* ApplyAnswers: rows of questions that were not sent are removed, every question
\* has a row afterwards (i is new); of several, the one loaded first is changed.
ApplyAnswers(rows, sent, i) ==
    IF sent = Missing THEN {{Plain(i, Blank)}}
    ELSE IF rows = {} THEN {{Plain(i, sent)}}
    ELSE {(rows \ {r}) \cup {Plain(r.id, sent)} : r \in rows}

Marked(r) == [r EXCEPT !.verdict = IF r.choice = Right THEN "right" ELSE "wrong"]

\* ToDictionary throws when two rows answer the same question.
Gradable(rows) == \A r1, r2 \in rows : r1 = r2

Grade(rows) ==
    LET marked == {Marked(r) : r \in rows}
    IN  [status |-> "Submitted", rows |-> marked,
         score |-> IF \E r \in marked : r.verdict = "right" THEN 1 ELSE 0]

\* A column is written when its value is not the one that was read.
Column(current, read, wanted) == IF wanted # read THEN wanted ELSE current

RowOf(rows, i) == CHOOSE r \in rows : r.id = i

Merged(row, read, wanted) ==
    [id |-> row.id,
     choice |-> Column(row.choice, read.choice, wanted.choice),
     verdict |-> Column(row.verdict, read.verdict, wanted.verdict)]

\* Mutant: (UserId, GameId) is not unique, the sheet is inserted or updated.
BadSaves(read, wanted, edition) ==
    /\ \A r \in read.rows \ wanted.rows : r.id \in Ids(sheet.rows)
    /\ ~(Ids(wanted.rows) \subseteq Ids(read.rows)) => edition = paper.edition

\* SaveChanges goes through: the rows it updates or deletes are there, the
\* questions its new rows refer to as well, and it inserts no second sheet.
Saves(read, wanted, edition) ==
    /\ \A r \in read.rows \ wanted.rows : r.id \in Ids(sheet.rows)
    /\ ~(Ids(wanted.rows) \subseteq Ids(read.rows)) => edition = paper.edition
    /\ read.status = "none" => sheet.status = "none"

\* A row of the table after the save, if it was not deleted.
Updated(row, read, wanted) ==
    IF row.id \in Ids(read.rows)
      THEN Merged(row, RowOf(read.rows, row.id), RowOf(wanted.rows, row.id))
      ELSE row

\* The sheet after the save of somebody who read one and wants another.
Written(read, wanted) ==
    [status |-> Column(sheet.status, read.status, wanted.status),
     score  |-> Column(sheet.score, read.score, wanted.score),
     rows   |-> {Updated(r, read, wanted) :
                   r \in {x \in sheet.rows : x.id \in Ids(read.rows) => x.id \in Ids(wanted.rows)}}
                \cup {r \in wanted.rows : r.id \notin Ids(read.rows)}]

-----------------------------------------------------------------------------
(* The page                                                                *)

\* GetPublishedPaper, up to the bound.
Published == paper.published /\ paper.edition < MaxSaves

Submitted(t) == page[t].status = "Submitted"

\* loadPaper: the paper is published, and the selections become those of the sheet.
\* Of several rows for the question one decides.
Load(t) ==
    /\ op[t] = "none" /\ Published
    /\ page' = [page EXCEPT ![t] = [edition |-> paper.edition, status |-> sheet.status]]
    /\ \E c \in IF sheet.rows = {} THEN {Missing} ELSE {r.choice : r \in sheet.rows} :
          answers' = [answers EXCEPT ![t] =
                        [e \in Editions |-> IF e = paper.edition THEN c ELSE Missing]]
    /\ UNCHANGED <<paper, sheet, op, snap, adm, slips>>

\* A reload while no paper is published leaves an empty page.
LoadFails(t) ==
    /\ op[t] = "none" /\ ~Published
    /\ page' = [page EXCEPT ![t] = NoPage]
    /\ answers' = [answers EXCEPT ![t] = [e \in Editions |-> Missing]]
    /\ UNCHANGED <<paper, sheet, op, snap, adm, slips>>

\* What can be clicked: everything is disabled while loading and once submitted.
Open(t) == op[t] = "none" /\ page[t].edition # 0 /\ ~Submitted(t)

\* TheoryQuestionCard.onChange.
Choose(t, c) ==
    /\ Open(t)
    /\ answers' = [answers EXCEPT ![t][page[t].edition] = c]
    /\ UNCHANGED <<paper, sheet, page, op, snap, adm, slips>>

-----------------------------------------------------------------------------
(* TheoryPlayerController.SaveDraft and Submit.  Nothing of the tab changes *)
(* while its request is under way: the click and the reads are one step,   *)
(* and so are the save and the response.  A request that is refused (not   *)
(* published, submitted, an unknown question) changes nothing, the page    *)
(* keeps what it shows.                                                    *)

\* A selection for a question the paper does not have.
Unknown(t) == \E e \in Editions : e # paper.edition /\ answers[t][e] # Missing

\* Mutant: the status of the sheet is not looked at.
BadRefused(t) == ~Published \/ Unknown(t)

Refused(t) == ~Published \/ sheet.status = "Submitted" \/ Unknown(t)

ReadSheet(t, o) ==
    /\ Open(t) /\ ~Refused(t)
    /\ op' = [op EXCEPT ![t] = o]
    /\ snap' = [snap EXCEPT ![t] = [edition |-> paper.edition, sheet |-> sheet]]
    /\ UNCHANGED <<paper, sheet, page, answers, adm, slips>>

SaveDraft(t) == ReadSheet(t, "draft")
Submit(t) == ReadSheet(t, "submit")

Done(t) ==
    /\ op' = [op EXCEPT ![t] = "none"]
    /\ snap' = [snap EXCEPT ![t] = Unread]

\* The sheet a request wants.
Wanted(t, rows) ==
    IF op[t] = "draft"
      THEN [status |-> "Draft", score |-> snap[t].sheet.score, rows |-> rows]
      ELSE Grade(rows)

\* The page takes the paper of the response, unless that is lost, and leaves the
\* selections as they are.
SaveSheet(t) ==
    /\ op[t] # "none"
    /\ \E i \in FreshIds :
       \E rows \in ApplyAnswers(snap[t].sheet.rows, answers[t][snap[t].edition], i) :
          /\ op[t] = "submit" => Gradable(rows)
          /\ Saves(snap[t].sheet, Wanted(t, rows), snap[t].edition)
          /\ sheet' = Written(snap[t].sheet, Wanted(t, rows))
          /\ \/ page' = [page EXCEPT ![t] = [edition |-> snap[t].edition,
                                            status |-> Wanted(t, rows).status]]
             \/ page' = page
    /\ Done(t)
    /\ UNCHANGED <<paper, answers, adm, slips>>

\* Mutant: the exception of a submission is caught and answered with the sheet.
BadSaveSheetFails(t) ==
    /\ op[t] # "none"
    /\ Done(t)
    /\ page' = IF op[t] = "submit"
                 THEN [page EXCEPT ![t] = [edition |-> snap[t].edition, status |-> "Submitted"]]
                 ELSE page
    /\ UNCHANGED <<paper, sheet, answers, adm, slips>>

\* The save throws, or the client is gone when it would start; the page shows the
\* error and keeps what it has.
SaveSheetFails(t) ==
    /\ op[t] # "none"
    /\ Done(t)
    /\ UNCHANGED <<paper, sheet, page, answers, adm, slips>>

-----------------------------------------------------------------------------
(* TheoryAdminController; the buttons of an admin's pages are disabled     *)
(* while a request is under way                                            *)

Free(a) == adm[a].op = "none"

\* A request begins; it remembers of what it read what it uses afterwards.
Begin(a, o, e, p, s) ==
    /\ Free(a)
    /\ adm' = [adm EXCEPT ![a] = [op |-> o, edition |-> e, published |-> p, sheet |-> s]]
    /\ UNCHANGED <<paper, sheet, slips, tabVars>>

\* Both checks of SavePaper: the paper is read, no sheet is submitted.
ReadForSave(a) ==
    /\ sheet.status # "Submitted"
    /\ Begin(a, "save", paper.edition, paper.published, NoSheet)

\* Mutant: the questions of the paper are deleted, whichever they are by now.
BadSavePaper(a) ==
    /\ adm[a].op = "save" /\ paper.edition < MaxSaves
    /\ paper' = [edition |-> paper.edition + 1,
                 published |-> Column(paper.published, adm[a].published, FALSE)]
    /\ sheet' = [sheet EXCEPT !.rows = {}]
    /\ slips' = IF sheet.status = "Submitted" THEN slips + 1 ELSE slips
    /\ adm' = [adm EXCEPT ![a] = Calm]
    /\ UNCHANGED tabVars

\* The questions that were read are deleted, with the answers to them.
SavePaper(a) ==
    /\ adm[a].op = "save" /\ adm[a].edition = paper.edition /\ paper.edition < MaxSaves
    /\ paper' = [edition |-> paper.edition + 1,
                 published |-> Column(paper.published, adm[a].published, FALSE)]
    /\ sheet' = [sheet EXCEPT !.rows = {}]
    /\ slips' = IF sheet.status = "Submitted" THEN slips + 1 ELSE slips
    /\ adm' = [adm EXCEPT ![a] = Calm]
    /\ UNCHANGED tabVars

\* Mutant: an empty paper is published.
BadReadForPublish(a) == Begin(a, "publish", 0, paper.published, NoSheet)

ReadForPublish(a) ==
    /\ paper.edition # 0
    /\ Begin(a, "publish", 0, paper.published, NoSheet)

PublishPaper(a) ==
    /\ adm[a].op = "publish"
    /\ paper' = [paper EXCEPT !.published = Column(paper.published, adm[a].published, TRUE)]
    /\ adm' = [adm EXCEPT ![a] = Calm]
    /\ UNCHANGED <<sheet, slips, tabVars>>

\* RegradeSubmittedSheets.
ReadForRegrade(a) ==
    /\ sheet.status = "Submitted"
    /\ Begin(a, "regrade", 0, FALSE, sheet)

Regrade(a) ==
    /\ adm[a].op = "regrade" /\ Gradable(adm[a].sheet.rows)
    /\ Saves(adm[a].sheet, Grade(adm[a].sheet.rows), adm[a].edition)
    /\ sheet' = Written(adm[a].sheet, Grade(adm[a].sheet.rows))
    /\ adm' = [adm EXCEPT ![a] = Calm]
    /\ UNCHANGED <<paper, slips, tabVars>>

\* A save throws, or is never started.
AdminFails(a) ==
    /\ ~Free(a)
    /\ adm' = [adm EXCEPT ![a] = Calm]
    /\ UNCHANGED <<paper, sheet, slips, tabVars>>

-----------------------------------------------------------------------------
TabNext(t) ==
    \/ Load(t) \/ LoadFails(t)
    \/ \E c \in Choices \cup {Blank} : Choose(t, c)
    \/ SaveDraft(t) \/ Submit(t) \/ SaveSheet(t) \/ SaveSheetFails(t)

AdminNext(a) ==
    \/ ReadForSave(a) \/ SavePaper(a) \/ ReadForPublish(a) \/ PublishPaper(a)
    \/ ReadForRegrade(a) \/ Regrade(a) \/ AdminFails(a)

Next == (\E t \in Tabs : TabNext(t)) \/ (\E a \in Admins : AdminNext(a))

Spec == Init /\ [][Next]_vars

-----------------------------------------------------------------------------
Papers == [edition : 0..MaxSaves, published : BOOLEAN]
Pages == [edition : 0..MaxSaves, status : {"none", "Draft", "Submitted"}]
Reads == [edition : 0..MaxSaves, sheet : Sheets]

\* Types.  Only a paper that was saved is published, and a sheet with a score has
\* been submitted.
TypeOK ==
    /\ paper \in Papers /\ (paper.published => paper.edition # 0)
    /\ sheet \in Sheets /\ (sheet.score # 0 => sheet.status = "Submitted")
    /\ page \in [Tabs -> Pages]
    /\ answers \in [Tabs -> [Editions -> Choices \cup {Blank, Missing}]]
    /\ op \in [Tabs -> {"none", "draft", "submit"}]
    /\ snap \in [Tabs -> Reads]
    /\ adm \in [Admins -> [op : {"none", "save", "publish", "regrade"}, edition : 0..MaxSaves,
                           published : BOOLEAN, sheet : Sheets]]
    /\ slips \in 0..MaxSaves

\* A submitted sheet stays submitted, although a draft that was read before the
\* submission is saved after it and its handler assigns Status = Draft: only the
\* change tracking of the context keeps that from being written.
StaysSubmitted == [][sheet.status = "Submitted" => sheet'.status = "Submitted"]_sheet

\* A page says that the sheet is submitted, and closes its buttons, only when it is.
SubmittedViewIsTrue ==
    \A t \in Tabs : Submitted(t) => sheet.status = "Submitted"

\* While the paper is in its first edition a question has one answer row, whatever
\* tabs save at once: no index says so, and a second row makes every later
\* submission throw.
DuplicatesNeedRepublish ==
    paper.edition <= 1 => \A r1, r2 \in sheet.rows : r1 = r2

\* "Published paper with submissions cannot be edited": a save of the paper that
\* has passed this check may still slip in after a submission, but only one may,
\* however many admins are saving.
OneSaveSlipsIn == slips <= 1

\* Does not hold: the answers of a submitted sheet change when a draft read before the
\* submission is saved after it.
AnswersAreFinal ==
    [][sheet.status = "Submitted" /\ sheet.rows # {} /\ sheet'.rows # {} =>
          {r.choice : r \in sheet'.rows} = {r.choice : r \in sheet.rows}]_sheet
=============================================================================
