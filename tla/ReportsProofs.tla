---------------------------- MODULE ReportsProofs ----------------------------
(***************************************************************************)
(* Proofs about Reports, for any number of overlapping requests and of     *)
(* writes to the report.                                                   *)
(***************************************************************************)
EXTENDS Reports, TLAPS

-----------------------------------------------------------------------------
(* The inductive invariant.                                                *)

\* Only a create finds no report: none is ever removed.
FoundInv ==
  \A r \in Requests :
    req[r].at = "checked" /\ req[r].op # "create" => report # NoReport

\* What a request has checked still holds while the edition it read is the current one.
FitsReport(op) ==
  /\ op \in {"update", "sign"} => Exists /\ report.status \in EDITABLE_STATUSES
  /\ op = "submit" => Exists /\ report.status \in EDITABLE_STATUSES /\ Substantial
  /\ op \in {"approve", "reject"} => Exists /\ report.status = "SUBMITTED"
  /\ op = "archive" => Exists

SnapshotInv ==
  \A r \in Requests :
    req[r].at = "checked" /\ req[r].edition = report.edition => FitsReport(req[r].op)

\* A PDF made for a report that was with the office is at least as new as what was read.
RenderedInv ==
  \A r \in Requests :
    req[r].at \in {"rendered", "served"} /\ req[r].status \in {"SUBMITTED", "APPROVED"} =>
      req[r].got >= req[r].edition

Inv ==
  /\ TypeOK
  /\ FoundInv
  /\ SnapshotInv
  /\ RenderedInv
  /\ SubmittedIsSubstantial

-----------------------------------------------------------------------------
(* Lemmas.                                                                 *)

\* A row is told from its absence by its edition, a request from its absence by its state.
LEMMA RowType ==
  /\ NoReport.edition = 0 /\ NoReport.status = "NONE"
  /\ \A row \in Report :
       /\ row # NoReport /\ row.edition \in 1..MaxEdition /\ row.status \in ReportStatus
       /\ row.summary \in BOOLEAN /\ row.services \in BOOLEAN
       /\ row.signed \in BOOLEAN /\ row.archived \in BOOLEAN
BY ReportsAssumption DEF Report, NoReport

LEMMA EditionType ==
  ASSUME TypeOK
  PROVE  report.edition \in 0..MaxEdition /\ report.status \in ReportStatus \cup {"NONE"}
BY ReportsAssumption, RowType DEF TypeOK, NoReport

LEMMA RequestType ==
  /\ Idle.at = "idle" /\ Idle.edition = 0 /\ Idle.got = 0 /\ Idle.app = FALSE
  /\ \A s \in Request :
       /\ s.at # "idle" /\ s.app \in BOOLEAN
       /\ s.edition \in 0..MaxEdition /\ s.got \in 0..MaxEdition
BY DEF Idle, Request

\* The request of which only r changes.
LEMMA OthersStay ==
  ASSUME TypeOK, NEW r \in Requests, NEW s \in Request \cup {Idle}, req' = [req EXCEPT ![r] = s]
  PROVE  /\ req'[r] = s
         /\ \A q \in Requests \ {r} : req'[q] = req[q]
         /\ req' \in [Requests -> Request \cup {Idle}]
BY DEF TypeOK

-----------------------------------------------------------------------------
(* Every step preserves the invariant.                                     *)

LEMMA InitInv == Init => Inv
<1> SUFFICES ASSUME Init
             PROVE  Inv
  OBVIOUS
<1>1. /\ report = NoReport /\ report.edition = 0 /\ report.status = "NONE"
      /\ \A r \in Requests : req[r] = Idle
      /\ req \in [Requests -> {Idle}]
      /\ pdf = 0 /\ overtaken \in BOOLEAN
  BY RowType DEF Init
<1>2. TypeOK
  <2>1. \A r \in Requests : req[r].edition = 0 /\ req[r].got = 0
    BY <1>1, RequestType
  <2> QED
    BY <1>1, <2>1 DEF TypeOK
<1>3. FoundInv /\ SnapshotInv /\ RenderedInv /\ SubmittedIsSubstantial
  BY <1>1, RequestType DEF FoundInv, SnapshotInv, RenderedInv, SubmittedIsSubstantial
<1> QED
  BY <1>2, <1>3 DEF Inv

\* A request that reads and checks, with what it found true of the report it read.
Reads(r, op, app) ==
  /\ req' = [req EXCEPT ![r] = [op |-> op, at |-> "checked", status |-> report.status,
                                edition |-> report.edition, app |-> app, got |-> 0]]
  /\ UNCHANGED <<report, pdf, overtaken>>
  /\ op # "create" => report # NoReport
  /\ FitsReport(op)

LEMMA ReadStep ==
  ASSUME Inv, NEW r \in Requests, NEW op \in Ops, NEW app \in BOOLEAN, Reads(r, op, app)
  PROVE  Inv'
<1> DEFINE s == [op |-> op, at |-> "checked", status |-> report.status,
                 edition |-> report.edition, app |-> app, got |-> 0]
<1>1. s \in Request
  BY ReportsAssumption, EditionType DEF Request, Inv
<1>2. s.op = op /\ s.at = "checked" /\ s.edition = report.edition /\ s.got = 0
  OBVIOUS
<1>3. req' = [req EXCEPT ![r] = s]
  BY DEF Reads
<1> HIDE DEF s
<1>4. /\ req'[r] = s
      /\ \A q \in Requests \ {r} : req'[q] = req[q]
      /\ req' \in [Requests -> Request \cup {Idle}]
  BY <1>1, <1>3, OthersStay DEF Inv
<1>5. /\ UNCHANGED <<report, pdf, overtaken>>
      /\ op # "create" => report # NoReport
      /\ FitsReport(op)
  BY DEF Reads
<1>6. TypeOK'
  BY <1>2, <1>4, <1>5, EditionType DEF Inv, TypeOK
<1>7. FoundInv' /\ RenderedInv' /\ SubmittedIsSubstantial'
  BY <1>2, <1>4, <1>5 DEF Inv, FoundInv, RenderedInv, SubmittedIsSubstantial, Substantial
<1>8. SnapshotInv'
  BY <1>2, <1>4, <1>5 DEF Inv, SnapshotInv, FitsReport, Exists, Substantial
<1> QED
  BY <1>6, <1>7, <1>8 DEF Inv

\* Every first step of a handler is such a read.
LEMMA BeginReads ==
  ASSUME Inv, NEW r \in Requests, Begin(r)
  PROVE  \E op \in Ops, app \in BOOLEAN : Reads(r, op, app)
<1>1. req[r].app \in BOOLEAN
  BY RequestType DEF Inv, TypeOK
<1>2. CASE BeginCreate(r)
  <2>1. Reads(r, "create", req[r].app)
    BY <1>2 DEF BeginCreate, Check, FitsReport, Reads
  <2> QED
    BY <1>1, <2>1 DEF Ops
<1>3. CASE BeginInOneCall(r)
  <2>1. Reads(r, "create", TRUE)
    BY <1>3 DEF BeginInOneCall, FitsReport, Reads
  <2> QED
    BY <2>1 DEF Ops
<1>4. ASSUME NEW op \in {"update", "sign"}, BeginEdit(r, op)
      PROVE  Reads(r, op, req[r].app) /\ op \in Ops
  BY <1>4 DEF BeginEdit, Check, FitsReport, Reads, Exists, Ops
<1>5. CASE BeginSubmit(r)
  <2>1. Reads(r, "submit", req[r].app)
    BY <1>5 DEF BeginSubmit, Check, FitsReport, Reads, Exists
  <2> QED
    BY <1>1, <2>1 DEF Ops
<1>6. CASE BeginReview(r)
  <2>1. Exists /\ report.status \in ReportStatus
    BY <1>6, RowType DEF BeginReview, Exists, Inv, TypeOK
  <2>2. report.status = "SUBMITTED" /\ \E op \in {"approve", "reject"} : Check(r, op)
    BY <1>6, <2>1 DEF BeginReview, REPORT_TRANSITIONS, ReportStatus
  <2>3. ASSUME NEW op \in {"approve", "reject"}, Check(r, op)
        PROVE  Reads(r, op, req[r].app) /\ op \in Ops
    BY <2>1, <2>2, <2>3 DEF Check, FitsReport, Reads, Exists, Ops
  <2> QED
    BY <1>1, <2>2, <2>3
<1>7. CASE BeginArchive(r)
  <2>1. Reads(r, "archive", req[r].app)
    BY <1>7 DEF BeginArchive, Check, FitsReport, Reads, Exists
  <2> QED
    BY <1>1, <2>1 DEF Ops
<1>8. CASE BeginPdf(r)
  <2>1. Reads(r, "pdf", req[r].app)
    BY <1>8 DEF BeginPdf, Check, FitsReport, Reads, Exists
  <2> QED
    BY <1>1, <2>1 DEF Ops
<1> QED
  BY <1>1, <1>2, <1>3, <1>4, <1>5, <1>6, <1>7, <1>8 DEF Begin

\* A request of which only r changes, to one that is waiting for its next step or is done.
LEMMA LeaveStep ==
  ASSUME Inv, NEW r \in Requests, Finish(r), UNCHANGED <<report, pdf, overtaken>>
  PROVE  Inv'
<1>1. /\ req'[r] = Idle
      /\ \A q \in Requests \ {r} : req'[q] = req[q]
      /\ req' \in [Requests -> Request \cup {Idle}]
  BY OthersStay DEF Finish, Inv
<1>2. TypeOK'
  BY <1>1, RequestType, EditionType DEF Inv, TypeOK
<1>3. FoundInv' /\ SnapshotInv' /\ RenderedInv' /\ SubmittedIsSubstantial'
  BY <1>1, RequestType
  DEF Inv, FoundInv, SnapshotInv, RenderedInv, SubmittedIsSubstantial, FitsReport, Exists,
      Substantial
<1> QED
  BY <1>2, <1>3 DEF Inv

\* A write of the row: it becomes a new edition, which no snapshot fits, and the request
\* that wrote it is done or waits for its next step.
LEMMA WriteStep ==
  ASSUME Inv, NEW r \in Requests,
         report' \in Report, report'.edition = report.edition + 1,
         overtaken' \in BOOLEAN, UNCHANGED pdf,
         NEW s \in Request \cup {Idle}, req' = [req EXCEPT ![r] = s],
         s.at \in {"idle", "next"}, s.edition = 0, s.got = 0,
         SubmittedIsSubstantial'
  PROVE  Inv'
<1>2. report.edition \in 0..MaxEdition /\ report'.edition \in 1..MaxEdition
  BY EditionType, RowType DEF Inv
<1>4. /\ req'[r] = s
      /\ \A q \in Requests \ {r} : req'[q] = req[q]
      /\ req' \in [Requests -> Request \cup {Idle}]
  BY OthersStay DEF Inv
<1>5. \A q \in Requests : req'[q].edition < report'.edition /\ req'[q].got < report'.edition
  <2>1. \A q \in Requests : /\ req[q].edition <= report.edition /\ req[q].got <= report.edition
                            /\ req[q].edition \in Nat /\ req[q].got \in Nat
    BY ReportsAssumption, RequestType DEF Inv, TypeOK
  <2> QED
    BY <1>2, <1>4, <2>1
<1>6. TypeOK'
  <2>1. pdf' \in 0..report'.edition
    BY <1>2 DEF Inv, TypeOK
  <2>2. \A q \in Requests : req'[q].edition <= report'.edition /\ req'[q].got <= report'.edition
    <3>1. \A q \in Requests : req'[q].edition \in Nat /\ req'[q].got \in Nat
      BY <1>4, ReportsAssumption, RequestType
    <3> QED
      BY <1>2, <1>5, <3>1
  <2> QED
    BY <1>4, <2>1, <2>2 DEF TypeOK
<1>7. FoundInv'
  BY RowType DEF FoundInv
<1>8. SnapshotInv'
  BY <1>2, <1>4, <1>5, ReportsAssumption, RequestType DEF SnapshotInv
<1>9. RenderedInv'
  BY <1>4 DEF Inv, RenderedInv
<1> QED
  BY <1>6, <1>7, <1>8, <1>9 DEF Inv

\* What a request is after it has written: done, or the app's at its next step.
LEMMA AfterWriting ==
  ASSUME Inv, NEW r \in Requests, NEW op \in Ops, Continue(r, op) \/ Finish(r)
  PROVE  \E s \in Request \cup {Idle} :
           /\ req' = [req EXCEPT ![r] = s]
           /\ s.at \in {"idle", "next"} /\ s.edition = 0 /\ s.got = 0
<1>1. CASE Finish(r)
  BY <1>1, RequestType DEF Finish
<1>2. CASE ~Finish(r)
  <2> DEFINE s == [op |-> op, at |-> "next", status |-> "NONE", edition |-> 0, app |-> TRUE,
                   got |-> 0]
  <2>1. req' = [req EXCEPT ![r] = s]
    BY <1>2 DEF Continue
  <2>3. 0 \in 0..MaxEdition
    BY ReportsAssumption
  <2>4. s \in Request /\ s.at = "next" /\ s.edition = 0 /\ s.got = 0
    BY <2>3 DEF Request
  <2> QED
    BY <2>1, <2>4
<1> QED
  BY <1>1, <1>2

\* The first write of all.
LEMMA CreateWrites ==
  ASSUME Inv, NEW r \in Requests, CommitCreate(r), report = NoReport
  PROVE  Inv'
<1>1. PICK summary \in BOOLEAN :
        Write(r, [status |-> "DRAFT", summary |-> summary, services |-> FALSE,
                  signed |-> FALSE, archived |-> FALSE, edition |-> 0])
  BY DEF CommitCreate
<1>2. /\ report' = [status |-> "DRAFT", summary |-> summary, services |-> FALSE,
                    signed |-> FALSE, archived |-> FALSE, edition |-> report.edition + 1]
      /\ UNCHANGED pdf /\ overtaken' \in BOOLEAN /\ report.edition < MaxEdition
  BY <1>1 DEF Write, Inv, TypeOK
<1>3. report' \in Report /\ report'.edition = report.edition + 1 /\ report'.status = "DRAFT"
  BY <1>2, ReportsAssumption, EditionType DEF Report, ReportStatus, Inv
<1>4. SubmittedIsSubstantial'
  BY <1>3 DEF SubmittedIsSubstantial
<1>5. Continue(r, "update") /\ "update" \in Ops
  BY DEF CommitCreate, Ops
<1>6. PICK s \in Request \cup {Idle} :
        /\ req' = [req EXCEPT ![r] = s]
        /\ s.at \in {"idle", "next"} /\ s.edition = 0 /\ s.got = 0
  BY <1>5, AfterWriting
<1> QED
  BY <1>2, <1>3, <1>4, <1>6, WriteStep

\* A commit that finds a row, and leaves it with substance unless it was overtaken.
LEMMA ChangeStep ==
  ASSUME Inv, NEW r \in Requests, report \in Report,
         report' \in Report, report'.edition = report.edition + 1,
         UNCHANGED pdf, overtaken' = (overtaken \/ req[r].edition # report.edition),
         NEW op \in Ops, Continue(r, op) \/ Finish(r),
         ~overtaken /\ req[r].edition = report.edition =>
           \/ report'.status \notin {"SUBMITTED", "APPROVED"}
           \/ report'.summary \/ report'.services
  PROVE  Inv'
<1>1. overtaken' \in BOOLEAN
  BY DEF Inv, TypeOK
<1>2. SubmittedIsSubstantial'
  BY DEF SubmittedIsSubstantial, Substantial
<1>3. PICK s \in Request \cup {Idle} :
        /\ req' = [req EXCEPT ![r] = s]
        /\ s.at \in {"idle", "next"} /\ s.edition = 0 /\ s.got = 0
  BY AfterWriting
<1> QED
  BY <1>1, <1>2, <1>3, WriteStep

\* The row a commit writes: typed, a new edition, and known by what the commit changes.
LEMMA WriteEffect ==
  ASSUME Inv, NEW r \in Requests, report \in Report, NEW row \in Report, Write(r, row)
  PROVE  /\ report' = [row EXCEPT !.edition = report.edition + 1]
         /\ report' \in Report /\ report'.edition = report.edition + 1
         /\ report'.status = row.status /\ report'.archived = row.archived
         /\ report'.summary = row.summary /\ report'.services = row.services
         /\ UNCHANGED pdf /\ overtaken' = (overtaken \/ req[r].edition # report.edition)
<1>1. /\ report' = [row EXCEPT !.edition = report.edition + 1]
      /\ report.edition < MaxEdition
      /\ UNCHANGED pdf /\ overtaken' = (overtaken \/ req[r].edition # report.edition)
  BY DEF Write
<1>2. report.edition + 1 \in 1..MaxEdition
  BY <1>1, RowType, ReportsAssumption
<1> QED
  BY <1>1, <1>2 DEF Report

OnRow(r) ==
  \/ CommitUpdate(r) \/ CommitSubmit(r) \/ CommitReview(r) \/ CommitArchive(r) \/ CommitSign(r)

LEMMA RowFound ==
  ASSUME Inv, NEW r \in Requests, OnRow(r)
  PROVE  req[r].at = "checked" /\ report \in Report
BY DEF OnRow, CommitUpdate, CommitSubmit, CommitReview, CommitArchive, CommitSign, Checked,
       Inv, FoundInv, TypeOK

\* Such a commit moves the report along its graph and keeps its substance, if the edition
\* is the one it read.
Follows ==
  ~report.archived
  /\ (Edited(report, report') \/ Judged(report, report') \/ Archived(report, report'))

LEMMA UpdateEffect ==
  ASSUME Inv, NEW r \in Requests, CommitUpdate(r)
  PROVE  /\ report' \in Report /\ report'.edition = report.edition + 1
         /\ UNCHANGED pdf /\ overtaken' = (overtaken \/ req[r].edition # report.edition)
         /\ req[r].edition = report.edition =>
              Follows /\ report'.status \notin {"SUBMITTED", "APPROVED"}
<1>1. req[r].at = "checked" /\ report \in Report /\ req[r].op = "update"
  BY RowFound DEF OnRow, CommitUpdate, Checked
<1>2. PICK summary \in BOOLEAN, services \in BOOLEAN :
        Write(r, [report EXCEPT !.summary = summary, !.services = services])
  BY DEF CommitUpdate
<1> DEFINE row == [report EXCEPT !.summary = summary, !.services = services]
<1>3. row \in Report /\ row.status = report.status /\ row.archived = report.archived
  BY <1>1 DEF Report
<1>4. Write(r, row)
  BY <1>2
<1> HIDE DEF row
<1>5. req[r].edition = report.edition => Exists /\ report.status \in EDITABLE_STATUSES
  BY <1>1 DEF Inv, SnapshotInv, FitsReport
<1> QED
  BY <1>1, <1>3, <1>4, <1>5, WriteEffect DEF Follows, Edited, Exists, EDITABLE_STATUSES

LEMMA SignEffect ==
  ASSUME Inv, NEW r \in Requests, CommitSign(r)
  PROVE  /\ report' \in Report /\ report'.edition = report.edition + 1
         /\ UNCHANGED pdf /\ overtaken' = (overtaken \/ req[r].edition # report.edition)
         /\ req[r].edition = report.edition =>
              Follows /\ report'.status \notin {"SUBMITTED", "APPROVED"}
<1>1. req[r].at = "checked" /\ report \in Report /\ req[r].op = "sign"
  BY RowFound DEF OnRow, CommitSign, Checked
<1> DEFINE row == [report EXCEPT !.signed = TRUE]
<1>2. row \in Report /\ row.status = report.status /\ row.archived = report.archived
  BY <1>1 DEF Report
<1>3. Write(r, row)
  BY DEF CommitSign
<1> HIDE DEF row
<1>4. req[r].edition = report.edition => Exists /\ report.status \in EDITABLE_STATUSES
  BY <1>1 DEF Inv, SnapshotInv, FitsReport
<1> QED
  BY <1>1, <1>2, <1>3, <1>4, WriteEffect DEF Follows, Edited, Exists, EDITABLE_STATUSES

\* A change of the status alone.
LEMMA StatusEffect ==
  ASSUME Inv, NEW r \in Requests, report \in Report, NEW next \in ReportStatus,
         Write(r, [report EXCEPT !.status = next])
  PROVE  /\ report' \in Report /\ report'.edition = report.edition + 1
         /\ UNCHANGED pdf /\ overtaken' = (overtaken \/ req[r].edition # report.edition)
         /\ report'.status = next
         /\ report'.summary = report.summary /\ report'.services = report.services
         /\ next \in REPORT_TRANSITIONS[report.status] => Judged(report, report')
<1> DEFINE row == [report EXCEPT !.status = next]
<1>1. /\ row \in Report /\ row.status = next
      /\ row.summary = report.summary /\ row.services = report.services
  BY DEF Report
<1>2. /\ report' = [row EXCEPT !.edition = report.edition + 1]
      /\ report' \in Report /\ report'.edition = report.edition + 1
      /\ report'.status = next
      /\ report'.summary = report.summary /\ report'.services = report.services
      /\ UNCHANGED pdf /\ overtaken' = (overtaken \/ req[r].edition # report.edition)
  <2> HIDE DEF row
  <2>1. Write(r, row)
    BY DEF row
  <2> QED
    BY <1>1, <2>1, WriteEffect
<1>3. report' = [report EXCEPT !.status = report'.status, !.edition = report'.edition]
  BY <1>1, <1>2 DEF Report
<1> QED
  BY <1>2, <1>3 DEF Judged

LEMMA SubmitEffect ==
  ASSUME Inv, NEW r \in Requests, CommitSubmit(r)
  PROVE  /\ report' \in Report /\ report'.edition = report.edition + 1
         /\ UNCHANGED pdf /\ overtaken' = (overtaken \/ req[r].edition # report.edition)
         /\ req[r].edition = report.edition =>
              Follows /\ (report'.summary \/ report'.services)
<1>1. req[r].at = "checked" /\ report \in Report /\ req[r].op = "submit"
  BY RowFound DEF OnRow, CommitSubmit, Checked
<1>2. Write(r, [report EXCEPT !.status = "SUBMITTED"]) /\ "SUBMITTED" \in ReportStatus
  BY DEF CommitSubmit, ReportStatus
<1>3. req[r].edition = report.edition =>
        Exists /\ report.status \in EDITABLE_STATUSES /\ Substantial
  BY <1>1 DEF Inv, SnapshotInv, FitsReport
<1>4. report.status \in EDITABLE_STATUSES => "SUBMITTED" \in REPORT_TRANSITIONS[report.status]
  BY DEF EDITABLE_STATUSES, REPORT_TRANSITIONS
<1> QED
  BY <1>1, <1>2, <1>3, <1>4, StatusEffect DEF Follows, Exists, Substantial

LEMMA ReviewEffect ==
  ASSUME Inv, NEW r \in Requests, CommitReview(r)
  PROVE  /\ report' \in Report /\ report'.edition = report.edition + 1
         /\ UNCHANGED pdf /\ overtaken' = (overtaken \/ req[r].edition # report.edition)
         /\ req[r].edition = report.edition => Follows
         /\ ~overtaken /\ req[r].edition = report.edition => report'.summary \/ report'.services
<1>1. req[r].at = "checked" /\ report \in Report /\ req[r].op \in {"approve", "reject"}
  BY RowFound DEF OnRow, CommitReview, Checked
<1>2. PICK next \in {"APPROVED", "REJECTED"} : Write(r, [report EXCEPT !.status = next])
  BY DEF CommitReview
<1>3. req[r].edition = report.edition => Exists /\ report.status = "SUBMITTED"
  BY <1>1 DEF Inv, SnapshotInv, FitsReport
<1>4. next \in ReportStatus /\ next \in REPORT_TRANSITIONS["SUBMITTED"]
  BY DEF ReportStatus, REPORT_TRANSITIONS
<1>5. ~overtaken /\ report.status = "SUBMITTED" => Substantial
  BY DEF Inv, SubmittedIsSubstantial
<1> QED
  BY <1>1, <1>2, <1>3, <1>4, <1>5, StatusEffect DEF Follows, Exists, Substantial

LEMMA ArchiveEffect ==
  ASSUME Inv, NEW r \in Requests, CommitArchive(r)
  PROVE  /\ report' \in Report /\ report'.edition = report.edition + 1
         /\ UNCHANGED pdf /\ overtaken' = (overtaken \/ req[r].edition # report.edition)
         /\ report'.status = report.status
         /\ report'.summary = report.summary /\ report'.services = report.services
         /\ req[r].edition = report.edition => Follows
<1>1. req[r].at = "checked" /\ report \in Report /\ req[r].op = "archive"
  BY RowFound DEF OnRow, CommitArchive, Checked
<1> DEFINE row == [report EXCEPT !.archived = TRUE]
<1>2. /\ row \in Report /\ row.status = report.status
      /\ row.summary = report.summary /\ row.services = report.services
  BY <1>1 DEF Report
<1>3. Write(r, row)
  BY DEF CommitArchive
<1>4. report' = [row EXCEPT !.edition = report'.edition]
  <2> HIDE DEF row
  <2> QED
    BY <1>1, <1>2, <1>3, WriteEffect
<1>5. Archived(report, report')
  BY <1>1, <1>4 DEF Archived, Report
<1>6. req[r].edition = report.edition => Exists
  BY <1>1 DEF Inv, SnapshotInv, FitsReport
<1> HIDE DEF row
<1> QED
  BY <1>1, <1>2, <1>3, <1>5, <1>6, WriteEffect DEF Follows, Exists

\* All of them: typed, a new edition that follows from the one read, and with substance
\* unless it was overtaken.
LEMMA RowEffect ==
  ASSUME Inv, NEW r \in Requests, OnRow(r)
  PROVE  /\ report' \in Report /\ report'.edition = report.edition + 1
         /\ UNCHANGED pdf /\ overtaken' = (overtaken \/ req[r].edition # report.edition)
         /\ req[r].edition = report.edition => Follows
         /\ ~overtaken /\ req[r].edition = report.edition =>
              \/ report'.status \notin {"SUBMITTED", "APPROVED"}
              \/ report'.summary \/ report'.services
<1>1. ~overtaken => (report.status \in {"SUBMITTED", "APPROVED"} => Substantial)
  BY DEF Inv, SubmittedIsSubstantial
<1> QED
  BY <1>1, UpdateEffect, SignEffect, SubmitEffect, ReviewEffect, ArchiveEffect
  DEF OnRow, Substantial

LEMMA OnRowStep ==
  ASSUME Inv, NEW r \in Requests, OnRow(r)
  PROVE  Inv'
<1>1. \E op \in Ops : Continue(r, op) \/ Finish(r)
  BY DEF OnRow, CommitUpdate, CommitSubmit, CommitReview, CommitArchive, CommitSign, Ops
<1> QED
  BY <1>1, RowFound, RowEffect, ChangeStep

-----------------------------------------------------------------------------
(* The PDF.                                                                *)

LEMMA LookUpStep ==
  ASSUME Inv, NEW r \in Requests, LookUpPdf(r)
  PROVE  Inv'
<1> DEFINE Asked == [req[r] EXCEPT !.at = "generate"]
           Answered == [req[r] EXCEPT !.at = "served", !.got = pdf]
<1>1. req[r] \in Request /\ UNCHANGED <<report, pdf, overtaken>>
  BY RequestType DEF LookUpPdf, Checked, GoesOn, Inv, TypeOK, Idle
<1>2. /\ pdf \in 0..MaxEdition /\ pdf <= report.edition /\ report.edition \in 0..MaxEdition
      /\ req[r].edition <= report.edition /\ req[r].got <= report.edition
  BY EditionType, ReportsAssumption DEF Inv, TypeOK
<1>3. PICK s \in Request :
        /\ req' = [req EXCEPT ![r] = s]
        /\ s.at \in {"generate", "served"}
        /\ s.at = "served" => s.status \notin {"SUBMITTED", "APPROVED"}
        /\ s.edition <= report.edition /\ s.got <= report.edition
  <2>1. CASE pdf = 0 \/ req[r].status \in {"SUBMITTED", "APPROVED"}
    <3>1. req' = [req EXCEPT ![r] = Asked]
      BY <2>1 DEF LookUpPdf, GoesOn
    <3>2. /\ Asked \in Request /\ Asked.at = "generate"
          /\ Asked.edition = req[r].edition /\ Asked.got = req[r].got
      BY <1>1 DEF Request
    <3> QED
      BY <1>2, <3>1, <3>2
  <2>2. CASE ~(pdf = 0 \/ req[r].status \in {"SUBMITTED", "APPROVED"})
    <3>1. req' = [req EXCEPT ![r] = Answered]
      BY <2>2 DEF LookUpPdf, GoesOn
    <3>2. /\ Answered \in Request /\ Answered.at = "served" /\ Answered.status = req[r].status
          /\ Answered.edition = req[r].edition /\ Answered.got = pdf
      BY <1>1, <1>2 DEF Request
    <3> QED
      BY <1>2, <2>2, <3>1, <3>2
  <2> QED
    BY <2>1, <2>2
<1>4. /\ req'[r] = s
      /\ \A q \in Requests \ {r} : req'[q] = req[q]
      /\ req' \in [Requests -> Request \cup {Idle}]
  BY <1>3, OthersStay DEF Inv
<1>5. TypeOK'
  BY <1>1, <1>3, <1>4 DEF Inv, TypeOK
<1>6. FoundInv' /\ SnapshotInv' /\ RenderedInv' /\ SubmittedIsSubstantial'
  BY <1>1, <1>3, <1>4
  DEF Inv, FoundInv, SnapshotInv, RenderedInv, SubmittedIsSubstantial, FitsReport, Exists,
      Substantial
<1> QED
  BY <1>5, <1>6 DEF Inv

LEMMA RenderStep ==
  ASSUME Inv, NEW r \in Requests, RenderPdf(r)
  PROVE  Inv'
<1> DEFINE s == [req[r] EXCEPT !.at = "rendered", !.got = report.edition]
<1>1. req[r] \in Request /\ UNCHANGED <<report, pdf, overtaken>> /\ req' = [req EXCEPT ![r] = s]
  BY RequestType DEF RenderPdf, GoesOn, Inv, TypeOK, Idle
<1>2. report.edition \in 0..MaxEdition /\ req[r].edition <= report.edition
  BY EditionType DEF Inv, TypeOK
<1>3. s \in Request /\ s.at = "rendered" /\ s.edition = req[r].edition /\ s.got = report.edition
  BY <1>1, <1>2 DEF Request
<1> HIDE DEF s
<1>4. /\ req'[r] = s
      /\ \A q \in Requests \ {r} : req'[q] = req[q]
      /\ req' \in [Requests -> Request \cup {Idle}]
  BY <1>1, <1>3, OthersStay DEF Inv
<1>5. TypeOK'
  BY <1>1, <1>2, <1>3, <1>4 DEF Inv, TypeOK
<1>6. FoundInv' /\ SnapshotInv' /\ RenderedInv' /\ SubmittedIsSubstantial'
  BY <1>1, <1>2, <1>3, <1>4
  DEF Inv, FoundInv, SnapshotInv, RenderedInv, SubmittedIsSubstantial, FitsReport, Exists,
      Substantial
<1> QED
  BY <1>5, <1>6 DEF Inv

LEMMA StoreStep ==
  ASSUME Inv, NEW r \in Requests, StorePdf(r)
  PROVE  Inv'
<1> DEFINE s == [req[r] EXCEPT !.at = "served"]
<1>1. /\ req[r] \in Request /\ req[r].at = "rendered" /\ pdf' = req[r].got
      /\ UNCHANGED <<report, overtaken>> /\ req' = [req EXCEPT ![r] = s]
  BY RequestType DEF StorePdf, GoesOn, Inv, TypeOK, Idle
<1>2. /\ req[r].got \in 0..MaxEdition /\ req[r].got <= report.edition
      /\ req[r].edition <= report.edition /\ report.edition \in 0..MaxEdition
  BY <1>1, EditionType, RequestType DEF Inv, TypeOK
<1>3. /\ s \in Request /\ s.at = "served" /\ s.status = req[r].status
      /\ s.edition = req[r].edition /\ s.got = req[r].got
  BY <1>1 DEF Request
<1> HIDE DEF s
<1>4. /\ req'[r] = s
      /\ \A q \in Requests \ {r} : req'[q] = req[q]
      /\ req' \in [Requests -> Request \cup {Idle}]
  BY <1>1, <1>3, OthersStay DEF Inv
<1>5. TypeOK'
  <2>1. pdf' \in 0..report.edition
    BY <1>1, <1>2
  <2> QED
    BY <1>1, <1>2, <1>3, <1>4, <2>1 DEF Inv, TypeOK
<1>6. RenderedInv'
  BY <1>1, <1>3, <1>4 DEF Inv, RenderedInv
<1>7. FoundInv' /\ SnapshotInv' /\ SubmittedIsSubstantial'
  BY <1>1, <1>3, <1>4
  DEF Inv, FoundInv, SnapshotInv, SubmittedIsSubstantial, FitsReport, Exists, Substantial
<1> QED
  BY <1>5, <1>6, <1>7 DEF Inv

LEMMA NextInv == Inv /\ [Next]_vars => Inv'
<1> SUFFICES ASSUME Inv, [Next]_vars
             PROVE  Inv'
  OBVIOUS
<1>1. CASE UNCHANGED vars
  BY <1>1 DEF vars, Inv, TypeOK, FoundInv, SnapshotInv, RenderedInv, SubmittedIsSubstantial,
              FitsReport, Exists, Substantial
<1>2. ASSUME NEW r \in Requests, Begin(r)
      PROVE  Inv'
  BY <1>2, BeginReads, ReadStep
<1>3. ASSUME NEW r \in Requests, Commit(r)
      PROVE  Inv'
  <2>1. CASE OnRow(r)
    BY <2>1, OnRowStep
  <2>2. CASE CommitCreate(r) /\ report = NoReport
    BY <2>2, CreateWrites
  <2>3. CASE CommitCreate(r) /\ report # NoReport
    BY <2>3, LeaveStep DEF CommitCreate
  <2> QED
    BY <1>3, <2>1, <2>2, <2>3 DEF Commit, OnRow
<1>4. ASSUME NEW r \in Requests, Fail(r) \/ DeliverPdf(r)
      PROVE  Inv'
  BY <1>4, LeaveStep DEF Fail, DeliverPdf, GoesOn, Finish
<1>5. ASSUME NEW r \in Requests, LookUpPdf(r) \/ RenderPdf(r) \/ StorePdf(r)
      PROVE  Inv'
  BY <1>5, LookUpStep, RenderStep, StoreStep
<1> QED
  BY <1>1, <1>2, <1>3, <1>4, <1>5 DEF Next

LEMMA InvHolds == Spec => []Inv
BY InitInv, NextInv, PTL DEF Spec

-----------------------------------------------------------------------------
(* Theorems.                                                               *)

\* The row, the stored PDF and every request in flight keep their types, and nothing
\* shows an edition that was never written.
THEOREM TypeCorrect == Spec => []TypeOK
<1>1. Inv => TypeOK
  BY DEF Inv
<1> QED
  BY <1>1, InvHolds, PTL

\* A report with the office or approved has substance, unless a request wrote over an
\* edition it had not read; for any number of requests.
THEOREM Substance == Spec => []SubmittedIsSubstantial
<1>1. Inv => SubmittedIsSubstantial
  BY DEF Inv
<1> QED
  BY <1>1, InvHolds, PTL

\* A download of a report that was with the office, or approved, shows the edition that
\* was current when it was asked for, or a later one.
THEOREM DownloadsCurrent == Spec => []DownloadIsCurrent
<1>1. Inv => DownloadIsCurrent
  BY DEF Inv, RenderedInv, DownloadIsCurrent
<1> QED
  BY <1>1, InvHolds, PTL

\* A report moves along its graph, its content fixed while the office has it, unless the
\* request that writes had read another edition.
THEOREM GraphFollowed == Spec => ReportFollowsGraph
<1> DEFINE A == report # NoReport /\ report' # report =>
                  \/ Follows
                  \/ \E r \in Requests : req'[r] # req[r] /\ req[r].edition # report.edition
<1>1. Inv /\ [Next]_vars => [A]_vars
  <2> SUFFICES ASSUME Inv, Next, report # NoReport, report' # report,
                      \A r \in Requests : req'[r] # req[r] => req[r].edition = report.edition
               PROVE  Follows
    BY DEF vars
  <2>1. PICK r \in Requests :
          Begin(r) \/ Commit(r) \/ Fail(r)
          \/ LookUpPdf(r) \/ RenderPdf(r) \/ StorePdf(r) \/ DeliverPdf(r)
    BY DEF Next
  <2>2. ~Begin(r)
    BY BeginReads DEF Reads
  <2>3. ~(Fail(r) \/ LookUpPdf(r) \/ RenderPdf(r) \/ StorePdf(r) \/ DeliverPdf(r))
    BY DEF Fail, LookUpPdf, RenderPdf, StorePdf, DeliverPdf, GoesOn
  <2>4. OnRow(r)
    BY <2>1, <2>2, <2>3 DEF Commit, CommitCreate, OnRow
  <2>5. req'[r] # req[r]
    <3>1. req[r].at = "checked"
      BY <2>4, RowFound
    <3>2. PICK op \in Ops : Continue(r, op) \/ Finish(r)
      BY <2>4 DEF OnRow, CommitUpdate, CommitSubmit, CommitReview, CommitArchive, CommitSign,
                  Ops
    <3>3. req'[r].at \in {"idle", "next"}
      BY <3>2, AfterWriting DEF Inv, TypeOK
    <3> QED
      BY <3>1, <3>3
  <2> QED
    BY <2>4, <2>5, RowEffect
<1>2. ReportFollowsGraph <=> [][A]_vars
  BY DEF ReportFollowsGraph, Follows
<1> QED
  BY <1>1, <1>2, InvHolds, PTL DEF Spec
=============================================================================
