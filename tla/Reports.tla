------------------------------ MODULE Reports ------------------------------
(***************************************************************************)
(* The service report of one booking: service-reports.service with its     *)
(* signature and its PDF (report-generator), and the app's one-call        *)
(* submission (mobile/booking-actions.controller), which creates, fills    *)
(* and submits in three commits.                                           *)
(*                                                                         *)
(* Every handler reads the report, checks what it read and then writes the *)
(* row by its id.  What a report says is abstracted to whether it has a    *)
(* summary, lists services and is signed; `edition` counts its writes and  *)
(* tells one content from another.                                         *)
(***************************************************************************)
EXTENDS Naturals

CONSTANTS
  Requests,
  MaxEdition   \* bound: writes to the report

ASSUME ReportsAssumption == MaxEdition \in Nat

VARIABLES
  report,    \* the row with its items and its signature
  pdf,       \* the edition the latest stored PDF shows; 0: none is stored
  req,
  overtaken  \* some request wrote over an edition it had not read (history variable)

vars == <<report, pdf, req, overtaken>>

ReportStatus == {"DRAFT", "SUBMITTED", "APPROVED", "REJECTED"}

REPORT_TRANSITIONS ==
  [DRAFT |-> {"SUBMITTED"}, SUBMITTED |-> {"APPROVED", "REJECTED"},
   REJECTED |-> {"SUBMITTED"}, APPROVED |-> {}]

EDITABLE_STATUSES == {"DRAFT", "REJECTED"}

Report == [status : ReportStatus, summary : BOOLEAN, services : BOOLEAN,
           signed : BOOLEAN, archived : BOOLEAN, edition : 1..MaxEdition]

NoReport == [status |-> "NONE", edition |-> 0]

Ops == {"create", "update", "submit", "approve", "reject", "archive", "sign", "pdf"}

\* status, edition: what the request read.  app: it is a step of a one-call
\* submission.  got: the edition the PDF it delivers shows.
Request == [op : Ops, at : {"next", "checked", "generate", "rendered", "served"},
            status : ReportStatus \cup {"NONE"}, edition : 0..MaxEdition, app : BOOLEAN,
            got : 0..MaxEdition]

Idle == [op |-> "idle", at |-> "idle", status |-> "NONE", edition |-> 0, app |-> FALSE,
         got |-> 0]

Exists == report # NoReport /\ ~report.archived

Substantial == report.summary \/ report.services

Init ==
  /\ report = NoReport
  /\ pdf = 0
  /\ req = [r \in Requests |-> Idle]
  /\ overtaken = FALSE

-----------------------------------------------------------------------------
(* Reading and checking.                                                   *)

\* A request of its own, or the next step of the app's.
Check(r, op) ==
  /\ \/ req[r] = Idle
     \/ req[r].op = op /\ req[r].at = "next"
  /\ req' = [req EXCEPT ![r] = [op |-> op, at |-> "checked", status |-> report.status,
                                edition |-> report.edition, app |-> req[r].app, got |-> 0]]
  /\ UNCHANGED <<report, pdf, overtaken>>

\* An archived report does not count, though its row keeps the booking's place.
BeginCreate(r) == ~Exists /\ Check(r, "create")

\* submitReport of the app.
BeginInOneCall(r) ==
  /\ ~Exists
  /\ req[r] = Idle
  /\ req' = [req EXCEPT ![r] = [op |-> "create", at |-> "checked", status |-> report.status,
                                edition |-> report.edition, app |-> TRUE, got |-> 0]]
  /\ UNCHANGED <<report, pdf, overtaken>>

BeginEditOfAny(r, op) == Exists /\ Check(r, op)

\* requireOwnedEditable, for update and captureSignature.
BeginEdit(r, op) == Exists /\ report.status \in EDITABLE_STATUSES /\ Check(r, op)

BeginSubmitDraft(r) ==
  /\ Exists /\ report.status \in EDITABLE_STATUSES
  /\ report.status = "DRAFT" => Substantial
  /\ Check(r, "submit")

BeginSubmit(r) ==
  /\ Exists /\ report.status \in EDITABLE_STATUSES
  /\ "SUBMITTED" \in REPORT_TRANSITIONS[report.status]
  /\ Substantial
  /\ Check(r, "submit")

BeginReview(r) ==
  \/ Exists /\ "APPROVED" \in REPORT_TRANSITIONS[report.status] /\ Check(r, "approve")
  \/ Exists /\ "REJECTED" \in REPORT_TRANSITIONS[report.status] /\ Check(r, "reject")

BeginArchive(r) == Exists /\ Check(r, "archive")

\* findById.
BeginPdf(r) == Exists /\ Check(r, "pdf")

-----------------------------------------------------------------------------
(* Writing.                                                                *)

Finish(r) == req' = [req EXCEPT ![r] = Idle]

\* The app's request goes on with the next of its three steps.
Continue(r, op) ==
  IF req[r].app
  THEN req' = [req EXCEPT ![r] = [op |-> op, at |-> "next", status |-> "NONE",
                                  edition |-> 0, app |-> TRUE, got |-> 0]]
  ELSE Finish(r)

Checked(r, op) == req[r].op = op /\ req[r].at = "checked"

\* The row is written by its id, whatever has become of it.
Write(r, row) ==
  /\ report.edition < MaxEdition
  /\ report' = [row EXCEPT !.edition = report.edition + 1]
  /\ overtaken' = (overtaken \/ req[r].edition # report.edition)
  /\ UNCHANGED pdf

\* A booking has one row: without it, a second create fails.
CommitCreate(r) ==
  /\ Checked(r, "create")
  /\ \/ /\ report = NoReport
        /\ \E summary \in BOOLEAN :
             Write(r, [status |-> "DRAFT", summary |-> summary, services |-> FALSE,
                       signed |-> FALSE, archived |-> FALSE, edition |-> 0])
        /\ Continue(r, "update")
     \/ report # NoReport /\ Finish(r) /\ UNCHANGED <<report, pdf, overtaken>>

\* The fields that are not sent stay as they are.
CommitUpdate(r) ==
  /\ Checked(r, "update")
  /\ \E summary, services \in BOOLEAN :
       Write(r, [report EXCEPT !.summary = summary, !.services = services])
  /\ Continue(r, "submit")

CommitSubmit(r) ==
  /\ Checked(r, "submit")
  /\ Write(r, [report EXCEPT !.status = "SUBMITTED"])
  /\ Finish(r)

CommitReview(r) ==
  /\ \/ Checked(r, "approve") /\ Write(r, [report EXCEPT !.status = "APPROVED"])
     \/ Checked(r, "reject") /\ Write(r, [report EXCEPT !.status = "REJECTED"])
  /\ Finish(r)

CommitArchive(r) ==
  /\ Checked(r, "archive")
  /\ Write(r, [report EXCEPT !.archived = TRUE])
  /\ Finish(r)

CommitSign(r) ==
  /\ Checked(r, "sign")
  /\ Write(r, [report EXCEPT !.signed = TRUE])
  /\ Finish(r)

\* An item is refused and the transaction rolled back, the database fails, the
\* process is killed; or a step of the app's request is refused and it goes no
\* further.
Fail(r) == req[r] # Idle /\ Finish(r) /\ UNCHANGED <<report, pdf, overtaken>>

-----------------------------------------------------------------------------
(* The PDF.                                                                *)

GoesOn(r, request) ==
  /\ req' = [req EXCEPT ![r] = request]
  /\ UNCHANGED <<report, overtaken>>

LookUpPdfOnce(r) ==
  /\ Checked(r, "pdf")
  /\ UNCHANGED pdf
  /\ GoesOn(r, IF pdf = 0 THEN [req[r] EXCEPT !.at = "generate"]
               ELSE [req[r] EXCEPT !.at = "served", !.got = pdf])

\* getPdfUrl: the stored PDF will do, unless the report that was read has been
\* submitted or approved.
LookUpPdf(r) ==
  /\ Checked(r, "pdf")
  /\ UNCHANGED pdf
  /\ GoesOn(r, IF pdf = 0 \/ req[r].status \in {"SUBMITTED", "APPROVED"}
               THEN [req[r] EXCEPT !.at = "generate"]
               ELSE [req[r] EXCEPT !.at = "served", !.got = pdf])

\* generate reads the report anew.  (The signature, read after it, can only be newer.)
RenderPdf(r) ==
  /\ req[r].at = "generate"
  /\ UNCHANGED pdf
  /\ GoesOn(r, [req[r] EXCEPT !.at = "rendered", !.got = report.edition])

\* The latest stored, which another request may have rendered from an older edition.
StorePdf(r) ==
  /\ req[r].at = "rendered"
  /\ pdf' = req[r].got
  /\ GoesOn(r, [req[r] EXCEPT !.at = "served"])

DeliverPdf(r) == req[r].at = "served" /\ UNCHANGED pdf /\ GoesOn(r, Idle)

-----------------------------------------------------------------------------
Begin(r) ==
  \/ BeginCreate(r) \/ BeginInOneCall(r) \/ BeginEdit(r, "update") \/ BeginEdit(r, "sign")
  \/ BeginSubmit(r) \/ BeginReview(r) \/ BeginArchive(r) \/ BeginPdf(r)

Commit(r) ==
  \/ CommitCreate(r) \/ CommitUpdate(r) \/ CommitSubmit(r) \/ CommitReview(r)
  \/ CommitArchive(r) \/ CommitSign(r)

Next ==
  \E r \in Requests :
    \/ Begin(r) \/ Commit(r) \/ Fail(r)
    \/ LookUpPdf(r) \/ RenderPdf(r) \/ StorePdf(r) \/ DeliverPdf(r)

Spec == Init /\ [][Next]_vars

-----------------------------------------------------------------------------
(* Properties.                                                             *)

TypeOK ==
  /\ report \in Report \cup {NoReport}
  /\ pdf \in 0..report.edition
  /\ req \in [Requests -> Request \cup {Idle}]
  /\ overtaken \in BOOLEAN
  /\ \A r \in Requests : req[r].edition <= report.edition /\ req[r].got <= report.edition

\* What may become of a report: an edit of one that is open, an edge of its graph
\* that leaves what it says alone, or the archive.
Edited(s, t) ==
  s.status \in EDITABLE_STATUSES /\ t.status = s.status /\ t.archived = s.archived

Judged(s, t) ==
  /\ t.status \in REPORT_TRANSITIONS[s.status]
  /\ t = [s EXCEPT !.status = t.status, !.edition = t.edition]

Archived(s, t) == t = [s EXCEPT !.archived = TRUE, !.edition = t.edition]

\* What was submitted is what is approved, an approved report is final and an archived
\* one is closed: a report moves along its graph, its content fixed while it is
\* with the office or approved, unless the request that writes had read an
\* edition that is no longer the current one.
ReportFollowsGraph ==
  [][report # NoReport /\ report' # report =>
       \/ ~report.archived
          /\ (Edited(report, report') \/ Judged(report, report') \/ Archived(report, report'))
       \/ \E r \in Requests : req'[r] # req[r] /\ req[r].edition # report.edition]_vars

\* A report the office sees, or has approved, has a summary or lists a service, also
\* after it was rejected and written anew; only a request that wrote over an edition
\* it had not read can break this.
SubmittedIsSubstantial ==
  ~overtaken /\ report.status \in {"SUBMITTED", "APPROVED"} => Substantial

\* The PDF of a report that was submitted or approved when it was asked for shows that
\* edition or a later one, whatever other requests store meanwhile.
DownloadIsCurrent ==
  \A r \in Requests :
    req[r].at = "served" /\ req[r].status \in {"SUBMITTED", "APPROVED"} =>
      req[r].got >= req[r].edition
=============================================================================
