\* Two requests that overlap at will, seven writes: enough to submit, reject, rewrite,
\* submit again and approve, with one write to spare.
SPECIFICATION Spec
CONSTANTS
  Requests = {r1, r2}
  MaxEdition = 7
SYMMETRY Symmetric
INVARIANTS
  SubmittedIsSubstantial
  DownloadIsCurrent
PROPERTY ReportFollowsGraph
