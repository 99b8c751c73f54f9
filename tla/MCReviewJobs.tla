---------------------------- MODULE MCReviewJobs ----------------------------
(* Small instances of ReviewJobs for TLC. *)
EXTENDS ReviewJobs, TLC

CONSTANTS pr, w1, w2, q1, q2, line, whole, odd, junk

OnePR == {pr}
OneWorker == {w1}
TwoWorkers == {w1, w2}
NoRequests == {}
OneRequest == {q1}
TwoRequests == {q1, q2}
OneFinding == {line}
LineAndWhole == {line, whole}
OnlyLine == {line}
\* odd is a finding whose line number is a fraction, junk is no object
AllEntries == {line, whole, odd, junk}
AllFindings == {line, whole, odd}
LineAndOdd == {line, odd}
MixedAnswers == {None, {}, {line, whole, junk}, {line, odd}}
OneAnswer == {None, {}, {line}}
\* the provider fails or finds something: the retry question needs no more
FailOrFinding == {None, {line}}
=============================================================================
