---------------------------- MODULE PhotoReports ----------------------------
(***************************************************************************)
(* Reports about photos (services/photoreport): a report is stored with    *)
(* one row per recipient, and the rows are mailed later by any number of   *)
(* senders (the job of every replica, the goroutine after a submission, an *)
(* administrator's retry).  A row is claimed under a lease; its outcome is *)
(* recorded afterwards, by key.  A step is one statement, one transaction  *)
(* or one call of a provider of e-mail: three are tried, one after the     *)
(* other, and each may take a mail and answer with an error all the same.  *)
(***************************************************************************)
EXTENDS Naturals, Sequences, FiniteSets

CONSTANTS
    Reporters, Subjects,   \* who reports; photo, reason and normalised comment
    Recipients,            \* club owners and administrators
    Submitters, Senders,   \* goroutines
    MaxReports,            \* bound: reports stored
    MaxMailTrouble,        \* bound: senders that stop, retries
    MaxAttempts, BatchSize, BurstLimit, DayLimit

\* Somebody may report something.
ASSUME ReportsAssumption == Reporters # {} /\ Subjects # {}

ASSUME LimitsAssumption ==
    {BurstLimit, DayLimit, MaxAttempts, MaxReports, MaxMailTrouble} \subseteq Nat

VARIABLES
    reports,      \* rows of photo_reports, oldest first
    mails,        \* rows of photo_report_deliveries, by report and recipient
    submitter,    \* submissions under way
    sender,       \* calls of DeliverDue under way
    mailLeft,     \* history: mails that left
    mailDoubt,    \* history: rows whose lease ran out, or whose mail left with an error for an answer
    mailTrouble

reportVars == << reports, submitter >>
mailVars == << mails, sender, mailLeft, mailDoubt, mailTrouble >>

-----------------------------------------------------------------------------
(* State *)

\* age stands for created_at against the windows of ten minutes and of a day.
Report == [who : Reporters, subject : Subjects, age : {"recent", "today", "old"}]

\* due: next_attempt_at has passed.  A row that does not exist is NoMail.
Mail == [status : {"none", "pending", "sending", "sent", "failed"},
         attempts : 0 .. MaxAttempts, due : BOOLEAN, lease : {"none", "running", "over"}]
NoMail == [status |-> "none", attempts |-> 0, due |-> FALSE, lease |-> "none"]
NewMail == [NoMail EXCEPT !.status = "pending", !.due = TRUE]

MailRows == (1 .. MaxReports) \X Recipients
NoMailRow == << 0, CHOOSE r \in Recipients : TRUE >>

Submission == [pc : {"idle", "check", "store"}, who : Reporters, subject : Subjects]
NoSubmission == [pc |-> "idle", who |-> CHOOSE w \in Reporters : TRUE,
                 subject |-> CHOOSE s \in Subjects : TRUE]

\* Brevo, and two SMTP servers that SendEmail falls back to.
Providers == 3

\* batch is what is left of the claims, at the row being mailed, via the provider
\* that is asked.
Sender == [pc : {"idle", "sweep", "claim", "next", "sent", "refused"}, batch : SUBSET MailRows,
           full : BOOLEAN, at : MailRows \cup {NoMailRow}, via : 1 .. Providers]
NoSender == [pc |-> "idle", batch |-> {}, full |-> FALSE, at |-> NoMailRow, via |-> 1]

ReportsTypeOK ==
    /\ reports \in Seq(Report) /\ Len(reports) <= MaxReports
    /\ mails \in [MailRows -> Mail]
    /\ submitter \in [Submitters -> Submission]
    /\ sender \in [Senders -> Sender]
    /\ mailLeft \in [MailRows -> 0 .. 3]
    /\ mailDoubt \subseteq MailRows
    /\ mailTrouble \in 0 .. MaxMailTrouble

ReportsInit ==
    /\ reports = << >>
    /\ mails = [k \in MailRows |-> NoMail]
    /\ submitter = [p \in Submitters |-> NoSubmission]
    /\ sender = [p \in Senders |-> NoSender]
    /\ mailLeft = [k \in MailRows |-> 0]
    /\ mailDoubt = {}
    /\ mailTrouble = 0

-----------------------------------------------------------------------------
(* Submission: one transaction under the advisory lock of the reporter *)

ReportsOf(w) == {i \in DOMAIN reports : reports[i].who = w /\ reports[i].age # "old"}
IsDuplicate(w, s) == \E i \in ReportsOf(w) : reports[i].subject = s
rateLimited(w) ==
    \/ Cardinality({i \in ReportsOf(w) : reports[i].age = "recent"}) >= BurstLimit
    \/ Cardinality(ReportsOf(w)) >= DayLimit

ReporterBusy(w) == \E p \in Submitters : submitter[p].pc # "idle" /\ submitter[p].who = w

\* Faulty variant: nothing serialises the submissions of a reporter.
SubmitUnlocked(p, w, s) ==
    /\ submitter[p].pc = "idle" /\ Len(reports) < MaxReports
    /\ submitter' = [submitter EXCEPT ![p] = [pc |-> "check", who |-> w, subject |-> s]]
    /\ UNCHANGED << reports, mailVars >>

\* Submit: the reporter's lock is taken.
Submit(p, w, s) ==
    /\ submitter[p].pc = "idle" /\ ~ReporterBusy(w) /\ Len(reports) < MaxReports
    /\ submitter' = [submitter EXCEPT ![p] = [pc |-> "check", who |-> w, subject |-> s]]
    /\ UNCHANGED << reports, mailVars >>

\* The same report of the last day is returned, a reporter over the limits refused.
CheckSubmission(p) ==
    LET q == submitter[p] IN
    /\ q.pc = "check"
    /\ submitter' = [submitter EXCEPT ![p] =
           IF IsDuplicate(q.who, q.subject) \/ rateLimited(q.who)
           THEN NoSubmission ELSE [q EXCEPT !.pc = "store"]]
    /\ UNCHANGED << reports, mailVars >>

\* The report and a row per recipient, once each: the owners of the club and the
\* administrators are whoever they are now, R.
StoreReport(p, R) ==
    LET q == submitter[p] IN
    /\ q.pc = "store" /\ Len(reports) < MaxReports
    /\ reports' = Append(reports, [who |-> q.who, subject |-> q.subject, age |-> "recent"])
    /\ mails' = [k \in MailRows |-> IF k[1] = Len(reports') /\ k[2] \in R THEN NewMail ELSE mails[k]]
    /\ submitter' = [submitter EXCEPT ![p] = NoSubmission]
    /\ UNCHANGED << sender, mailLeft, mailDoubt, mailTrouble >>

\* The database refuses, or the process dies: the transaction is rolled back.
SubmissionFails(p) ==
    /\ submitter[p].pc # "idle"
    /\ submitter' = [submitter EXCEPT ![p] = NoSubmission]
    /\ UNCHANGED << reports, mailVars >>

ReportAges(i) ==
    /\ reports[i].age # "old"
    /\ \A j \in 1 .. i - 1 : reports[j].age # reports[i].age
    /\ reports' = [reports EXCEPT ![i].age = IF @ = "recent" THEN "today" ELSE "old"]
    /\ UNCHANGED << submitter, mailVars >>

-----------------------------------------------------------------------------
(* Delivery *)

SenderGoes(p, s) == sender' = [sender EXCEPT ![p] = s]
RestOf(p) == LET s == sender[p] IN
           IF s.batch # {} THEN [s EXCEPT !.pc = "next", !.at = NoMailRow]
           ELSE IF s.full THEN [NoSender EXCEPT !.pc = "claim"] ELSE NoSender

\* DeliverDue begins: by the job, or after a submission.
DeliverDue(p) ==
    /\ sender[p].pc = "idle"
    /\ SenderGoes(p, [NoSender EXCEPT !.pc = "sweep"])
    /\ UNCHANGED << reportVars, mails, mailLeft, mailDoubt, mailTrouble >>

\* Faulty variant: a sender that died on its last attempt leaves its row as it is.
SkipInterrupted(p) ==
    /\ sender[p].pc = "sweep"
    /\ SenderGoes(p, [NoSender EXCEPT !.pc = "claim"])
    /\ UNCHANGED << reportVars, mails, mailLeft, mailDoubt, mailTrouble >>

\* A row whose last sender died is closed.
CloseInterrupted(p) ==
    /\ sender[p].pc = "sweep"
    /\ mails' = [k \in MailRows |->
           LET m == mails[k] IN
           IF m.status = "sending" /\ m.lease = "over" /\ m.attempts >= MaxAttempts
           THEN [m EXCEPT !.status = "failed"] ELSE m]
    /\ SenderGoes(p, [NoSender EXCEPT !.pc = "claim"])
    /\ UNCHANGED << reportVars, mailLeft, mailDoubt, mailTrouble >>

\* Faulty variant: a row being sent is claimed whatever is left of its lease.
DueOrSending(m) ==
    m.attempts < MaxAttempts /\ (m.status = "sending" \/ (m.status \in {"pending", "failed"} /\ m.due))

\* Faulty variant: the attempts are not counted.
DueForEver(m) ==
    \/ m.status \in {"pending", "failed"} /\ m.due
    \/ m.status = "sending" /\ m.lease = "over"

MailIsDue(m) ==
    /\ m.attempts < MaxAttempts
    /\ \/ m.status \in {"pending", "failed"} /\ m.due
       \/ m.status = "sending" /\ m.lease = "over"

\* claimDue: one UPDATE takes at most a batch of the rows that are due.
claimDue(p) ==
    LET due == {k \in MailRows : MailIsDue(mails[k])} IN
    /\ sender[p].pc = "claim"
    /\ \E S \in SUBSET due :
        /\ Cardinality(S) = BatchSize \/ (S = due /\ Cardinality(S) < BatchSize)
        /\ mails' = [k \in MailRows |-> IF k \in S
               THEN [mails[k] EXCEPT !.status = "sending", !.attempts = @ + 1, !.lease = "running"]
               ELSE mails[k]]
        /\ SenderGoes(p, IF S = {} THEN NoSender
                 ELSE [NoSender EXCEPT !.pc = "next", !.batch = S, !.full = Cardinality(S) = BatchSize])
    /\ UNCHANGED << reportVars, mailLeft, mailDoubt, mailTrouble >>

\* The row that SendEmail is called for: any of the batch, until a provider was asked.
Mails(p, k) ==
    /\ sender[p].pc = "next" /\ k \in sender[p].batch
    /\ sender[p].via > 1 => k = sender[p].at

MailLeaves(k) == mailLeft' = [mailLeft EXCEPT ![k] = IF @ < 3 THEN @ + 1 ELSE @]

\* SendEmail returns, with or without an error.
MailEnds(p, k, pc) ==
    SenderGoes(p, [sender[p] EXCEPT !.pc = pc, !.batch = @ \ {k}, !.at = k, !.via = 1])

\* An error: the next provider is asked, if there is one.
FallBack(p, k) ==
    IF sender[p].via < Providers THEN SenderGoes(p, [sender[p] EXCEPT !.at = k, !.via = @ + 1])
    ELSE MailEnds(p, k, "refused")

\* send: a provider accepts the message.
SendAccepted(p, k) ==
    /\ Mails(p, k)
    /\ MailEnds(p, k, "sent")
    /\ MailLeaves(k)
    /\ UNCHANGED << reportVars, mails, mailDoubt, mailTrouble >>

\* A provider refuses it; or the mail cannot be written, or its sender panics.
SendRefused(p, k) ==
    /\ Mails(p, k)
    /\ FallBack(p, k) \/ MailEnds(p, k, "refused")
    /\ UNCHANGED << reportVars, mails, mailLeft, mailDoubt, mailTrouble >>

\* A provider takes it and its answer is lost, or is an error.
AnswerLost(p, k) ==
    /\ Mails(p, k)
    /\ FallBack(p, k)
    /\ MailLeaves(k)
    /\ mailDoubt' = mailDoubt \cup {k}
    /\ UNCHANGED << reportVars, mails, mailTrouble >>

\* deliver records the outcome, whoever holds the row by now.
RecordSent(p) ==
    /\ sender[p].pc = "sent"
    /\ mails' = [mails EXCEPT ![sender[p].at].status = "sent", ![sender[p].at].lease = "none"]
    /\ SenderGoes(p, RestOf(p))
    /\ UNCHANGED << reportVars, mailLeft, mailDoubt, mailTrouble >>

RecordFailed(p) ==
    /\ sender[p].pc = "refused"
    /\ mails' = [mails EXCEPT ![sender[p].at].status = "failed", ![sender[p].at].lease = "none",
                              ![sender[p].at].due = FALSE]
    /\ SenderGoes(p, RestOf(p))
    /\ UNCHANGED << reportVars, mailLeft, mailDoubt, mailTrouble >>

\* RetryFailed: a fresh set of attempts for every failed row of a report.
RetryFailed(p, i) ==
    LET S == {k \in MailRows : k[1] = i /\ mails[k].status = "failed"} IN
    /\ sender[p].pc = "idle" /\ S # {} /\ mailTrouble < MaxMailTrouble
    /\ mailTrouble' = mailTrouble + 1
    /\ mails' = [k \in MailRows |-> IF k \in S THEN NewMail ELSE mails[k]]
    /\ SenderGoes(p, [NoSender EXCEPT !.pc = "sweep"])
    /\ UNCHANGED << reportVars, mailLeft, mailDoubt >>

\* The process dies, or a statement fails and the call returns; an outcome that
\* could not be recorded is logged and the next row mailed.
SenderStops(p) ==
    /\ sender[p].pc # "idle" /\ mailTrouble < MaxMailTrouble
    /\ mailTrouble' = mailTrouble + 1
    /\ \/ SenderGoes(p, NoSender)
       \/ sender[p].pc \in {"sent", "refused"} /\ SenderGoes(p, RestOf(p))
    /\ UNCHANGED << reportVars, mails, mailLeft, mailDoubt >>

RetryDelayEnds(k) ==
    /\ mails[k].status \in {"pending", "failed"} /\ ~mails[k].due
    /\ mails' = [mails EXCEPT ![k].due = TRUE]
    /\ UNCHANGED << reportVars, sender, mailLeft, mailDoubt, mailTrouble >>

LeaseEnds(k) ==
    /\ mails[k].lease = "running"
    /\ mails' = [mails EXCEPT ![k].lease = "over"]
    /\ mailDoubt' = mailDoubt \cup {k}
    /\ UNCHANGED << reportVars, sender, mailLeft, mailTrouble >>

-----------------------------------------------------------------------------
(* Specification *)

SubmitNext ==
    \E p \in Submitters :
        \/ \E w \in Reporters, s \in Subjects : Submit(p, w, s)
        \/ CheckSubmission(p)
        \/ \E R \in SUBSET Recipients : StoreReport(p, R)
        \/ SubmissionFails(p)

SenderStep(p) ==
    \/ DeliverDue(p) \/ CloseInterrupted(p) \/ claimDue(p)
    \/ \E k \in MailRows : SendAccepted(p, k) \/ SendRefused(p, k) \/ AnswerLost(p, k)
    \/ RecordSent(p) \/ RecordFailed(p)

MailClock == \E k \in MailRows : RetryDelayEnds(k) \/ LeaseEnds(k)

ReportsNext ==
    \/ SubmitNext
    \/ \E i \in DOMAIN reports : ReportAges(i)
    \/ \E p \in Senders : SenderStep(p) \/ SenderStops(p)
    \/ \E p \in Senders, i \in 1 .. MaxReports : RetryFailed(p, i)
    \/ MailClock

ReportsSpec == ReportsInit /\ [][ReportsNext]_<<reportVars, mailVars>>

-----------------------------------------------------------------------------
(* What must hold *)

\* The same report is stored once a day, and nobody gets past the limits, however
\* many submissions a reporter sends at the same time (report.go:168).
ReportsInOrder ==
    \A w \in Reporters :
        /\ \A i, j \in ReportsOf(w) : reports[i].subject = reports[j].subject => i = j
        /\ Cardinality({i \in ReportsOf(w) : reports[i].age = "recent"}) <= BurstLimit
        /\ Cardinality(ReportsOf(w)) <= DayLimit

\* A recipient is mailed once about a report, whatever senders stop, refusals, fallbacks
\* and retries there are; two mails leave only where nobody could know of the first one: the
\* provider that took it answered with an error, so that the next one was asked or the row
\* tried again, or a sender was slower than its lease (00036_photo_reports.sql:47, emails.go).
MailedOnce == \A k \in MailRows \ mailDoubt : mailLeft[k] <= 1

\* Every row ends: its mail left, or all its attempts failed and an administrator
\* sees it; a sender that dies never leaves it being sent for ever.
MailSettled(m) ==
    \/ m.status \in {"none", "sent"}
    \/ m.status = "failed" /\ m.attempts >= MaxAttempts
EveryMailSettles == \A k \in MailRows : []<>MailSettled(mails[k])

=============================================================================
