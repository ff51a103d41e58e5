-------------------------------- MODULE ReportRun --------------------------------
(***************************************************************************)
(* utils/reportRun.js, with historyReport.job.js and                       *)
(* inventoryReport.job.js: the weekly report of one period is mailed once, *)
(* however many attempts there are at it (the cron of two servers, a       *)
(* restart on the scheduled minute, the script run by hand).               *)
(*                                                                         *)
(* One record per period stands for the claim.  A first attempt inserts    *)
(* it, and the unique key lets one insert through; an attempt that finds a *)
(* failed or abandoned run takes it over by saving the document it read.   *)
(***************************************************************************)
EXTENDS Integers

CONSTANTS
  Attempt,     \* attempts at the period, each made once
  Forced,      \* those an operator forces
  MailTries    \* how often an attempt tries to send

ASSUME ReportAssumption == Forced \subseteq Attempt /\ MailTries \in Nat \ {0}

VARIABLES
  run,      \* the record of the period
  attempt,  \* attempt[a]: what attempt a is doing
  mails,    \* mails that left
  amiss     \* history: what happened that the guard has no answer to

reportVars == <<run, attempt, mails, amiss>>

RunStatus == {"none", "Running", "Completed", "Failed"}
AttemptState ==
  [pc : {"waiting", "claiming", "working", "sent", "unsent", "over"},
   saw : RunStatus, tries : 0..MailTries]

ReportTypeOK ==
  /\ run \in [status : RunStatus, stale : BOOLEAN]
  /\ attempt \in [Attempt -> AttemptState]
  /\ mails \in Nat
  /\ amiss \subseteq {"forced", "abandoned", "overlapped", "unheard", "unrecorded"}

At(a, pc) == attempt' = [attempt EXCEPT ![a].pc = pc]

-----------------------------------------------------------------------------
(* claimReportRun.                                                         *)

\* What the attempt reads ends it: sent already, or another is at it.
Refuses(a) ==
  /\ a \notin Forced
  /\ \/ run.status = "Completed"
     \/ run.status = "Running" /\ ~run.stale

ReadsRun(a) ==
  /\ attempt[a].pc = "waiting"
  /\ attempt' = [attempt EXCEPT ![a].saw = run.status,
                                ![a].pc = IF Refuses(a) THEN "over" ELSE "claiming"]
  /\ UNCHANGED <<run, mails, amiss>>

\* Mutant: there is no unique index.
NoIndex == TRUE

\* The unique index on runKey.
KeyIsFree == run.status = "none"

CreatesRun(a) ==
  /\ attempt[a].pc = "claiming" /\ attempt[a].saw = "none"
  /\ IF KeyIsFree THEN run' = [status |-> "Running", stale |-> FALSE] /\ At(a, "working")
                  ELSE At(a, "over") /\ UNCHANGED run
  /\ UNCHANGED <<mails, amiss>>

\* A save writes the fields it changed: the status only if it was not Running when it
\* was read.  Nothing checks that the record is still as it was read.
TakesRunOver(a) ==
  LET saw == attempt[a].saw
  IN  /\ attempt[a].pc = "claiming" /\ saw # "none"
      /\ run' = [status |-> IF saw = "Running" THEN run.status ELSE "Running", stale |-> FALSE]
      /\ At(a, "working")
      /\ amiss' = amiss \cup (IF a \in Forced THEN {"forced"} ELSE {})
                        \cup (IF saw = "Running" THEN {"abandoned"} ELSE {})
                        \cup (IF saw # run.status THEN {"overlapped"} ELSE {})
      /\ UNCHANGED mails

\* Half an hour passes on a claim.
ClaimAges ==
  /\ run.status = "Running" /\ ~run.stale
  /\ run' = [run EXCEPT !.stale = TRUE]
  /\ UNCHANGED <<attempt, mails, amiss>>

-----------------------------------------------------------------------------
(* The run: gather, render, sendReportWithRetries, and the save at its end. *)

\* The report cannot be gathered or drawn.
PreparationFails(a) ==
  /\ attempt[a].pc = "working" /\ attempt[a].tries = 0
  /\ At(a, "unsent")
  /\ UNCHANGED <<run, mails, amiss>>

MailAccepted(a) ==
  /\ attempt[a].pc = "working"
  /\ At(a, "sent")
  /\ mails' = mails + 1
  /\ UNCHANGED <<run, amiss>>

\* A try fails; it may have reached the server all the same.
MailRefused(a) ==
  /\ attempt[a].pc = "working"
  /\ attempt' = [attempt EXCEPT ![a].tries = @ + 1,
                   ![a].pc = IF attempt[a].tries + 1 = MailTries THEN "unsent" ELSE @]
  /\ \/ UNCHANGED <<mails, amiss>>
     \/ mails' = mails + 1 /\ amiss' = amiss \cup {"unheard"}
  /\ UNCHANGED run

Verdict(a) == IF attempt[a].pc = "sent" THEN "Completed" ELSE "Failed"

RecordsRun(a) ==
  /\ attempt[a].pc \in {"sent", "unsent"}
  /\ run' = [run EXCEPT !.status = Verdict(a)]
  /\ At(a, "over")
  /\ UNCHANGED <<mails, amiss>>

\* That save fails after the mail: the handler for it records a failure, if it can.
RecordingFails(a) ==
  /\ attempt[a].pc = "sent"
  /\ \E status \in {run.status, "Failed"} : run' = [run EXCEPT !.status = status]
  /\ At(a, "over")
  /\ amiss' = amiss \cup {"unrecorded"}
  /\ UNCHANGED mails

\* The process stops.
AttemptDies(a) ==
  /\ attempt[a].pc \notin {"waiting", "over"}
  /\ At(a, "over")
  /\ UNCHANGED <<run, mails, amiss>>

-----------------------------------------------------------------------------
ReportInit ==
  /\ run = [status |-> "none", stale |-> FALSE]
  /\ attempt = [a \in Attempt |-> [pc |-> "waiting", saw |-> "none", tries |-> 0]]
  /\ mails = 0
  /\ amiss = {}

ReportNext ==
  \/ \E a \in Attempt :
       \/ ReadsRun(a) \/ CreatesRun(a) \/ TakesRunOver(a)
       \/ PreparationFails(a) \/ MailAccepted(a) \/ MailRefused(a)
       \/ RecordsRun(a) \/ RecordingFails(a) \/ AttemptDies(a)
  \/ ClaimAges

ReportSpec == ReportInit /\ [][ReportNext]_reportVars

-----------------------------------------------------------------------------
(* Properties.                                                             *)

\* "The same weekly report is not accidentally sent twice", and a period recorded as
\* failed was not sent, so that a retry is no second mail.  It fails only where an
\* operator forced it, a claim of half an hour was taken from a run still at work or
\* dead after its mail, two attempts took one failed run over, the mail server took a
\* mail and reported an error, or the save after the mail failed.
MailedOnce ==
  amiss = {} =>
    /\ mails <= 1
    /\ run.status = "Failed" => mails = 0
    /\ run.status = "Completed" => mails = 1
================================================================================
