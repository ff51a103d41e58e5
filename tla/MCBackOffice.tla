------------------------------ MODULE MCBackOffice ------------------------------
(***************************************************************************)
(* Small instances of what goes on around the counters, for TLC: an import *)
(* of quantities (ImportJob), the shipments awaited (UpcomingStock), what  *)
(* a customer is told of a booking (BookingTimeline), the weekly report    *)
(* (ReportRun) and the sessions of an account (Sessions).  They share no   *)
(* state, so a behaviour runs one of the Parts and the others stay where   *)
(* they began.                                                             *)
(***************************************************************************)
EXTENDS ImportJob, UpcomingStock, BookingTimeline, ReportRun, Sessions, TLC

CONSTANTS
  Parts,       \* subset of {"import", "upcoming", "timeline", "report", "sessions"}
  r1, r2, r3,  \* rows of a sheet, in two chunks
  m1, m2,      \* arrivals
  s1, s2,      \* shipments
  b1, b2,      \* browsers
  x1, x2       \* two passes, movers, attempts or tabs, as the part has it

VARIABLE part

\* A restated figure above what is there, one that is the same, and one below it;
\* a receipt, a return and one of more than there is.
ChunkV == [r \in Row |-> IF r = r3 THEN 2 ELSE 1]
FigureV == [mode \in Mode |-> IF mode = "receive" THEN r1 :> 2 @@ r2 :> -1 @@ r3 :> -3
                                                  ELSE r1 :> 3 @@ r2 :> 2 @@ r3 :> 0]
OnHandV == r1 :> 1 @@ r2 :> 2 @@ r3 :> 3
ReservedV == r1 :> 1 @@ r2 :> 1 @@ r3 :> 0

\* The smaller shipment is due last; the second arrival may fill both.
AmountV == m1 :> 1 @@ m2 :> 2
ExpectedV == s1 :> 1 @@ s2 :> 2
EtaV == s1 :> 2 @@ s2 :> 1
WaitingV == {<<1, 1>>, <<2>>, <<2, 3>>, <<1, 0, 1>>}

\* The first browser has two tabs; the second signs in and out.
BrowserOfV == x1 :> b1 @@ x2 :> b1

\* Whoever works at once is interchangeable: each part is symmetric in x1 and x2.
Symmetry == Permutations({x1, x2})

BackOfficeInit ==
  /\ part \in Parts
  /\ ImportInit /\ UpcomingInit /\ TimelineInit /\ ReportInit /\ SessionInit
  /\ part # "import" => importMode = "receive"

BackOfficeNext ==
  \/ /\ part = "import" /\ ImportNext
     /\ UNCHANGED <<upcomingVars, timelineVars, reportVars, sessionVars, part>>
  \/ /\ part = "upcoming" /\ UpcomingNext
     /\ UNCHANGED <<importVars, timelineVars, reportVars, sessionVars, part>>
  \/ /\ part = "timeline" /\ TimelineNext
     /\ UNCHANGED <<importVars, upcomingVars, reportVars, sessionVars, part>>
  \/ /\ part = "report" /\ ReportNext
     /\ UNCHANGED <<importVars, upcomingVars, timelineVars, sessionVars, part>>
  \/ /\ part = "sessions" /\ SessionNext
     /\ UNCHANGED <<importVars, upcomingVars, timelineVars, reportVars, part>>

BackOfficeSpec ==
  BackOfficeInit
  /\ [][BackOfficeNext]_<<importVars, upcomingVars, timelineVars, reportVars, sessionVars, part>>

-----------------------------------------------------------------------------
\* Each part's documents hold what they may: the import and the shipments, the events
\* and mails of a booking, the record of the report, the sessions of the account.
BackOfficeTypeOK ==
  ImportTypeOK /\ UpcomingTypeOK /\ TimelineTypeOK /\ ReportTypeOK /\ SessionTypeOK
================================================================================
