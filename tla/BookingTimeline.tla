----------------------------- MODULE BookingTimeline -----------------------------
(***************************************************************************)
(* bookingStatus.service.js: the desk moves a booking to a stage, and the  *)
(* move is announced once: one event on the timeline, one mail.            *)
(*                                                                         *)
(* A booking is several rows, and updateMany writes them one by one: it is *)
(* no transaction, so two requests may interleave between rows.  The event *)
(* is numbered by a count made before it is inserted, and the mail goes    *)
(* out after that.                                                         *)
(***************************************************************************)
EXTENDS Integers, FiniteSetsExt

CONSTANTS
  OrderLine,  \* the rows of the booking
  Stage,      \* the lifecycle, 1..n
  Mover,      \* requests that may be at work at once
  MaxMoves    \* BOUND: requests to move the booking, and to send a mail again

ASSUME TimelineAssumption ==
  /\ IsFiniteSet(OrderLine) /\ OrderLine # {}
  /\ Stage \subseteq Nat \ {0} /\ 1 \in Stage
  /\ MaxMoves \in Nat

VARIABLES
  rowStage,  \* rowStage[l]: the status of row l
  timeline,  \* the events of the booking
  mover,     \* mover[m]:    what request m is doing
  asked,     \* requests so far
  entered,   \* history, entered[s]: requests that changed the status of a row to s
  astray     \* history, astray[s]:  what happened at s that the code has no answer to

timelineVars == <<rowStage, timeline, mover, asked, entered, astray>>

Cancelled == 0
Status == Stage \cup {Cancelled}

\* The event with dedupeKey to|nth; `sent' counts the mails that left for it.
Event == [to : Status, nth : Nat, mail : {"none", "pending", "sent", "failed"}, sent : Nat]
EventsOf(s) == {e \in timeline : e.to = s}
EventKeys == {<<e.to, e.nth>> : e \in timeline}

\* rows: those the update has still to visit; moved: it changed one.
MoverState ==
  [pc : {"idle", "moving", "counting", "inserting", "mailing", "stamping"},
   to : Status, rows : SUBSET OrderLine, moved : BOOLEAN, nth : Nat,
   outcome : {"none", "sent", "failed"}]
NoMover == [pc |-> "idle", to |-> Cancelled, rows |-> {}, moved |-> FALSE, nth |-> 0,
            outcome |-> "none"]

Astray == {"shared", "lost", "again", "unsaid"}

TimelineTypeOK ==
  /\ rowStage \in [OrderLine -> Status]
  /\ timeline \subseteq Event
  /\ mover \in [Mover -> MoverState]
  /\ asked \in 0..MaxMoves
  /\ entered \in [Status -> 0..MaxMoves]
  /\ astray \in [Status -> SUBSET Astray]

Strays(s, what) == astray' = [astray EXCEPT ![s] = @ \cup what]

-----------------------------------------------------------------------------
(* Moving the rows.                                                        *)

\* bookingStatusOf: the least advanced stage of the lines that are not cancelled.
LiveLines == {l \in OrderLine : rowStage[l] # Cancelled}
BookingStage == IF LiveLines = {} THEN Cancelled ELSE Min({rowStage[l] : l \in LiveLines})

\* applyBookingStatus reads the rows; a booking at that stage stays as it is.
AsksMove(m, s) ==
  /\ mover[m].pc = "idle" /\ asked < MaxMoves
  /\ BookingStage # s
  /\ asked' = asked + 1
  /\ mover' = [mover EXCEPT ![m] = [NoMover EXCEPT !.pc = "moving", !.to = s, !.rows = OrderLine]]
  /\ UNCHANGED <<rowStage, timeline, entered, astray>>

\* The filter of the update, `status: { $ne: status }'.
Matches(l, s) == rowStage[l] # s

\* Some other request has moved a row to s and has not recorded that.
Unrecorded(m, s) ==
  \E n \in Mover \ {m} :
    mover[n].to = s /\ mover[n].moved /\ mover[n].pc \in {"moving", "counting", "inserting"}

\* The update comes to row l.  Once it has been to all, a request that modified none
\* has nothing to announce.
VisitsRow(m, l) ==
  LET p == mover[m]
      moved == p.moved \/ Matches(l, p.to)
      first == rowStage[l] # p.to /\ ~p.moved
      rest == p.rows \ {l}
  IN  /\ p.pc = "moving" /\ l \in p.rows
      /\ rowStage' = [rowStage EXCEPT ![l] = p.to]
      /\ mover' = [mover EXCEPT ![m] =
           IF rest # {} THEN [p EXCEPT !.rows = rest, !.moved = moved]
           ELSE IF moved THEN [p EXCEPT !.rows = {}, !.moved = TRUE, !.pc = "counting"]
           ELSE NoMover]
      /\ entered' = [entered EXCEPT ![p.to] = @ + (IF first THEN 1 ELSE 0)]
      /\ Strays(p.to, IF first /\ Unrecorded(m, p.to) THEN {"shared"} ELSE {})
      /\ UNCHANGED <<timeline, asked>>

\* The booking is cancelled or expires, in a transaction that writes every row that is
\* not settled yet, so it can happen once; recordExternalStatusChange tells of it.
CancelsBooking(m) ==
  /\ mover[m].pc = "idle" /\ asked < MaxMoves
  /\ entered[Cancelled] = 0 /\ LiveLines # {}
  /\ asked' = asked + 1
  /\ rowStage' = [l \in OrderLine |-> Cancelled]
  /\ entered' = [entered EXCEPT ![Cancelled] = 1]
  /\ mover' = [mover EXCEPT ![m] = [NoMover EXCEPT !.pc = "counting", !.moved = TRUE]]
  /\ UNCHANGED <<timeline, astray>>

-----------------------------------------------------------------------------
(* recordEvent.                                                            *)

\* Mutant: the key names the stage alone.
StageAlone(s) == 0

\* How often the booking has been at s before.
Occurrence(s) == Cardinality(EventsOf(s))

CountsEvents(m) ==
  /\ mover[m].pc = "counting"
  /\ mover' = [mover EXCEPT ![m].pc = "inserting", ![m].nth = Occurrence(mover[m].to)]
  /\ UNCHANGED <<rowStage, timeline, asked, entered, astray>>

\* The unique key refuses a second event of that number, and then nothing is mailed.
InsertsEvent(m) ==
  LET p == mover[m]
      new == [to |-> p.to, nth |-> p.nth, mail |-> IF p.to = Cancelled THEN "none" ELSE "pending",
              sent |-> 0]
  IN  /\ p.pc = "inserting"
      /\ IF <<p.to, p.nth>> \in EventKeys
         THEN /\ mover' = [mover EXCEPT ![m] = NoMover]
              /\ UNCHANGED timeline
         ELSE /\ timeline' = timeline \cup {new}
              /\ mover' = [mover EXCEPT ![m] =
                   IF p.to = Cancelled THEN NoMover ELSE [p EXCEPT !.pc = "mailing"]]
      /\ UNCHANGED <<rowStage, asked, entered, astray>>

\* The write fails, or the process stops before it.
EventIsLost(m) ==
  /\ mover[m].pc \in {"moving", "counting", "inserting"}
  /\ mover' = [mover EXCEPT ![m] = NoMover]
  /\ Strays(mover[m].to, {"lost"})
  /\ UNCHANGED <<rowStage, timeline, asked, entered>>

-----------------------------------------------------------------------------
(* notifyCustomer and resendStatusMail.                                    *)

EventOf(m) == CHOOSE e \in timeline : e.to = mover[m].to /\ e.nth = mover[m].nth
Replaces(e, f) == timeline' = (timeline \ {e}) \cup {f}

\* The mail leaves, or it does not (refused, no address, switched off).
SendsMail(m, outcome) ==
  /\ mover[m].pc = "mailing"
  /\ mover' = [mover EXCEPT ![m].pc = "stamping", ![m].outcome = outcome]
  /\ IF outcome = "sent" THEN Replaces(EventOf(m), [EventOf(m) EXCEPT !.sent = @ + 1])
                         ELSE UNCHANGED timeline
  /\ UNCHANGED <<rowStage, asked, entered, astray>>

\* The outcome is written onto the event, whatever it says by now.
StampsEvent(m) ==
  /\ mover[m].pc = "stamping"
  /\ Replaces(EventOf(m), [EventOf(m) EXCEPT !.mail = mover[m].outcome])
  /\ mover' = [mover EXCEPT ![m] = NoMover]
  /\ UNCHANGED <<rowStage, asked, entered, astray>>

\* The process stops: what was sent is not written down.
MailIsUnsaid(m) ==
  /\ mover[m].pc \in {"mailing", "stamping"}
  /\ mover' = [mover EXCEPT ![m] = NoMover]
  /\ Strays(mover[m].to, {"unsaid"})
  /\ UNCHANGED <<rowStage, timeline, asked, entered>>

\* The desk may send again what the event does not call sent.
Resendable(e) == e.to # Cancelled /\ e.mail # "sent"

\* Somebody is sending the mail of e.
UnderWay(e) == \E n \in Mover : mover[n].pc \in {"mailing", "stamping"}
                                /\ mover[n].to = e.to /\ mover[n].nth = e.nth

ResendsMail(m) ==
  /\ mover[m].pc = "idle" /\ asked < MaxMoves
  /\ asked' = asked + 1
  /\ \E e \in timeline :
       /\ Resendable(e)
       /\ mover' = [mover EXCEPT ![m] =
            [NoMover EXCEPT !.pc = "mailing", !.to = e.to, !.nth = e.nth]]
       /\ Strays(e.to, IF UnderWay(e) THEN {"again"} ELSE {})
  /\ UNCHANGED <<rowStage, timeline, entered>>

-----------------------------------------------------------------------------
TimelineInit ==
  /\ rowStage = [l \in OrderLine |-> 1]
  /\ timeline = {}
  /\ mover = [m \in Mover |-> NoMover]
  /\ asked = 0
  /\ entered = [s \in Status |-> 0]
  /\ astray = [s \in Status |-> {}]

TimelineNext ==
  \E m \in Mover :
    \/ \E s \in Stage : AsksMove(m, s)
    \/ \E l \in OrderLine : VisitsRow(m, l)
    \/ CancelsBooking(m)
    \/ CountsEvents(m)
    \/ InsertsEvent(m)
    \/ EventIsLost(m)
    \/ \E outcome \in {"sent", "failed"} : SendsMail(m, outcome)
    \/ StampsEvent(m)
    \/ MailIsUnsaid(m)
    \/ ResendsMail(m)

TimelineSpec == TimelineInit /\ [][TimelineNext]_timelineVars

-----------------------------------------------------------------------------
(* Properties.                                                             *)

Settled(s) == \A m \in Mover : mover[m].pc = "idle" \/ mover[m].to # s

\* "Move every line, write ONE timeline event, email the customer ONCE, record against
\* that event whether the email actually went" (bookingStatus.service.js): a request
\* that changed the booking is one event, a double click is none, a stage entered again
\* is a new one, and an event is mailed at most once and says whether it was.  It fails
\* only after two requests moved rows to one stage before either was recorded (each may
\* find a row to move, and they may count the same number or one after the other), an
\* event was lost, a mail was sent again while the first was under way, or a process
\* stopped before it wrote down what it had sent.
AnnouncedOnce ==
  \A s \in Status :
    /\ Settled(s) /\ astray[s] \cap {"shared", "lost"} = {} =>
         Cardinality(EventsOf(s)) = entered[s]
    /\ astray[s] \cap {"again", "unsaid"} = {} =>
         \A e \in EventsOf(s) :
           e.sent <= 1 /\ (Settled(s) /\ e.to # Cancelled => (e.mail = "sent" <=> e.sent = 1))
================================================================================
