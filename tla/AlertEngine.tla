------------------------------ MODULE AlertEngine ------------------------------
(***************************************************************************)
(* health.service.js and alert.service.js: whatever changes the inputs of  *)
(* a SKU's health recalculates its health row and announces it; the alert  *)
(* engine then compares the row with the SKU's live alerts and writes the  *)
(* difference.  Nothing of this is a transaction: readings and writes of   *)
(* several sweeps interleave, and people acknowledge, resolve and close    *)
(* alerts meanwhile.                                                       *)
(*                                                                         *)
(* The inputs of one SKU are its units on hand (none, if it has no         *)
(* balance), the planning data it lacks, and whether it is active; its     *)
(* target, the Max Level the formula gives, is a constant.  An alert type  *)
(* is named for the band or the missing input it reports.  How often a     *)
(* condition was seen again and what is pushed to whom is left out, so a   *)
(* live alert that is still wanted is not written at all.  Every rule is   *)
(* enabled: of a type that is disabled nothing is ever raised.             *)
(***************************************************************************)
EXTENDS Integers, Sequences, FiniteSets

CONSTANTS
  Inputs,      \* what the inputs of the SKU may be
  MaxLevel,    \* its target
  Sweep,       \* operations and rebuilds, each with the evaluation it announces
  Person,      \* people who handle alerts
  MaxTurns,    \* changes of the inputs and rebuilds in all
  MaxHandled,  \* alerts people handle in all
  MaxAlerts    \* alerts in all

MissingInput == {"NO_LEAD_TIME", "NO_CONSUMPTION", "NO_SAFETY_FACTOR"}

ASSUME AlertAssumption ==
  /\ \A i \in Inputs :
       i.onHand \in Int /\ i.lacking \subseteq MissingInput /\ i.live \in BOOLEAN
  /\ MaxLevel \in Nat \ {0}
  /\ MaxTurns \in Nat /\ MaxHandled \in Nat /\ MaxAlerts \in Nat

VARIABLES
  inputs,   \* the inputs of the SKU as they are now
  health,   \* the health row
  alert,    \* the alerts of the SKU, oldest first
  sweep,    \* sweep[w]: what sweep w has read and is still to write
  hand,     \* hand[p]: the alert person p has read
  turns,    \* changes and rebuilds so far
  handled,  \* alerts handled so far
  slip      \* history: what happened that the engine has no answer to

alertVars == <<inputs, health, alert, sweep, hand, turns, handled, slip>>

Band == {"Out of Stock", "Critical", "Low", "Healthy", "Overstock"}
Health ==
  [plannable : BOOLEAN, band : Band \cup {"Unknown"}, reasons : SUBSET (MissingInput \cup {"NOT_ACTIVE"})]
AlertType == (Band \ {"Healthy"}) \cup MissingInput \cup {"UNKNOWN_HEALTH"}
AlertStatus == {"Open", "Acknowledged", "Resolved", "Closed"}

AlertTypeOK ==
  /\ inputs \in Inputs /\ health \in Health
  /\ alert \in Seq([type : AlertType, status : AlertStatus, active : BOOLEAN])
  /\ sweep \in [Sweep -> [pc : {"moved", "projecting", "announced", "listing", "acting"},
                          saw : Health, clear : SUBSET AlertType, raise : SUBSET AlertType]]
  /\ hand \in [Person -> [on : 0..Len(alert), saw : AlertStatus, to : AlertStatus]]
  /\ \A i \in DOMAIN alert : alert[i].active => alert[i].status \in {"Open", "Acknowledged"}
  /\ slip \subseteq {"outdated", "crossed", "dismissed", "overtaken", "failed"}

\* The bands, from the bottom: the first that fits.
Classify(onHand) ==
  LET AtMost(percent) == onHand * 100 <= percent * MaxLevel
  IN  IF onHand = 0 THEN "Out of Stock"
      ELSE IF AtMost(33) THEN "Critical"
      ELSE IF AtMost(66) THEN "Low"
      ELSE IF AtMost(100) THEN "Healthy"
      ELSE "Overstock"

\* calculateHealth: without its planning data a SKU has no target and so no band.
HealthOf(i) ==
  LET reasons == i.lacking \cup {r \in {"NOT_ACTIVE"} : ~i.live}
  IN  [plannable |-> reasons = {}, reasons |-> reasons,
       band |-> IF reasons = {} THEN Classify(i.onHand) ELSE "Unknown"]

\* wantedFor: a SKU that cannot be planned is reported for the inputs it lacks, never
\* for its band.
Wanted(h) ==
  LET lacking == h.reasons \cap MissingInput
  IN  IF h.plannable THEN {h.band} \ {"Healthy"}
      ELSE IF lacking # {} THEN lacking ELSE {"UNKNOWN_HEALTH"}

\* The partial unique index: one alert per condition may be active.
Live(t) == {i \in DOMAIN alert : alert[i].type = t /\ alert[i].active}
KeyHeld(t) == Live(t) # {}

Idle(w) == sweep[w].pc = "acting" /\ sweep[w].clear = {} /\ sweep[w].raise = {}

\* A calculation or an evaluation is still to come that sees things as they are.
Recalculated ==
  \E w \in Sweep : \/ sweep[w].pc = "moved"
                   \/ sweep[w].pc = "projecting" /\ sweep[w].saw = HealthOf(inputs)
Reconsidered ==
  \E w \in Sweep : \/ sweep[w].pc \in {"moved", "projecting", "announced"}
                   \/ sweep[w].pc = "listing" /\ sweep[w].saw = health

Slips(what, bad) == slip' = IF bad THEN slip \cup {what} ELSE slip

-----------------------------------------------------------------------------
(* recomputeHealthForSkus and rebuildHealth.                               *)

\* Stock is posted, planning data or configuration saved; or health is rebuilt as it is.
Turns(w) ==
  /\ Idle(w) /\ turns < MaxTurns
  /\ inputs' \in Inputs
  /\ sweep' = [sweep EXCEPT ![w].pc = "moved"]
  /\ turns' = turns + 1
  /\ UNCHANGED <<health, alert, hand, handled, slip>>

\* Product, balances and configuration are read, and the rest is calculation.
ReadsInputs(w) ==
  /\ sweep[w].pc = "moved"
  /\ sweep' = [sweep EXCEPT ![w].pc = "projecting", ![w].saw = HealthOf(inputs)]
  /\ UNCHANGED <<inputs, health, alert, hand, turns, handled, slip>>

\* An upsert, whatever the row has become meanwhile; the event starts the evaluation.
WritesHealth(w) ==
  /\ sweep[w].pc = "projecting"
  /\ health' = sweep[w].saw
  /\ sweep' = [sweep EXCEPT ![w].pc = "announced"]
  /\ Slips("outdated", sweep[w].saw # HealthOf(inputs) /\ ~Recalculated)
  /\ UNCHANGED <<inputs, alert, hand, turns, handled>>

-----------------------------------------------------------------------------
(* evaluateSkus.                                                           *)

ReadsHealth(w) ==
  /\ sweep[w].pc = "announced"
  /\ sweep' = [sweep EXCEPT ![w].pc = "listing", ![w].saw = health]
  /\ UNCHANGED <<inputs, health, alert, hand, turns, handled, slip>>

\* The live alerts are read after the row, and the difference is worked out.
Lists(w) ==
  /\ sweep[w].pc = "listing"
  /\ sweep' = [sweep EXCEPT ![w].pc = "acting",
                 ![w].clear = {t \in AlertType : KeyHeld(t)} \ Wanted(sweep[w].saw),
                 ![w].raise = {t \in Wanted(sweep[w].saw) : ~KeyHeld(t)}]
  /\ UNCHANGED <<inputs, health, alert, hand, turns, handled, slip>>

\* A write for one type, out of what was read: harmful if the row no longer says so and
\* nobody will look again.
Crossed(w, t) == (t \in Wanted(sweep[w].saw)) # (t \in Wanted(health)) /\ ~Reconsidered

Resolved(a) == [a EXCEPT !.status = "Resolved", !.active = FALSE]

Resolves(w, t) ==
  /\ sweep[w].pc = "acting" /\ t \in sweep[w].clear
  /\ alert' = [i \in DOMAIN alert |-> IF i \in Live(t) THEN Resolved(alert[i]) ELSE alert[i]]
  /\ sweep' = [sweep EXCEPT ![w].clear = @ \ {t}]
  /\ Slips("crossed", Crossed(w, t))
  /\ UNCHANGED <<inputs, health, hand, turns, handled>>

NewAlert(t) == [type |-> t, status |-> "Open", active |-> TRUE]

\* raiseAlert touches a live alert and otherwise creates one; if the index refuses it,
\* it touches the winner.  createInBulk inserts and drops what the index refuses.  In
\* either case an alert is made only if the key is free at one moment.
Raises(w, t) ==
  /\ sweep[w].pc = "acting" /\ sweep[w].clear = {} /\ t \in sweep[w].raise
  /\ IF KeyHeld(t) THEN UNCHANGED alert
     ELSE /\ Len(alert) < MaxAlerts
          /\ alert' = Append(alert, NewAlert(t))
  /\ sweep' = [sweep EXCEPT ![w].raise = @ \ {t}]
  /\ Slips("crossed", Crossed(w, t))
  /\ UNCHANGED <<inputs, health, hand, turns, handled>>

\* A reading or a write fails, or the process stops: what is left is not done, but an
\* alert that cannot be created is given up alone.
SweepFails(w) ==
  /\ ~Idle(w)
  /\ \E left \in {{}} \cup {sweep[w].raise \ {t} : t \in sweep[w].raise} :
       sweep' = [sweep EXCEPT ![w].pc = "acting", ![w].raise = left,
                   ![w].clear = IF left = {} THEN {} ELSE @]
  /\ slip' = slip \cup {"failed"}
  /\ UNCHANGED <<inputs, health, alert, hand, turns, handled>>

-----------------------------------------------------------------------------
(* transitionAlert.                                                        *)

ALERT_TRANSITIONS ==
  [Open |-> {"Acknowledged", "Resolved", "Closed"}, Acknowledged |-> {"Resolved", "Closed"},
   Resolved |-> {"Closed"}, Closed |-> {}]

ReadsAlert(p, i, to) ==
  /\ hand[p].on = 0 /\ handled < MaxHandled
  /\ to \in ALERT_TRANSITIONS[alert[i].status]
  /\ hand' = [hand EXCEPT ![p] = [on |-> i, saw |-> alert[i].status, to |-> to]]
  /\ handled' = handled + 1
  /\ UNCHANGED <<inputs, health, alert, sweep, turns, slip>>

\* Mutant: any transition drops `active`.
FreesAlways(to) == TRUE

\* Ending an alert drops `active`, and with it the key.
FreesKey(to) == to \in {"Resolved", "Closed"}

\* The document read is saved by its id, whatever it has become meanwhile.
SavesAlert(p) ==
  LET i == hand[p].on
      to == hand[p].to
  IN  /\ i # 0
      /\ alert' = [alert EXCEPT ![i].status = to, ![i].active = @ /\ ~FreesKey(to)]
      /\ hand' = [hand EXCEPT ![p].on = 0]
      /\ slip' = slip \cup {e \in {"overtaken"} : alert[i].status # hand[p].saw}
                      \cup {e \in {"dismissed"} : to # "Acknowledged" /\ alert[i].active
                               /\ alert[i].type \in Wanted(health) /\ ~Reconsidered}
      /\ UNCHANGED <<inputs, health, sweep, turns, handled>>

-----------------------------------------------------------------------------
\* The row and the alerts are up to date.
AlertInit ==
  /\ inputs \in Inputs
  /\ health = HealthOf(inputs)
  /\ alert \in {<<>>} \cup {<<NewAlert(t)>> : t \in AlertType}
  /\ {alert[i].type : i \in DOMAIN alert} = Wanted(health)
  /\ sweep = [w \in Sweep |-> [pc |-> "acting", saw |-> health, clear |-> {}, raise |-> {}]]
  /\ hand = [p \in Person |-> [on |-> 0, saw |-> "Open", to |-> "Open"]]
  /\ turns = 0 /\ handled = 0 /\ slip = {}

AlertNext ==
  \/ \E w \in Sweep :
       \/ Turns(w) \/ ReadsInputs(w) \/ WritesHealth(w)
       \/ ReadsHealth(w) \/ Lists(w) \/ SweepFails(w)
       \/ \E t \in AlertType : Resolves(w, t) \/ Raises(w, t)
  \/ \E p \in Person :
       \/ \E i \in DOMAIN alert, to \in AlertStatus : ReadsAlert(p, i, to)
       \/ SavesAlert(p)

AlertSpec == AlertInit /\ [][AlertNext]_alertVars

-----------------------------------------------------------------------------
(* Properties.                                                             *)

\* Alerts a person sees as unfinished business.
Unfinished(t) == {i \in DOMAIN alert : alert[i].type = t /\ alert[i].status \in {"Open", "Acknowledged"}}

\* When nobody is at work a condition that the stock and its planning data meet has one
\* standing alert, and one they do not meet has none, however sweeps overlapped.  It
\* fails only where a sweep wrote, last of all, what it had read before another had moved
\* on ("outdated" for the row, "crossed" for an alert), a person ended the alert of a
\* condition that persists, a person's save went over another's or the engine's (a closed
\* alert stands again), or a sweep failed.
AlertsFollowHealth ==
  (slip = {} /\ \A w \in Sweep : Idle(w)) =>
    \A t \in AlertType : Cardinality(Unfinished(t)) = IF t \in Wanted(HealthOf(inputs)) THEN 1 ELSE 0
================================================================================
