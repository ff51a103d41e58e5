---------------------------- MODULE StoresProofs ----------------------------
(***************************************************************************)
(* What is proved of the stores: of a physical count, of the alerts of a   *)
(* SKU, and of the ledger everything is posted to.                         *)
(*                                                                         *)
(* Counts: what holds of a physical count however its requests overtake    *)
(* each other and wherever they die.  Three arguments over the same        *)
(* actions:                                                                *)
(*   locks     an open line is locked until its count is over, and no SKU  *)
(*             is locked by two counts;                                    *)
(*   approval  a count that is being posted stands as it was approved, and *)
(*             the first batch of it is what differed then;                *)
(*   posting   whatever a batch still lacks - its fold, its record, its    *)
(*             linkage - a request is on the way to write.                 *)
(*                                                                         *)
(* Alerts: they follow the health of a SKU for any number of sweeps,       *)
(* people, turns and alerts.  Unless something has slipped, a health row   *)
(* that is wrong has a calculation on its way that will right it, and once *)
(* nobody will look again, every alert that is missing or too many is on   *)
(* the list of some sweep.                                                 *)
(*                                                                         *)
(* Ledger: for any set of keys and any number of overlapping calls, the    *)
(* ledger implements its book, a movement is reversed once, and a batch    *)
(* has one writer.  What makes it inductive is who holds a claim: while a  *)
(* movement is not doubtful it has at most one holder, its reversedBy says *)
(* Pending, and no contra-entry of it is in the ledger yet.                *)
(***************************************************************************)
EXTENDS MCStores, FiniteSetTheorems, TLAPS

Names == User \cup {Nobody}

\* The three forms of a request under way.
CreateCall == [step : {"insert", "undo", "close"}, count : Count, items : SUBSET Item]
SessionCall ==
  [step : {"save", "find", "post", "fold", "stamp", "record", "finish", "unlock"},
   count : Count, user : Names, aim : Statuses, saw : Statuses,
   lines : SUBSET Item, replayed : BOOLEAN]
EntryCall ==
  [step : {"enter"}, count : Count, user : Names, line : Item,
   found : {"uncounted", "same", "different"}]
Calls == {NoCall} \cup CreateCall \cup SessionCall \cup EntryCall

CountTypes ==
  /\ status \in [Count -> Statuses \cup {"none"}]
  /\ sheet \in [Count -> [Item -> CountLine]]
  /\ posting \in [Count -> [batch : SUBSET Item, folds : Nat, records : Nat, linked : BOOLEAN]]
  /\ approvedAs \in [Count -> SUBSET Item]
  /\ call \in [Request -> Calls]
  /\ odd \in [Count -> SUBSET Oddity]

-----------------------------------------------------------------------------
(* How an action moves its request.                                        *)

\* The step of a request tells its form.
LEMMA FormOfStep ==
  ASSUME CountTypes, NEW r \in Request
  PROVE  /\ call[r].step \in {"insert", "undo", "close"} => call[r] \in CreateCall
         /\ call[r].step \in {"save", "find", "post", "fold", "stamp", "record", "finish", "unlock"}
              => call[r] \in SessionCall
         /\ call[r].step = "enter" => call[r] \in EntryCall
         /\ call[r].step = "none" <=> call[r] = NoCall
         /\ call[r] # NoCall => call[r].count \in Count
BY DEF CountTypes, Calls, CreateCall, SessionCall, EntryCall, NoCall

LEMMA IdleStep == NoCall.step = "none"
BY DEF NoCall

LEMMA EndsCall ==
  ASSUME CountTypes, NEW r \in Request, Ends(r)
  PROVE  /\ call' \in [Request -> Calls] /\ call'[r] = NoCall
         /\ \A q \in Request : q # r => call'[q] = call[q]
BY DEF CountTypes, Ends, Calls

LEMMA ProceedsCreation ==
  ASSUME CountTypes, NEW r \in Request, call[r] \in CreateCall,
         NEW step \in {"insert", "undo", "close"}, Proceed(r, step)
  PROVE  /\ call' \in [Request -> Calls]
         /\ call'[r].step = step /\ call'[r].count = call[r].count /\ call'[r] # NoCall
         /\ \A q \in Request : q # r => call'[q] = call[q]
<1>1. call' = [call EXCEPT ![r] = [call[r] EXCEPT !.step = step]]
  BY DEF Proceed
<1>2. [call[r] EXCEPT !.step = step] \in CreateCall
  BY DEF CreateCall
<1>3. /\ [call[r] EXCEPT !.step = step].step = step
      /\ [call[r] EXCEPT !.step = step].count = call[r].count
  BY DEF CreateCall
<1> QED BY <1>1, <1>2, <1>3 DEF CountTypes, Calls, NoCall, CreateCall

LEMMA ProceedsSession ==
  ASSUME CountTypes, NEW r \in Request, call[r] \in SessionCall,
         NEW step \in {"save", "find", "post", "fold", "stamp", "record", "finish", "unlock"},
         NEW lines \in SUBSET Item, NEW again \in BOOLEAN,
         call' = [call EXCEPT ![r] = [call[r] EXCEPT !.step = step, !.lines = lines,
                                                     !.replayed = again]]
  PROVE  /\ call' \in [Request -> Calls]
         /\ call'[r].step = step /\ call'[r].count = call[r].count /\ call'[r] # NoCall
         /\ call'[r].lines = lines /\ call'[r].replayed = again
         /\ call'[r].aim = call[r].aim /\ call'[r].saw = call[r].saw
         /\ \A q \in Request : q # r => call'[q] = call[q]
<1> DEFINE k == [call[r] EXCEPT !.step = step, !.lines = lines, !.replayed = again]
<1>1. k \in SessionCall
  BY DEF SessionCall
<1>2. /\ k.step = step /\ k.count = call[r].count /\ k.lines = lines /\ k.replayed = again
      /\ k.aim = call[r].aim /\ k.saw = call[r].saw
  BY DEF SessionCall
<1>3. call' = [call EXCEPT ![r] = k]
  OBVIOUS
<1> HIDE DEF k
<1>4. k # NoCall
  BY <1>1 DEF SessionCall, NoCall
<1> QED BY <1>1, <1>2, <1>3, <1>4 DEF CountTypes, Calls

\* The same for a step that leaves the lines alone.
LEMMA ProceedsOn ==
  ASSUME CountTypes, NEW r \in Request, call[r] \in SessionCall,
         NEW step \in {"save", "find", "post", "fold", "stamp", "record", "finish", "unlock"},
         Proceed(r, step)
  PROVE  /\ call' \in [Request -> Calls]
         /\ call'[r].step = step /\ call'[r].count = call[r].count /\ call'[r] # NoCall
         /\ call'[r].lines = call[r].lines /\ call'[r].replayed = call[r].replayed
         /\ call'[r].aim = call[r].aim /\ call'[r].saw = call[r].saw
         /\ \A q \in Request : q # r => call'[q] = call[q]
<1> DEFINE k == [call[r] EXCEPT !.step = step]
<1>1. k \in SessionCall
  BY DEF SessionCall
<1>2. /\ k.step = step /\ k.count = call[r].count
      /\ k.lines = call[r].lines /\ k.replayed = call[r].replayed
      /\ k.aim = call[r].aim /\ k.saw = call[r].saw
  BY DEF SessionCall
<1>3. call' = [call EXCEPT ![r] = k]
  BY DEF Proceed
<1> HIDE DEF k
<1>4. k # NoCall
  BY <1>1 DEF SessionCall, NoCall
<1> QED BY <1>1, <1>2, <1>3, <1>4 DEF CountTypes, Calls

-----------------------------------------------------------------------------
(* What each action does, count by count and line by line.                 *)

\* The line of a sheet that is empty, and the one a new count begins with.
LEMMA NewLines ==
  /\ NoCountLine \in CountLine
  /\ ~NoCountLine.on /\ ~NoCountLine.lock /\ ~NoCountLine.posted /\ NoCountLine.found = "uncounted"
  /\ FreshLine \in CountLine
  /\ FreshLine.on /\ FreshLine.lock /\ ~FreshLine.posted /\ FreshLine.found = "uncounted"
BY DEF NoCountLine, FreshLine, CountLine

LEMMA CreatesEffect ==
  ASSUME CountTypes, NEW r \in Request, NEW c \in Count, NEW items \in SUBSET Item,
         CreatesCount(r, c, items)
  PROVE  /\ CountTypes'
         /\ status[c] = "none" /\ status'[c] = "Draft"
         /\ \A d \in Count : d # c => status'[d] = status[d]
         /\ call[r] = NoCall
         /\ call'[r].step = "insert" /\ call'[r].count = c /\ call'[r] # NoCall
         /\ \A q \in Request : q # r => call'[q] = call[q]
         /\ UNCHANGED <<sheet, posting, approvedAs, odd>>
<1>1. /\ status' = [status EXCEPT ![c] = "Draft"]
      /\ call' = [call EXCEPT ![r] = [step |-> "insert", count |-> c, items |-> items]]
      /\ status[c] = "none" /\ call[r] = NoCall
      /\ UNCHANGED <<sheet, posting, approvedAs, odd>>
  BY DEF CreatesCount, Begins
<1> DEFINE k == [step |-> "insert", count |-> c, items |-> items]
<1>2. k \in CreateCall /\ k # NoCall /\ k.step = "insert" /\ k.count = c
  BY DEF CreateCall, NoCall
<1>3. call' = [call EXCEPT ![r] = k]
  BY <1>1
<1> HIDE DEF k
<1>4. /\ call' \in [Request -> Calls] /\ call'[r] = k
      /\ \A q \in Request : q # r => call'[q] = call[q]
  BY <1>2, <1>3 DEF CountTypes, Calls
<1>5. status' \in [Count -> Statuses \cup {"none"}]
  BY <1>1 DEF CountTypes, Statuses
<1> QED BY <1>1, <1>2, <1>4, <1>5 DEF CountTypes

LEMMA InsertsEffect ==
  ASSUME CountTypes, NEW r \in Request, InsertsLines(r)
  PROVE  /\ CountTypes'
         /\ call[r].step = "insert" /\ call[r].count \in Count
         /\ \A d \in Count, s \in Item :
              \/ sheet'[d][s] = sheet[d][s]
              \/ /\ d = call[r].count /\ sheet'[d][s] = FreshLine
                 /\ \A e \in Count : ~sheet[e][s].lock
         /\ \/ call'[r] = NoCall
            \/ call'[r].step = "undo" /\ call'[r].count = call[r].count
         /\ \A q \in Request : q # r => call'[q] = call[q]
         /\ UNCHANGED <<status, posting, approvedAs, odd>>
<1> DEFINE c == call[r].count
           free == {s \in call[r].items : ~Locked(s)}
           lines == [s \in Item |-> IF s \in free THEN FreshLine ELSE sheet[c][s]]
<1>1. /\ call[r].step = "insert" /\ sheet' = [sheet EXCEPT ![c] = lines]
      /\ Ends(r) \/ Proceed(r, "undo")
      /\ UNCHANGED <<status, posting, approvedAs, odd>>
  BY DEF InsertsLines, At
<1>2. call[r] \in CreateCall /\ c \in Count
  BY <1>1, FormOfStep
<1>3. lines \in [Item -> CountLine]
  BY <1>2, NewLines DEF CountTypes
<1>4. \A s \in Item :
        \/ lines[s] = sheet[c][s]
        \/ lines[s] = FreshLine /\ \A e \in Count : ~sheet[e][s].lock
  BY DEF Locked
<1> HIDE DEF lines, free
<1>5. /\ sheet' \in [Count -> [Item -> CountLine]] /\ sheet'[c] = lines
      /\ \A d \in Count : d # c => sheet'[d] = sheet[d]
  BY <1>1, <1>2, <1>3 DEF CountTypes
<1>6. /\ call' \in [Request -> Calls]
      /\ call'[r] = NoCall \/ (call'[r].step = "undo" /\ call'[r].count = c)
      /\ \A q \in Request : q # r => call'[q] = call[q]
  BY <1>1, <1>2, EndsCall, ProceedsCreation
<1>7. CountTypes'
  BY <1>1, <1>5, <1>6 DEF CountTypes
<1> QED BY <1>1, <1>2, <1>4, <1>5, <1>6, <1>7

LEMMA DeletesEffect ==
  ASSUME CountTypes, NEW r \in Request, DeletesLines(r)
  PROVE  /\ CountTypes'
         /\ call[r].step = "undo" /\ call[r].count \in Count
         /\ \A d \in Count, s \in Item :
              sheet'[d][s] = IF d = call[r].count THEN NoCountLine ELSE sheet[d][s]
         /\ call'[r].step = "close" /\ call'[r].count = call[r].count
         /\ \A q \in Request : q # r => call'[q] = call[q]
         /\ UNCHANGED <<status, posting, approvedAs, odd>>
<1>1. /\ call[r].step = "undo" /\ Proceed(r, "close")
      /\ sheet' = [sheet EXCEPT ![call[r].count] = [s \in Item |-> NoCountLine]]
      /\ UNCHANGED <<status, posting, approvedAs, odd>>
  BY DEF DeletesLines, At
<1>2. call[r] \in CreateCall /\ call[r].count \in Count
  BY <1>1, FormOfStep
<1>3. [s \in Item |-> NoCountLine] \in [Item -> CountLine]
  BY DEF NoCountLine, CountLine
<1>4. sheet' \in [Count -> [Item -> CountLine]]
  BY <1>1, <1>2, <1>3 DEF CountTypes
<1>5. /\ call' \in [Request -> Calls]
      /\ call'[r].step = "close" /\ call'[r].count = call[r].count
      /\ \A q \in Request : q # r => call'[q] = call[q]
  BY <1>1, <1>2, ProceedsCreation
<1>6. CountTypes'
  BY <1>1, <1>4, <1>5 DEF CountTypes
<1> QED BY <1>1, <1>2, <1>5, <1>6 DEF CountTypes

LEMMA ClosesEffect ==
  ASSUME CountTypes, NEW r \in Request, ClosesOverlap(r)
  PROVE  /\ CountTypes'
         /\ call[r].step = "close" /\ call[r].count \in Count
         /\ status'[call[r].count] = "Cancelled"
         /\ \A d \in Count : d # call[r].count => status'[d] = status[d]
         /\ \A d \in Count, what \in Oddity :
              what \in odd'[d] <=> \/ what \in odd[d]
                                   \/ d = call[r].count /\ what = "overtaken" /\ status[call[r].count] # "Draft"
         /\ call'[r] = NoCall
         /\ \A q \in Request : q # r => call'[q] = call[q]
         /\ UNCHANGED <<sheet, posting, approvedAs>>
<1>1. /\ call[r].step = "close" /\ Ends(r)
      /\ status' = [status EXCEPT ![call[r].count] = "Cancelled"]
      /\ odd' = [odd EXCEPT ![call[r].count] = odd[call[r].count]
                   \cup (IF status[call[r].count] # "Draft" THEN {"overtaken"} ELSE {})]
      /\ UNCHANGED <<sheet, posting, approvedAs>>
  BY DEF ClosesOverlap, At, Happens
<1>2. call[r].count \in Count
  BY <1>1, FormOfStep DEF CreateCall
<1>3. odd' \in [Count -> SUBSET Oddity] /\ status' \in [Count -> Statuses \cup {"none"}]
  BY <1>1, <1>2 DEF CountTypes, Oddity, Statuses
<1>4. \A d \in Count, what \in Oddity :
        what \in odd'[d] <=> what \in odd[d] \/ (d = call[r].count /\ what = "overtaken"
                                                  /\ status[call[r].count] # "Draft")
  BY <1>1, <1>2 DEF CountTypes
<1> QED BY <1>1, <1>2, <1>3, <1>4, EndsCall DEF CountTypes

LEMMA ReadsEffect ==
  ASSUME CountTypes, NEW r \in Request, NEW c \in Count, NEW u \in Names,
         NEW aim \in Statuses, NEW step \in {"save", "find"}, Reads(r, c, u, aim, step)
  PROVE  /\ CountTypes'
         /\ call[r] = NoCall /\ aim \in Allowed(status[c])
         /\ call'[r].step = step /\ call'[r].count = c /\ call'[r] # NoCall
         /\ call'[r].aim = aim /\ call'[r].saw = status[c]
         /\ \A q \in Request : q # r => call'[q] = call[q]
         /\ UNCHANGED <<status, sheet, posting, approvedAs, odd>>
<1> DEFINE k == [step |-> step, count |-> c, user |-> u, aim |-> aim, saw |-> status[c],
                 lines |-> {}, replayed |-> FALSE]
<1>1. /\ call[r] = NoCall /\ aim \in Allowed(status[c])
      /\ call' = [call EXCEPT ![r] = k]
      /\ UNCHANGED <<status, sheet, posting, approvedAs, odd>>
  BY DEF Reads, Begins
<1>2. status[c] \in Statuses
  BY <1>1 DEF Allowed, CountTypes, Statuses
<1>3. k \in SessionCall /\ k # NoCall
  BY <1>2 DEF SessionCall, NoCall
<1>4. k.step = step /\ k.count = c /\ k.aim = aim /\ k.saw = status[c]
  OBVIOUS
<1> HIDE DEF k
<1>5. /\ call' \in [Request -> Calls] /\ call'[r] = k
      /\ \A q \in Request : q # r => call'[q] = call[q]
  BY <1>1, <1>3 DEF CountTypes, Calls
<1>6. CountTypes'
  BY <1>1, <1>5 DEF CountTypes
<1> QED BY <1>1, <1>3, <1>4, <1>5, <1>6

LEMMA SavesEffect ==
  ASSUME CountTypes, NEW r \in Request, SavesCount(r)
  PROVE  /\ CountTypes'
         /\ call[r].step = "save" /\ call[r].count \in Count
         /\ status'[call[r].count] = call[r].aim
         /\ \A d \in Count : d # call[r].count =>
              status'[d] = status[d] /\ approvedAs'[d] = approvedAs[d]
         /\ approvedAs'[call[r].count] =
              IF call[r].aim = "Approved" THEN Variances(call[r].count) ELSE approvedAs[call[r].count]
         /\ \A d \in Count, what \in Oddity :
              what \in odd'[d] <=> \/ what \in odd[d]
                                   \/ d = call[r].count /\ what = "overtaken" /\ status[call[r].count] # call[r].saw
         /\ IF call[r].aim = "Cancelled"
            THEN call'[r].step = "unlock" /\ call'[r].count = call[r].count
            ELSE call'[r] = NoCall
         /\ \A q \in Request : q # r => call'[q] = call[q]
         /\ UNCHANGED <<sheet, posting>>
<1> DEFINE c == call[r].count
<1>1. /\ call[r].step = "save"
      /\ status' = [status EXCEPT ![c] = call[r].aim]
      /\ approvedAs' = IF call[r].aim = "Approved" THEN [approvedAs EXCEPT ![c] = Variances(c)]
                                                   ELSE approvedAs
      /\ odd' = [odd EXCEPT ![c] = odd[c]
                   \cup (IF status[c] # call[r].saw THEN {"overtaken"} ELSE {})]
      /\ IF call[r].aim = "Cancelled" THEN Proceed(r, "unlock") ELSE Ends(r)
      /\ UNCHANGED <<sheet, posting>>
  BY DEF SavesCount, At, Happens
<1>2. call[r] \in SessionCall
  BY <1>1, FormOfStep
<1>3. c \in Count /\ call[r].aim \in Statuses
  BY <1>2 DEF SessionCall
<1>4. Variances(c) \in SUBSET Item
  BY DEF Variances
<1> HIDE DEF c
<1>5. odd' \in [Count -> SUBSET Oddity]
  BY <1>1, <1>3 DEF CountTypes, Oddity
<1>6. status' \in [Count -> Statuses \cup {"none"}] /\ approvedAs' \in [Count -> SUBSET Item]
  BY <1>1, <1>3, <1>4 DEF CountTypes
<1>7. /\ call' \in [Request -> Calls]
      /\ IF call[r].aim = "Cancelled"
         THEN call'[r].step = "unlock" /\ call'[r].count = c
         ELSE call'[r] = NoCall
      /\ \A q \in Request : q # r => call'[q] = call[q]
  <2>1. CASE call[r].aim = "Cancelled"
    BY <1>1, <1>2, <2>1, ProceedsOn DEF c
  <2>2. CASE call[r].aim # "Cancelled"
    BY <1>1, <2>2, EndsCall
  <2> QED BY <2>1, <2>2
<1>8. CountTypes'
  BY <1>1, <1>5, <1>6, <1>7 DEF CountTypes
<1>9. /\ status'[c] = call[r].aim
      /\ approvedAs'[c] = IF call[r].aim = "Approved" THEN Variances(c) ELSE approvedAs[c]
      /\ \A d \in Count : d # c =>
           status'[d] = status[d] /\ approvedAs'[d] = approvedAs[d]
  BY <1>1, <1>3 DEF CountTypes
<1>10. \A d \in Count, what \in Oddity :
         what \in odd'[d] <=> what \in odd[d] \/ (d = c /\ what = "overtaken" /\ status[c] # call[r].saw)
  BY <1>1, <1>3 DEF CountTypes
<1> QED BY <1>1, <1>3, <1>7, <1>8, <1>9, <1>10 DEF c

LEMMA ReadsEntryEffect ==
  ASSUME CountTypes, NEW r \in Request, NEW c \in Count, NEW u \in User, NEW s \in Item,
         NEW found \in {"same", "different"}, ReadsToEnter(r, c, u, s, found)
  PROVE  /\ CountTypes'
         /\ call[r] = NoCall /\ status[c] = "Counting"
         /\ call'[r].step = "enter" /\ call'[r].count = c
         /\ \A q \in Request : q # r => call'[q] = call[q]
         /\ UNCHANGED <<status, sheet, posting, approvedAs, odd>>
<1> DEFINE k == [step |-> "enter", count |-> c, user |-> u, line |-> s, found |-> found]
<1>1. /\ call[r] = NoCall /\ status[c] = "Counting"
      /\ call' = [call EXCEPT ![r] = k]
      /\ UNCHANGED <<status, sheet, posting, approvedAs, odd>>
  BY DEF ReadsToEnter, Begins
<1>2. k \in EntryCall /\ k.step = "enter" /\ k.count = c
  BY DEF EntryCall, Names
<1> HIDE DEF k
<1>3. /\ call' \in [Request -> Calls] /\ call'[r] = k
      /\ \A q \in Request : q # r => call'[q] = call[q]
  BY <1>1, <1>2 DEF CountTypes, Calls
<1> QED BY <1>1, <1>2, <1>3 DEF CountTypes

LEMMA EntersEffect ==
  ASSUME CountTypes, NEW r \in Request, Enters(r)
  PROVE  /\ CountTypes'
         /\ call[r].step = "enter" /\ call[r].count \in Count
         /\ \A d \in Count, s \in Item :
              /\ sheet'[d][s].on = sheet[d][s].on /\ sheet'[d][s].lock = sheet[d][s].lock
              /\ sheet'[d][s].posted = sheet[d][s].posted
              /\ d # call[r].count => sheet'[d][s] = sheet[d][s]
         /\ \A d \in Count, what \in Oddity :
              what \in odd'[d] <=> \/ what \in odd[d]
                                   \/ d = call[r].count /\ what = "late" /\ status[call[r].count] # "Counting"
         /\ call'[r] = NoCall
         /\ \A q \in Request : q # r => call'[q] = call[q]
         /\ UNCHANGED <<status, posting, approvedAs>>
<1> DEFINE c == call[r].count
           s == call[r].line
<1>1. /\ call[r].step = "enter" /\ Ends(r)
      /\ \/ sheet' = sheet
         \/ sheet' = [sheet EXCEPT ![c][s].found = call[r].found, ![c][s].countedBy = call[r].user]
      /\ odd' = [odd EXCEPT ![c] = odd[c] \cup (IF status[c] # "Counting" THEN {"late"} ELSE {})]
      /\ UNCHANGED <<status, posting, approvedAs>>
  BY DEF Enters, At, Happens
<1>2. call[r] \in EntryCall
  BY <1>1, FormOfStep
<1>3. /\ c \in Count /\ s \in Item /\ call[r].user \in Names
      /\ call[r].found \in {"uncounted", "same", "different"}
  BY <1>2 DEF EntryCall
<1> DEFINE found == call[r].found
           user == call[r].user
           new == [sheet[c][s] EXCEPT !.found = found, !.countedBy = user]
<1>4. /\ new \in CountLine /\ new.on = sheet[c][s].on /\ new.lock = sheet[c][s].lock
      /\ new.posted = sheet[c][s].posted
  <2> HIDE DEF c, s, found, user
  <2>1. sheet[c][s] \in CountLine
    BY <1>3 DEF CountTypes
  <2>2. found \in {"uncounted", "same", "different"} /\ user \in User \cup {Nobody}
    BY <1>3 DEF Names, found, user
  <2> QED BY <2>1, <2>2 DEF CountLine
<1>5. sheet' = sheet \/ sheet' = [sheet EXCEPT ![c] = [sheet[c] EXCEPT ![s] = new]]
  <2>1. ASSUME sheet' = [sheet EXCEPT ![c][s].found = found, ![c][s].countedBy = user]
        PROVE  sheet' = [sheet EXCEPT ![c] = [sheet[c] EXCEPT ![s] = new]]
    <3> HIDE DEF c, s, found, user
    <3> QED BY <1>3, <2>1 DEF CountTypes
  <2> QED BY <1>1, <2>1
<1> HIDE DEF c, s, found, user, new
<1>6. /\ sheet' \in [Count -> [Item -> CountLine]]
      /\ \A d \in Count, t \in Item :
           /\ sheet'[d][t].on = sheet[d][t].on /\ sheet'[d][t].lock = sheet[d][t].lock
           /\ sheet'[d][t].posted = sheet[d][t].posted
           /\ d # c => sheet'[d][t] = sheet[d][t]
  <2>1. CASE sheet' = sheet
    BY <2>1 DEF CountTypes
  <2>2. CASE sheet' = [sheet EXCEPT ![c] = [sheet[c] EXCEPT ![s] = new]]
    <3> DEFINE lines == [sheet[c] EXCEPT ![s] = new]
    <3>1. /\ lines \in [Item -> CountLine] /\ lines[s] = new
          /\ \A t \in Item : t # s => lines[t] = sheet[c][t]
      BY <1>3, <1>4 DEF CountTypes
    <3> HIDE DEF lines
    <3>2. /\ sheet' \in [Count -> [Item -> CountLine]] /\ sheet'[c] = lines
          /\ \A d \in Count : d # c => sheet'[d] = sheet[d]
      BY <1>3, <2>2, <3>1 DEF CountTypes, lines
    <3> QED BY <1>4, <3>1, <3>2
  <2> QED BY <1>5, <2>1, <2>2
<1>7. odd' \in [Count -> SUBSET Oddity]
  BY <1>1, <1>3 DEF CountTypes, Oddity
<1>8. \A d \in Count, what \in Oddity :
        what \in odd'[d] <=> what \in odd[d] \/ (d = c /\ what = "late" /\ status[c] # "Counting")
  BY <1>1, <1>3 DEF CountTypes
<1>9. CountTypes'
  BY <1>1, <1>6, <1>7, EndsCall DEF CountTypes
<1> QED BY <1>1, <1>3, <1>6, <1>8, <1>9, EndsCall DEF c

LEMMA FindsEffect ==
  ASSUME CountTypes, NEW r \in Request, FindsVariances(r)
  PROVE  /\ CountTypes'
         /\ call[r].step = "find" /\ call[r].count \in Count
         /\ call'[r].lines = {s \in Variances(call[r].count) : ~sheet[call[r].count][s].posted}
         /\ call'[r].step = IF call'[r].lines = {} THEN "finish" ELSE "post"
         /\ call'[r].count = call[r].count
         /\ \A q \in Request : q # r => call'[q] = call[q]
         /\ UNCHANGED <<status, sheet, posting, approvedAs, odd>>
<1> DEFINE open == {s \in Variances(call[r].count) : ~sheet[call[r].count][s].posted}
           step == IF open = {} THEN "finish" ELSE "post"
<1>1. /\ call[r].step = "find"
      /\ call' = [call EXCEPT ![r].lines = open, ![r].step = step]
      /\ UNCHANGED <<status, sheet, posting, approvedAs, odd>>
  BY DEF FindsVariances, At
<1>2. call[r] \in SessionCall /\ call[r].count \in Count
  BY <1>1, FormOfStep
<1>3. /\ open \in SUBSET Item /\ step \in {"finish", "post"}
      /\ step = IF open = {} THEN "finish" ELSE "post"
  BY DEF Variances
<1> HIDE DEF open, step
<1>4. /\ call' \in [Request -> Calls]
      /\ call'[r].step = step /\ call'[r].count = call[r].count /\ call'[r].lines = open
      /\ \A q \in Request : q # r => call'[q] = call[q]
  <2> DEFINE k == [call[r] EXCEPT !.lines = open, !.step = step]
  <2>1. k \in SessionCall
    BY <1>2, <1>3 DEF SessionCall
  <2>2. k.step = step /\ k.count = call[r].count /\ k.lines = open
    BY <1>2 DEF SessionCall
  <2>3. call' = [call EXCEPT ![r] = k]
    BY <1>1 DEF CountTypes
  <2> HIDE DEF k
  <2> QED BY <2>1, <2>2, <2>3 DEF CountTypes, Calls
<1>5. CountTypes'
  BY <1>1, <1>4 DEF CountTypes
<1> QED BY <1>1, <1>2, <1>3, <1>4, <1>5 DEF open

LEMMA PostsEffect ==
  ASSUME CountTypes, NEW r \in Request, PostsVariances(r)
  PROVE  /\ CountTypes'
         /\ call[r].step = "post" /\ call[r].count \in Count
         /\ posting'[call[r].count].batch =
              IF posting[call[r].count].batch = {} THEN call[r].lines ELSE posting[call[r].count].batch
         /\ \A d \in Count :
              /\ posting'[d].folds = posting[d].folds /\ posting'[d].records = posting[d].records
              /\ posting'[d].linked = posting[d].linked
              /\ d # call[r].count => posting'[d].batch = posting[d].batch
         /\ call'[r].step = "fold" /\ call'[r].count = call[r].count
         /\ call'[r].lines = call[r].lines
         /\ call'[r].replayed = (posting[call[r].count].batch # {})
         /\ \A q \in Request : q # r => call'[q] = call[q]
         /\ UNCHANGED <<status, sheet, approvedAs, odd>>
<1> DEFINE c == call[r].count
           replay == posting[c].batch # {}
           lines == call[r].lines
<1>1. /\ call[r].step = "post"
      /\ posting' = IF replay THEN posting ELSE [posting EXCEPT ![c].batch = lines]
      /\ call' = [call EXCEPT ![r].step = "fold", ![r].replayed = replay]
      /\ UNCHANGED <<status, sheet, approvedAs, odd>>
  BY DEF PostsVariances, At
<1>2. call[r] \in SessionCall /\ c \in Count
  BY <1>1, FormOfStep
<1>3. replay \in BOOLEAN /\ lines \in SUBSET Item
  BY <1>2 DEF SessionCall
<1>4. /\ call' \in [Request -> Calls]
      /\ call'[r].step = "fold" /\ call'[r].count = c /\ call'[r].lines = lines
      /\ call'[r].replayed = replay
      /\ \A q \in Request : q # r => call'[q] = call[q]
  <2> HIDE DEF replay
  <2> DEFINE k == [call[r] EXCEPT !.step = "fold", !.replayed = replay]
  <2>1. k \in SessionCall
    BY <1>2, <1>3 DEF SessionCall
  <2>2. k.step = "fold" /\ k.count = c /\ k.lines = lines /\ k.replayed = replay
    BY <1>2 DEF SessionCall
  <2>3. call' = [call EXCEPT ![r] = k]
    BY <1>1 DEF CountTypes
  <2> HIDE DEF k
  <2> QED BY <2>1, <2>2, <2>3 DEF CountTypes, Calls
<1>5. /\ posting' \in [Count -> [batch : SUBSET Item, folds : Nat, records : Nat, linked : BOOLEAN]]
      /\ posting'[c].batch = IF posting[c].batch = {} THEN lines ELSE posting[c].batch
      /\ \A d \in Count :
           /\ posting'[d].folds = posting[d].folds /\ posting'[d].records = posting[d].records
           /\ posting'[d].linked = posting[d].linked
           /\ d # c => posting'[d].batch = posting[d].batch
  <2>1. CASE replay
    BY <1>1, <2>1 DEF CountTypes
  <2>2. CASE ~replay
    <3> HIDE DEF lines, c
    <3>1. posting' = [posting EXCEPT ![c] = [posting[c] EXCEPT !.batch = lines]]
      BY <1>1, <2>2
    <3> QED BY <1>2, <1>3, <2>2, <3>1 DEF CountTypes
  <2> QED BY <2>1, <2>2
<1>6. CountTypes'
  BY <1>1, <1>4, <1>5 DEF CountTypes
<1> QED BY <1>1, <1>2, <1>4, <1>5, <1>6

LEMMA FoldsEffect ==
  ASSUME CountTypes, NEW r \in Request, FoldsBatch(r)
  PROVE  /\ CountTypes'
         /\ call[r].step = "fold" /\ call[r].count \in Count
         /\ posting'[call[r].count].folds =
              posting[call[r].count].folds + (IF call[r].replayed THEN 0 ELSE 1)
         /\ \A d \in Count :
              /\ posting'[d].batch = posting[d].batch /\ posting'[d].records = posting[d].records
              /\ posting'[d].linked = posting[d].linked
              /\ d # call[r].count => posting'[d].folds = posting[d].folds
         /\ call'[r].step = "stamp" /\ call'[r].count = call[r].count
         /\ call'[r].lines = call[r].lines
         /\ \A q \in Request : q # r => call'[q] = call[q]
         /\ UNCHANGED <<status, sheet, approvedAs, odd>>
<1> DEFINE c == call[r].count
           folds == posting[c].folds + 1
<1>1. /\ call[r].step = "fold" /\ Proceed(r, "stamp")
      /\ posting' = IF call[r].replayed THEN posting ELSE [posting EXCEPT ![c].folds = folds]
      /\ UNCHANGED <<status, sheet, approvedAs, odd>>
  BY DEF FoldsBatch, At
<1>2. call[r] \in SessionCall /\ c \in Count
  BY <1>1, FormOfStep
<1>3. folds \in Nat /\ folds = posting[c].folds + 1
  BY <1>2 DEF CountTypes
<1>4. /\ posting' \in [Count -> [batch : SUBSET Item, folds : Nat, records : Nat, linked : BOOLEAN]]
      /\ posting'[c].folds = posting[c].folds + (IF call[r].replayed THEN 0 ELSE 1)
      /\ \A d \in Count :
           /\ posting'[d].batch = posting[d].batch /\ posting'[d].records = posting[d].records
           /\ posting'[d].linked = posting[d].linked
           /\ d # c => posting'[d].folds = posting[d].folds
  <2>1. CASE call[r].replayed
    BY <1>1, <1>2, <2>1 DEF CountTypes
  <2>2. CASE ~call[r].replayed
    <3> HIDE DEF folds, c
    <3>1. posting' = [posting EXCEPT ![c] = [posting[c] EXCEPT !.folds = folds]]
      BY <1>1, <2>2
    <3> QED BY <1>2, <1>3, <2>2, <3>1 DEF CountTypes
  <2> QED BY <2>1, <2>2
<1>5. CountTypes'
  BY <1>1, <1>2, <1>4, ProceedsOn DEF CountTypes
<1> QED BY <1>1, <1>2, <1>4, <1>5, ProceedsOn

LEMMA StampsEffect ==
  ASSUME CountTypes, NEW r \in Request, StampsLines(r)
  PROVE  /\ CountTypes'
         /\ call[r].step = "stamp" /\ call[r].count \in Count
         /\ \A d \in Count, s \in Item :
              /\ sheet'[d][s].on = sheet[d][s].on /\ sheet'[d][s].lock = sheet[d][s].lock
              /\ sheet'[d][s].found = sheet[d][s].found
              /\ sheet'[d][s].posted => sheet[d][s].posted \/ d = call[r].count
         /\ call'[r].step = "record" /\ call'[r].count = call[r].count
         /\ call'[r].lines = call[r].lines
         /\ \A q \in Request : q # r => call'[q] = call[q]
         /\ UNCHANGED <<status, posting, approvedAs, odd>>
<1> DEFINE c == call[r].count
           lines == [s \in Item |-> IF s \in call[r].lines THEN [sheet[c][s] EXCEPT !.posted = TRUE]
                                                           ELSE sheet[c][s]]
<1>1. /\ call[r].step = "stamp" /\ Proceed(r, "record")
      /\ sheet' = [sheet EXCEPT ![c] = lines]
      /\ UNCHANGED <<status, posting, approvedAs, odd>>
  BY DEF StampsLines, At
<1>2. call[r] \in SessionCall /\ c \in Count
  BY <1>1, FormOfStep
<1>3. \A s \in Item : /\ lines[s] \in CountLine
                      /\ lines[s].on = sheet[c][s].on /\ lines[s].lock = sheet[c][s].lock
                      /\ lines[s].found = sheet[c][s].found
  <2> TAKE s \in Item
  <2>1. sheet[c][s] \in CountLine
    BY <1>2 DEF CountTypes
  <2>2. lines[s] = IF s \in call[r].lines THEN [sheet[c][s] EXCEPT !.posted = TRUE] ELSE sheet[c][s]
    OBVIOUS
  <2> HIDE DEF lines
  <2> QED BY <2>1, <2>2 DEF CountLine
<1>4. lines \in [Item -> CountLine]
  BY <1>3
<1> HIDE DEF lines
<1>5. /\ sheet' \in [Count -> [Item -> CountLine]] /\ sheet'[c] = lines
      /\ \A d \in Count : d # c => sheet'[d] = sheet[d]
  BY <1>1, <1>2, <1>4 DEF CountTypes
<1>6. CountTypes'
  BY <1>1, <1>2, <1>5, ProceedsOn DEF CountTypes
<1> QED BY <1>1, <1>2, <1>3, <1>5, <1>6, ProceedsOn

LEMMA RecordEffect ==
  ASSUME CountTypes, NEW r \in Request, WritesRecord(r)
  PROVE  /\ CountTypes'
         /\ call[r].step = "record" /\ call[r].count \in Count
         /\ posting'[call[r].count].records > 0
         /\ \A d \in Count :
              /\ posting'[d].batch = posting[d].batch /\ posting'[d].folds = posting[d].folds
              /\ posting'[d].linked = posting[d].linked
              /\ d # call[r].count => posting'[d].records = posting[d].records
         /\ call'[r].step = "finish" /\ call'[r].count = call[r].count
         /\ call'[r].lines = call[r].lines
         /\ \A q \in Request : q # r => call'[q] = call[q]
         /\ UNCHANGED <<status, sheet, approvedAs, odd>>
<1> DEFINE c == call[r].count
           records == posting[c].records + 1
<1>1. /\ call[r].step = "record" /\ Proceed(r, "finish")
      /\ posting' = [posting EXCEPT ![c].records = records]
      /\ UNCHANGED <<status, sheet, approvedAs, odd>>
  BY DEF WritesRecord, At
<1>2. call[r] \in SessionCall /\ c \in Count
  BY <1>1, FormOfStep
<1>3. records \in Nat /\ records > 0
  BY <1>2 DEF CountTypes
<1> HIDE DEF c, records
<1>4. posting' = [posting EXCEPT ![c] = [posting[c] EXCEPT !.records = records]]
  BY <1>1
<1>5. /\ posting' \in [Count -> [batch : SUBSET Item, folds : Nat, records : Nat, linked : BOOLEAN]]
      /\ posting'[c].records = records
      /\ \A d \in Count :
           /\ posting'[d].batch = posting[d].batch /\ posting'[d].folds = posting[d].folds
           /\ posting'[d].linked = posting[d].linked
           /\ d # c => posting'[d].records = posting[d].records
  BY <1>2, <1>3, <1>4 DEF CountTypes
<1>6. CountTypes'
  BY <1>1, <1>2, <1>5, ProceedsOn DEF CountTypes
<1> QED BY <1>1, <1>2, <1>3, <1>5, <1>6, ProceedsOn DEF c

LEMMA PostedEffect ==
  ASSUME CountTypes, NEW r \in Request, SavesPosted(r)
  PROVE  /\ CountTypes'
         /\ call[r].step = "finish" /\ call[r].count \in Count
         /\ status'[call[r].count] = "Posted"
         /\ \A d \in Count : d # call[r].count => status'[d] = status[d]
         /\ \A d \in Count, what \in Oddity :
              what \in odd'[d] <=> \/ what \in odd[d]
                                   \/ d = call[r].count /\ what = "overtaken" /\ status[call[r].count] \notin {"Approved", "Posted"}
         /\ \A d \in Count :
              /\ posting'[d].batch = posting[d].batch /\ posting'[d].folds = posting[d].folds
              /\ posting'[d].records = posting[d].records
              /\ posting[d].linked => posting'[d].linked
         /\ call[r].lines # {} => posting'[call[r].count].linked
         /\ call'[r].step = "unlock" /\ call'[r].count = call[r].count
         /\ \A q \in Request : q # r => call'[q] = call[q]
         /\ UNCHANGED <<sheet, approvedAs>>
<1> DEFINE c == call[r].count
           linked == posting[c].linked \/ call[r].lines # {}
<1>1. /\ call[r].step = "finish" /\ Proceed(r, "unlock")
      /\ status' = [status EXCEPT ![c] = "Posted"]
      /\ posting' = [posting EXCEPT ![c].linked = linked]
      /\ odd' = [odd EXCEPT ![c] = odd[c]
                   \cup (IF status[c] \notin {"Approved", "Posted"} THEN {"overtaken"} ELSE {})]
      /\ UNCHANGED <<sheet, approvedAs>>
  BY DEF SavesPosted, At, Happens
<1>2. call[r] \in SessionCall /\ c \in Count
  BY <1>1, FormOfStep
<1>3. /\ linked \in BOOLEAN /\ (posting[c].linked => linked) /\ (call[r].lines # {} => linked)
  BY <1>2 DEF CountTypes
<1> HIDE DEF c, linked
<1>4. posting' = [posting EXCEPT ![c] = [posting[c] EXCEPT !.linked = linked]]
  BY <1>1
<1>5. posting' \in [Count -> [batch : SUBSET Item, folds : Nat, records : Nat, linked : BOOLEAN]]
  BY <1>2, <1>3, <1>4 DEF CountTypes
<1>6. /\ posting'[c].linked = linked
      /\ \A d \in Count :
           /\ posting'[d].batch = posting[d].batch /\ posting'[d].folds = posting[d].folds
           /\ posting'[d].records = posting[d].records
           /\ d # c => posting'[d].linked = posting[d].linked
  BY <1>2, <1>3, <1>4 DEF CountTypes
<1>7. odd' \in [Count -> SUBSET Oddity] /\ status' \in [Count -> Statuses \cup {"none"}]
  BY <1>1, <1>2 DEF CountTypes, Oddity, Statuses
<1>8. /\ status'[c] = "Posted"
      /\ \A d \in Count : d # c => status'[d] = status[d]
      /\ \A d \in Count, what \in Oddity :
           what \in odd'[d] <=> what \in odd[d] \/ (d = c /\ what = "overtaken"
                                                     /\ status[c] \notin {"Approved", "Posted"})
  BY <1>1, <1>2 DEF CountTypes
<1>9. CountTypes'
  BY <1>1, <1>2, <1>5, <1>7, ProceedsOn DEF CountTypes
<1> QED BY <1>1, <1>2, <1>3, <1>6, <1>8, <1>9, ProceedsOn DEF c

LEMMA ReleasesEffect ==
  ASSUME CountTypes, NEW r \in Request, ReleasesLocks(r)
  PROVE  /\ CountTypes'
         /\ call[r].step = "unlock" /\ call[r].count \in Count
         /\ \A d \in Count, s \in Item :
              /\ sheet'[d][s].on = sheet[d][s].on /\ sheet'[d][s].found = sheet[d][s].found
              /\ sheet'[d][s].posted = sheet[d][s].posted
              /\ sheet'[d][s].lock => sheet[d][s].lock
              /\ d # call[r].count => sheet'[d][s] = sheet[d][s]
         /\ call'[r] = NoCall
         /\ \A q \in Request : q # r => call'[q] = call[q]
         /\ UNCHANGED <<status, posting, approvedAs, odd>>
<1> DEFINE c == call[r].count
           lines == [s \in Item |-> [sheet[c][s] EXCEPT !.lock = FALSE]]
<1>1. /\ call[r].step = "unlock" /\ Ends(r)
      /\ sheet' = [sheet EXCEPT ![c] = lines]
      /\ UNCHANGED <<status, posting, approvedAs, odd>>
  BY DEF ReleasesLocks, At
<1>2. c \in Count
  BY <1>1, FormOfStep DEF SessionCall
<1>3. \A s \in Item : /\ lines[s] \in CountLine
                      /\ lines[s].on = sheet[c][s].on /\ lines[s].found = sheet[c][s].found
                      /\ lines[s].posted = sheet[c][s].posted /\ ~lines[s].lock
  <2> TAKE s \in Item
  <2>1. sheet[c][s] \in CountLine
    BY <1>2 DEF CountTypes
  <2>2. lines[s] = [sheet[c][s] EXCEPT !.lock = FALSE]
    OBVIOUS
  <2> HIDE DEF lines
  <2> QED BY <2>1, <2>2 DEF CountLine
<1>4. lines \in [Item -> CountLine]
  BY <1>3
<1> HIDE DEF lines
<1>5. /\ sheet' \in [Count -> [Item -> CountLine]] /\ sheet'[c] = lines
      /\ \A d \in Count : d # c => sheet'[d] = sheet[d]
  BY <1>1, <1>2, <1>4 DEF CountTypes
<1>6. CountTypes'
  BY <1>1, <1>5, EndsCall DEF CountTypes
<1> QED BY <1>1, <1>2, <1>3, <1>5, <1>6, EndsCall

LEMMA DiesEffect ==
  ASSUME CountTypes, NEW r \in Request, DiesCounting(r)
  PROVE  /\ CountTypes'
         /\ call[r] # NoCall /\ call[r].count \in Count
         /\ \A d \in Count, what \in Oddity :
              what \in odd'[d] <=> \/ what \in odd[d]
                                   \/ d = call[r].count /\ what = "died"
         /\ call'[r] = NoCall
         /\ \A q \in Request : q # r => call'[q] = call[q]
         /\ UNCHANGED <<status, sheet, posting, approvedAs>>
<1>1. /\ call[r] # NoCall /\ Ends(r)
      /\ odd' = [odd EXCEPT ![call[r].count] = odd[call[r].count] \cup {"died"}]
      /\ UNCHANGED <<status, sheet, posting, approvedAs>>
  BY DEF DiesCounting, Happens
<1>2. call[r].count \in Count
  BY <1>1, FormOfStep
<1>3. odd' \in [Count -> SUBSET Oddity]
  BY <1>1, <1>2 DEF CountTypes, Oddity
<1>4. CountTypes'
  BY <1>1, <1>3, EndsCall DEF CountTypes
<1>5. \A d \in Count, what \in Oddity :
        what \in odd'[d] <=> what \in odd[d] \/ (d = call[r].count /\ what = "died")
  BY <1>1, <1>2 DEF CountTypes
<1> QED BY <1>1, <1>2, <1>4, <1>5, EndsCall DEF CountTypes

-----------------------------------------------------------------------------
(* The steps of a count, sorted.                                           *)

\* A request reads a session to save it later: only a posting goes by its lines.
ReadsSession(r, c) ==
  \E u \in Names, aim \in Statuses, step \in {"save", "find"} :
    Reads(r, c, u, aim, step) /\ (step = "find" <=> aim = "Posted")

LEMMA StepsOfCounts ==
  ASSUME CountNext
  PROVE  \E r \in Request :
           \/ \E c \in Count, items \in SUBSET Item : CreatesCount(r, c, items)
           \/ \E c \in Count : ReadsSession(r, c)
           \/ \E c \in Count, u \in User, s \in Item, found \in {"same", "different"} :
                ReadsToEnter(r, c, u, s, found)
           \/ InsertsLines(r) \/ DeletesLines(r) \/ ClosesOverlap(r)
           \/ SavesCount(r) \/ Enters(r)
           \/ FindsVariances(r) \/ PostsVariances(r) \/ FoldsBatch(r) \/ StampsLines(r)
           \/ WritesRecord(r) \/ SavesPosted(r) \/ ReleasesLocks(r)
           \/ DiesCounting(r)
<1>1. ASSUME NEW r \in Request, NEW c \in Count, NEW u \in Names, NEW aim \in Statuses,
             NEW step \in {"save", "find"}, Reads(r, c, u, aim, step), step = "find" <=> aim = "Posted"
      PROVE  ReadsSession(r, c)
  BY <1>1 DEF ReadsSession
<1>2. ASSUME NEW r \in Request, NEW c \in Count,
             \/ ReadsToReject(r, c) \/ ReadsToCancel(r, c) \/ ReadsToPost(r, c)
             \/ \E u \in User : ReadsToStart(r, c, u) \/ ReadsToSubmit(r, c, u) \/ ReadsToApprove(r, c, u)
      PROVE  ReadsSession(r, c)
  BY <1>1, <1>2 DEF ReadsToReject, ReadsToCancel, ReadsToPost, ReadsToStart, ReadsToSubmit,
     ReadsToApprove, Statuses, Names
<1> QED BY <1>2 DEF CountNext

-----------------------------------------------------------------------------
(* Locks.                                                                  *)

Overtaken(c) == "overtaken" \in odd[c]

OneLock == \A c, d \in Count, s \in Item : sheet[c][s].lock /\ sheet[d][s].lock => c = d

OpenIsLocked ==
  \A c \in Count, s \in Item : Open(c) /\ ~Overtaken(c) /\ sheet[c][s].on => sheet[c][s].lock

\* The locks are released when the count is over.
UnlocksAreOver ==
  \A r \in Request : call[r].step = "unlock" =>
    status[call[r].count] \in {"Cancelled", "Posted"} \/ Overtaken(call[r].count)

SavesAreAllowed ==
  \A r \in Request : call[r].step = "save" =>
    call[r].aim \in Allowed(call[r].saw) /\ call[r].aim # "Posted"

\* Before a count is created nobody is at work on it and its sheet is empty.
UnbornIsEmpty ==
  \A c \in Count : status[c] = "none" =>
    /\ \A r \in Request : call[r] # NoCall => call[r].count # c
    /\ \A s \in Item : ~sheet[c][s].on

LockInv == OneLock /\ OpenIsLocked /\ UnlocksAreOver /\ SavesAreAllowed /\ UnbornIsEmpty

\* What COUNT_TRANSITIONS allows: a count that is over stays over, an approved one is only
\* posted, and only a submitted one is approved.
LEMMA Transitions ==
  /\ \A from \in Statuses : \A to \in Allowed(from) :
       /\ to \in Statuses \ {"Draft"} /\ from \notin {"Posted", "Cancelled"} /\ to # from
       /\ to # "Posted" => from # "Approved"
       /\ to = "Approved" => from = "Submitted"
  /\ Allowed("none") = {}
BY DEF Statuses, Allowed

LEMMA StepLockInv == CountTypes /\ LockInv /\ [CountNext]_countVars => CountTypes' /\ LockInv'
<1> SUFFICES ASSUME CountTypes, LockInv, [CountNext]_countVars PROVE CountTypes' /\ LockInv'
  OBVIOUS
<1> USE DEF LockInv, Overtaken, Open, Oddity
<1>1. ASSUME NEW r \in Request, NEW c \in Count, NEW items \in SUBSET Item, CreatesCount(r, c, items)
      PROVE  CountTypes' /\ LockInv'
  BY <1>1, CreatesEffect, FormOfStep
     DEF OneLock, OpenIsLocked, UnlocksAreOver, SavesAreAllowed, UnbornIsEmpty
<1>2. ASSUME NEW r \in Request, NEW c \in Count, ReadsSession(r, c)
      PROVE  CountTypes' /\ LockInv'
  <2>1. PICK u \in Names, aim \in Statuses, step \in {"save", "find"} :
          Reads(r, c, u, aim, step) /\ (step = "find" <=> aim = "Posted")
    BY <1>2 DEF ReadsSession
  <2>2. status[c] # "none"
    BY <2>1, ReadsEffect, Transitions
  <2> QED BY <2>1, <2>2, ReadsEffect
          DEF OneLock, OpenIsLocked, UnlocksAreOver, SavesAreAllowed, UnbornIsEmpty
<1>3. ASSUME NEW r \in Request, NEW c \in Count, NEW u \in User, NEW s \in Item,
             NEW found \in {"same", "different"}, ReadsToEnter(r, c, u, s, found)
      PROVE  CountTypes' /\ LockInv'
  BY <1>3, ReadsEntryEffect
     DEF OneLock, OpenIsLocked, UnlocksAreOver, SavesAreAllowed, UnbornIsEmpty
<1>4. ASSUME NEW r \in Request, InsertsLines(r) PROVE CountTypes' /\ LockInv'
  <2>1. OneLock' /\ OpenIsLocked'
    BY <1>4, IdleStep, InsertsEffect, NewLines DEF OneLock, OpenIsLocked
  <2>2. UnlocksAreOver' /\ SavesAreAllowed' /\ UnbornIsEmpty'
    BY <1>4, IdleStep, InsertsEffect DEF UnlocksAreOver, SavesAreAllowed, UnbornIsEmpty
  <2> QED BY <1>4, <2>1, <2>2, InsertsEffect
<1>5. ASSUME NEW r \in Request, DeletesLines(r) PROVE CountTypes' /\ LockInv'
  <2>1. OneLock' /\ OpenIsLocked'
    BY <1>5, IdleStep, DeletesEffect, NewLines DEF OneLock, OpenIsLocked
  <2>2. UnlocksAreOver' /\ SavesAreAllowed' /\ UnbornIsEmpty'
    BY <1>5, IdleStep, DeletesEffect, NewLines DEF UnlocksAreOver, SavesAreAllowed, UnbornIsEmpty
  <2> QED BY <1>5, <2>1, <2>2, DeletesEffect
<1>6. ASSUME NEW r \in Request, ClosesOverlap(r) PROVE CountTypes' /\ LockInv'
  <2>0. \A d \in Count : Overtaken(d) => Overtaken(d)'
    BY <1>6, ClosesEffect
  <2>1. OneLock' /\ OpenIsLocked'
    BY <1>6, <2>0, IdleStep, ClosesEffect DEF OneLock, OpenIsLocked
  <2>2. UnlocksAreOver' /\ SavesAreAllowed' /\ UnbornIsEmpty'
    BY <1>6, <2>0, IdleStep, FormOfStep, ClosesEffect DEF UnlocksAreOver, SavesAreAllowed, UnbornIsEmpty
  <2> QED BY <1>6, <2>1, <2>2, ClosesEffect
<1>7. ASSUME NEW r \in Request, SavesCount(r) PROVE CountTypes' /\ LockInv'
  <2>1. /\ call[r].aim \in Allowed(call[r].saw) /\ call[r].saw \in Statuses
        /\ call[r].aim \in Statuses /\ call[r].saw \notin {"Posted", "Cancelled"}
        /\ call[r].aim # "Posted" /\ call[r].saw # "Approved"
    <3>1. call[r] \in SessionCall
      BY <1>7, IdleStep, SavesEffect, FormOfStep
    <3>2. call[r].aim \in Allowed(call[r].saw) /\ call[r].aim # "Posted"
      BY <1>7, IdleStep, SavesEffect DEF SavesAreAllowed
    <3> QED BY <3>1, <3>2, Transitions DEF SessionCall
  <2>2. OneLock' /\ OpenIsLocked'
    BY <1>7, <2>1, IdleStep, SavesEffect DEF OneLock, OpenIsLocked, Statuses
  <2>3. UnlocksAreOver'
    <3>1. \A d \in Count : Overtaken(d) => Overtaken(d)'
      BY <1>7, SavesEffect
    <3>2. \A q \in Request : call'[q].step = "unlock" =>
            \/ q # r /\ call'[q] = call[q] /\ call[q].step = "unlock"
            \/ q = r /\ status'[call'[r].count] = "Cancelled"
      BY <1>7, IdleStep, SavesEffect
    <3>3. status[call[r].count] \in {"Posted", "Cancelled"} => "overtaken" \in odd'[call[r].count]
      BY <1>7, <2>1, SavesEffect
    <3>4. \A q \in Request : call[q].step = "unlock" => call[q].count \in Count
      BY FormOfStep DEF SessionCall
    <3>5. \A d \in Count : d # call[r].count => status'[d] = status[d]
      BY <1>7, SavesEffect
    <3> QED BY <3>1, <3>2, <3>3, <3>4, <3>5 DEF UnlocksAreOver
  <2>4. SavesAreAllowed' /\ UnbornIsEmpty'
    BY <1>7, <2>1, IdleStep, SavesEffect DEF SavesAreAllowed, UnbornIsEmpty, Statuses
  <2> QED BY <1>7, <2>2, <2>3, <2>4, SavesEffect
<1>8. ASSUME NEW r \in Request, Enters(r) PROVE CountTypes' /\ LockInv'
  <2>0. \A d \in Count : Overtaken(d) => Overtaken(d)'
    BY <1>8, EntersEffect
  <2>1. OneLock' /\ OpenIsLocked'
    BY <1>8, <2>0, IdleStep, EntersEffect DEF OneLock, OpenIsLocked
  <2>2. UnlocksAreOver' /\ SavesAreAllowed' /\ UnbornIsEmpty'
    BY <1>8, <2>0, IdleStep, FormOfStep, EntersEffect DEF UnlocksAreOver, SavesAreAllowed, UnbornIsEmpty
  <2> QED BY <1>8, <2>1, <2>2, EntersEffect
<1>9. ASSUME NEW r \in Request, FindsVariances(r) PROVE CountTypes' /\ LockInv'
  BY <1>9, FindsEffect, FormOfStep
     DEF OneLock, OpenIsLocked, UnlocksAreOver, SavesAreAllowed, UnbornIsEmpty
<1>10. ASSUME NEW r \in Request, PostsVariances(r) PROVE CountTypes' /\ LockInv'
  BY <1>10, PostsEffect, FormOfStep
     DEF OneLock, OpenIsLocked, UnlocksAreOver, SavesAreAllowed, UnbornIsEmpty
<1>11. ASSUME NEW r \in Request, FoldsBatch(r) PROVE CountTypes' /\ LockInv'
  BY <1>11, FoldsEffect, FormOfStep
     DEF OneLock, OpenIsLocked, UnlocksAreOver, SavesAreAllowed, UnbornIsEmpty
<1>12. ASSUME NEW r \in Request, StampsLines(r) PROVE CountTypes' /\ LockInv'
  BY <1>12, StampsEffect, FormOfStep
     DEF OneLock, OpenIsLocked, UnlocksAreOver, SavesAreAllowed, UnbornIsEmpty
<1>13. ASSUME NEW r \in Request, WritesRecord(r) PROVE CountTypes' /\ LockInv'
  BY <1>13, RecordEffect, FormOfStep
     DEF OneLock, OpenIsLocked, UnlocksAreOver, SavesAreAllowed, UnbornIsEmpty
<1>14. ASSUME NEW r \in Request, SavesPosted(r) PROVE CountTypes' /\ LockInv'
  <2>1. OneLock' /\ OpenIsLocked'
    BY <1>14, PostedEffect DEF OneLock, OpenIsLocked
  <2>2. UnlocksAreOver' /\ SavesAreAllowed' /\ UnbornIsEmpty'
    BY <1>14, PostedEffect, FormOfStep DEF UnlocksAreOver, SavesAreAllowed, UnbornIsEmpty
  <2> QED BY <1>14, <2>1, <2>2, PostedEffect
<1>15. ASSUME NEW r \in Request, ReleasesLocks(r) PROVE CountTypes' /\ LockInv'
  <2>1. OneLock' /\ OpenIsLocked'
    BY <1>15, IdleStep, ReleasesEffect DEF OneLock, OpenIsLocked, UnlocksAreOver
  <2>2. UnlocksAreOver' /\ SavesAreAllowed' /\ UnbornIsEmpty'
    BY <1>15, IdleStep, ReleasesEffect DEF UnlocksAreOver, SavesAreAllowed, UnbornIsEmpty
  <2> QED BY <1>15, <2>1, <2>2, ReleasesEffect
<1>16. ASSUME NEW r \in Request, DiesCounting(r) PROVE CountTypes' /\ LockInv'
  <2>0. \A d \in Count : Overtaken(d) => Overtaken(d)'
    BY <1>16, DiesEffect
  <2>1. OneLock' /\ OpenIsLocked'
    BY <1>16, <2>0, IdleStep, DiesEffect DEF OneLock, OpenIsLocked
  <2>2. UnlocksAreOver' /\ SavesAreAllowed' /\ UnbornIsEmpty'
    BY <1>16, <2>0, IdleStep, FormOfStep, DiesEffect DEF UnlocksAreOver, SavesAreAllowed, UnbornIsEmpty
  <2> QED BY <1>16, <2>1, <2>2, DiesEffect
<1>17. CASE UNCHANGED countVars
  BY <1>17 DEF countVars, CountTypes, OneLock, OpenIsLocked, UnlocksAreOver, SavesAreAllowed,
     UnbornIsEmpty
<1> HIDE DEF LockInv
<1>18. ASSUME CountNext PROVE CountTypes' /\ LockInv'
  BY <1>18, <1>1, <1>2, <1>3, <1>4, <1>5, <1>6, <1>7, <1>8, <1>9, <1>10, <1>11, <1>12, <1>13,
     <1>14, <1>15, <1>16, StepsOfCounts
<1> QED BY <1>17, <1>18

-----------------------------------------------------------------------------
(* Approval.                                                               *)

Reviewed(c) == "late" \notin odd[c] /\ "overtaken" \notin odd[c]
Differs(c, s) == sheet[c][s].on /\ sheet[c][s].found = "different"

\* The lines of a sheet are inserted into an empty one, and by one request.
InsertsIntoNothing ==
  \A r \in Request : call[r].step = "insert" =>
    /\ \A s \in Item : ~sheet[call[r].count][s].on
    /\ \A q \in Request : call[q].step = "insert" /\ call[q].count = call[r].count => q = r

PostingIsApproved ==
  \A r \in Request :
    call[r].step \in {"find", "post", "fold", "stamp", "record", "finish"} /\ Reviewed(call[r].count)
      => status[call[r].count] \in {"Approved", "Posted"}

\* A sheet stands as it was approved - or was taken back as a whole.
VariancesStand ==
  \A c \in Count : Reviewed(c) /\ status[c] \in {"Approved", "Posted"} =>
    \/ \A s \in Item : ~Differs(c, s)
    \/ \A s \in Item : Differs(c, s) <=> s \in approvedAs[c]

PostedHasBatch == \A c \in Count, s \in Item : sheet[c][s].posted => posting[c].batch # {}

CallHasBatch ==
  \A r \in Request :
    /\ call[r].step \in {"fold", "stamp", "record"} => posting[call[r].count].batch # {}
    /\ call[r].step \in {"post", "fold", "stamp", "record"} => call[r].lines # {}

LinesAreApproved ==
  \A r \in Request :
    call[r].step = "post" /\ Reviewed(call[r].count) /\ posting[call[r].count].batch = {} =>
      call[r].lines = approvedAs[call[r].count]

BatchIsApproved ==
  \A c \in Count : posting[c].batch # {} /\ Reviewed(c) =>
    status[c] \in {"Approved", "Posted"} /\ posting[c].batch = approvedAs[c]

ApprovalInv ==
  /\ InsertsIntoNothing /\ PostingIsApproved /\ VariancesStand /\ PostedHasBatch
  /\ CallHasBatch /\ LinesAreApproved /\ BatchIsApproved

LEMMA StepApprovalInv ==
  CountTypes /\ LockInv /\ ApprovalInv /\ [CountNext]_countVars => ApprovalInv'
<1> SUFFICES ASSUME CountTypes, LockInv, ApprovalInv, [CountNext]_countVars PROVE ApprovalInv'
  OBVIOUS
<1> USE DEF ApprovalInv, Reviewed, Oddity
<1>0. /\ \A q \in Request : call[q].step # "none" => call[q].count \in Count
      /\ NoCall.step = "none"
  BY FormOfStep, IdleStep
<1>1. ASSUME NEW r \in Request, NEW c \in Count, NEW items \in SUBSET Item, CreatesCount(r, c, items)
      PROVE  ApprovalInv'
  <2>1. /\ \A q \in Request : call[q].step # "none" => call[q].count # c
        /\ \A s \in Item : ~sheet[c][s].on
    BY <1>0, <1>1, CreatesEffect, FormOfStep DEF LockInv, UnbornIsEmpty
  <2>2. InsertsIntoNothing'
    BY <1>0, <1>1, <2>1, CreatesEffect DEF InsertsIntoNothing
  <2>3. PostingIsApproved' /\ CallHasBatch' /\ LinesAreApproved'
    BY <1>0, <1>1, <2>1, CreatesEffect DEF PostingIsApproved, CallHasBatch, LinesAreApproved
  <2>4. VariancesStand' /\ PostedHasBatch' /\ BatchIsApproved'
    BY <1>1, <2>1, CreatesEffect DEF VariancesStand, PostedHasBatch, BatchIsApproved, Differs
  <2> QED BY <2>2, <2>3, <2>4
<1>2. ASSUME NEW r \in Request, NEW c \in Count, ReadsSession(r, c) PROVE ApprovalInv'
  <2>1. PICK u \in Names, aim \in Statuses, step \in {"save", "find"} :
          Reads(r, c, u, aim, step) /\ (step = "find" <=> aim = "Posted")
    BY <1>2 DEF ReadsSession
  <2>2. step = "find" => status[c] = "Approved"
    BY <2>1, ReadsEffect DEF Allowed
  <2>3. InsertsIntoNothing'
    BY <1>0, <2>1, ReadsEffect DEF InsertsIntoNothing
  <2>4. PostingIsApproved' /\ CallHasBatch' /\ LinesAreApproved'
    BY <1>0, <2>1, <2>2, ReadsEffect DEF PostingIsApproved, CallHasBatch, LinesAreApproved
  <2>5. VariancesStand' /\ PostedHasBatch' /\ BatchIsApproved'
    BY <2>1, ReadsEffect DEF VariancesStand, PostedHasBatch, BatchIsApproved, Differs
  <2> QED BY <2>3, <2>4, <2>5
<1>3. ASSUME NEW r \in Request, NEW c \in Count, NEW u \in User, NEW s \in Item,
             NEW found \in {"same", "different"}, ReadsToEnter(r, c, u, s, found)
      PROVE  ApprovalInv'
  <2>1. InsertsIntoNothing'
    BY <1>0, <1>3, ReadsEntryEffect DEF InsertsIntoNothing
  <2>2. PostingIsApproved' /\ CallHasBatch' /\ LinesAreApproved'
    BY <1>0, <1>3, ReadsEntryEffect DEF PostingIsApproved, CallHasBatch, LinesAreApproved
  <2>3. VariancesStand' /\ PostedHasBatch' /\ BatchIsApproved'
    BY <1>3, ReadsEntryEffect DEF VariancesStand, PostedHasBatch, BatchIsApproved, Differs
  <2> QED BY <2>1, <2>2, <2>3
<1>4. ASSUME NEW r \in Request, InsertsLines(r) PROVE ApprovalInv'
  <2>1. \A s \in Item : ~sheet[call[r].count][s].on
    BY <1>4, InsertsEffect DEF InsertsIntoNothing
  <2>2. InsertsIntoNothing'
    BY <1>0, <1>4, InsertsEffect DEF InsertsIntoNothing
  <2>3. PostingIsApproved' /\ CallHasBatch' /\ LinesAreApproved'
    BY <1>0, <1>4, InsertsEffect DEF PostingIsApproved, CallHasBatch, LinesAreApproved
  <2>4. VariancesStand' /\ PostedHasBatch' /\ BatchIsApproved'
    BY <1>4, <2>1, NewLines, InsertsEffect DEF VariancesStand, PostedHasBatch, BatchIsApproved, Differs
  <2> QED BY <2>2, <2>3, <2>4
<1>5. ASSUME NEW r \in Request, DeletesLines(r) PROVE ApprovalInv'
  <2>1. InsertsIntoNothing'
    BY <1>0, <1>5, NewLines, DeletesEffect DEF InsertsIntoNothing
  <2>2. PostingIsApproved' /\ CallHasBatch' /\ LinesAreApproved'
    BY <1>0, <1>5, DeletesEffect DEF PostingIsApproved, CallHasBatch, LinesAreApproved
  <2>3. VariancesStand' /\ PostedHasBatch' /\ BatchIsApproved'
    BY <1>5, NewLines, DeletesEffect DEF VariancesStand, PostedHasBatch, BatchIsApproved, Differs
  <2> QED BY <2>1, <2>2, <2>3
<1>6. ASSUME NEW r \in Request, ClosesOverlap(r) PROVE ApprovalInv'
  <2>1. InsertsIntoNothing'
    BY <1>0, <1>6, ClosesEffect DEF InsertsIntoNothing
  <2>2. PostingIsApproved' /\ CallHasBatch' /\ LinesAreApproved'
    BY <1>0, <1>6, ClosesEffect DEF PostingIsApproved, CallHasBatch, LinesAreApproved
  <2>3. VariancesStand' /\ PostedHasBatch' /\ BatchIsApproved'
    BY <1>6, ClosesEffect DEF VariancesStand, PostedHasBatch, BatchIsApproved, Differs
  <2> QED BY <2>1, <2>2, <2>3
<1>7. ASSUME NEW r \in Request, SavesCount(r) PROVE ApprovalInv'
  <2> DEFINE c == call[r].count
  <2>1. /\ call[r].saw \notin {"Posted", "Cancelled", "Approved"}
        /\ call[r].aim # "Posted" /\ (call[r].aim = "Approved" => call[r].saw = "Submitted")
    <3>1. call[r] \in SessionCall
      BY <1>7, SavesEffect, FormOfStep
    <3>2. call[r].aim \in Allowed(call[r].saw) /\ call[r].aim # "Posted"
      BY <1>7, SavesEffect DEF SavesAreAllowed, LockInv
    <3> QED BY <3>1, <3>2, Transitions DEF SessionCall
  <2>2. "overtaken" \notin odd'[c] =>
          /\ status[c] = call[r].saw /\ status[c] \notin {"Approved", "Posted"}
    BY <1>7, <2>1, SavesEffect
  <2>3. \A d \in Count, what \in Oddity : what \in odd[d] => what \in odd'[d]
    BY <1>7, SavesEffect
  <2>4. InsertsIntoNothing'
    BY <1>0, <1>7, SavesEffect DEF InsertsIntoNothing
  <2>5. PostingIsApproved' /\ CallHasBatch' /\ LinesAreApproved'
    BY <1>0, <1>7, <2>1, <2>2, <2>3, SavesEffect
       DEF PostingIsApproved, CallHasBatch, LinesAreApproved
  <2>6. \A s \in Item : s \in Variances(c) <=> Differs(c, s)
    BY DEF Variances, Differs
  <2>7. VariancesStand'
    BY <1>7, <2>1, <2>2, <2>3, <2>6, SavesEffect DEF VariancesStand, Differs
  <2>8. PostedHasBatch' /\ BatchIsApproved'
    BY <1>7, <2>1, <2>2, <2>3, SavesEffect DEF PostedHasBatch, BatchIsApproved
  <2> QED BY <2>4, <2>5, <2>7, <2>8
<1>8. ASSUME NEW r \in Request, Enters(r) PROVE ApprovalInv'
  <2>1. InsertsIntoNothing'
    BY <1>0, <1>8, EntersEffect DEF InsertsIntoNothing
  <2>2. PostingIsApproved' /\ CallHasBatch' /\ LinesAreApproved'
    BY <1>0, <1>8, EntersEffect DEF PostingIsApproved, CallHasBatch, LinesAreApproved
  <2>3. VariancesStand' /\ PostedHasBatch' /\ BatchIsApproved'
    BY <1>8, EntersEffect DEF VariancesStand, PostedHasBatch, BatchIsApproved, Differs
  <2> QED BY <2>1, <2>2, <2>3
<1>9. ASSUME NEW r \in Request, FindsVariances(r) PROVE ApprovalInv'
  <2> DEFINE c == call[r].count
  <2>1. /\ InsertsIntoNothing' /\ PostingIsApproved'
        /\ VariancesStand' /\ PostedHasBatch' /\ BatchIsApproved'
    BY <1>0, <1>9, FindsEffect
       DEF InsertsIntoNothing, PostingIsApproved, VariancesStand, PostedHasBatch, BatchIsApproved, Differs
  <2>2. CallHasBatch'
    BY <1>0, <1>9, FindsEffect DEF CallHasBatch
  <2>3. ASSUME call'[r].step = "post", Reviewed(c), posting[c].batch = {}
        PROVE  call'[r].lines = approvedAs[c]
    <3>1. status[c] \in {"Approved", "Posted"}
      BY <1>9, <2>3, FindsEffect DEF PostingIsApproved
    <3>2. call'[r].lines # {} /\ call'[r].lines = Variances(c)
      BY <1>9, <2>3, FindsEffect DEF PostedHasBatch, Variances
    <3>3. \A s \in Item : s \in Variances(c) <=> Differs(c, s)
      BY DEF Variances, Differs
    <3>4. Variances(c) \subseteq Item /\ approvedAs[c] \subseteq Item
      BY <1>9, FindsEffect DEF Variances, CountTypes
    <3>5. \E s \in Item : Differs(c, s)
      BY <3>2 DEF Variances, Differs
    <3> QED BY <1>9, <2>3, <3>1, <3>2, <3>3, <3>4, <3>5, FindsEffect DEF VariancesStand
  <2>4. LinesAreApproved'
    BY <1>0, <1>9, <2>3, FindsEffect DEF LinesAreApproved
  <2> QED BY <2>1, <2>2, <2>4
<1>10. ASSUME NEW r \in Request, PostsVariances(r) PROVE ApprovalInv'
  <2>1. /\ InsertsIntoNothing' /\ PostingIsApproved' /\ VariancesStand'
    BY <1>0, <1>10, PostsEffect DEF InsertsIntoNothing, PostingIsApproved, VariancesStand, Differs
  <2>2. \A d \in Count : posting[d].batch # {} => posting'[d].batch = posting[d].batch
    BY <1>10, PostsEffect
  <2>3. posting'[call[r].count].batch # {} /\ call[r].lines # {}
    BY <1>10, PostsEffect DEF CallHasBatch
  <2>4. CallHasBatch' /\ PostedHasBatch'
    BY <1>0, <1>10, <2>2, <2>3, PostsEffect DEF CallHasBatch, PostedHasBatch
  <2>5. LinesAreApproved'
    BY <1>0, <1>10, <2>2, <2>3, PostsEffect DEF LinesAreApproved
  <2>6. BatchIsApproved'
    BY <1>10, PostsEffect DEF BatchIsApproved, LinesAreApproved, PostingIsApproved
  <2> QED BY <2>1, <2>4, <2>5, <2>6
<1>11. ASSUME NEW r \in Request, FoldsBatch(r) PROVE ApprovalInv'
  <2>1. InsertsIntoNothing' /\ PostingIsApproved' /\ VariancesStand'
    BY <1>0, <1>11, FoldsEffect DEF InsertsIntoNothing, PostingIsApproved, VariancesStand, Differs
  <2>2. CallHasBatch' /\ PostedHasBatch' /\ LinesAreApproved' /\ BatchIsApproved'
    BY <1>0, <1>11, FoldsEffect DEF CallHasBatch, PostedHasBatch, LinesAreApproved, BatchIsApproved
  <2> QED BY <2>1, <2>2
<1>12. ASSUME NEW r \in Request, StampsLines(r) PROVE ApprovalInv'
  <2>1. InsertsIntoNothing' /\ PostingIsApproved' /\ VariancesStand'
    BY <1>0, <1>12, StampsEffect DEF InsertsIntoNothing, PostingIsApproved, VariancesStand, Differs
  <2>2. CallHasBatch' /\ PostedHasBatch' /\ LinesAreApproved' /\ BatchIsApproved'
    BY <1>0, <1>12, StampsEffect DEF CallHasBatch, PostedHasBatch, LinesAreApproved, BatchIsApproved
  <2> QED BY <2>1, <2>2
<1>13. ASSUME NEW r \in Request, WritesRecord(r) PROVE ApprovalInv'
  <2>1. InsertsIntoNothing' /\ PostingIsApproved' /\ VariancesStand'
    BY <1>0, <1>13, RecordEffect DEF InsertsIntoNothing, PostingIsApproved, VariancesStand, Differs
  <2>2. CallHasBatch' /\ PostedHasBatch' /\ LinesAreApproved' /\ BatchIsApproved'
    BY <1>0, <1>13, RecordEffect DEF CallHasBatch, PostedHasBatch, LinesAreApproved, BatchIsApproved
  <2> QED BY <2>1, <2>2
<1>14. ASSUME NEW r \in Request, SavesPosted(r) PROVE ApprovalInv'
  <2>1. "overtaken" \notin odd'[call[r].count] => status[call[r].count] \in {"Approved", "Posted"}
    BY <1>14, PostedEffect
  <2>2. InsertsIntoNothing' /\ PostingIsApproved'
    BY <1>0, <1>14, PostedEffect DEF InsertsIntoNothing, PostingIsApproved
  <2>3. VariancesStand'
    BY <1>14, <2>1, PostedEffect DEF VariancesStand, Differs
  <2>4. CallHasBatch' /\ PostedHasBatch' /\ LinesAreApproved'
    BY <1>0, <1>14, PostedEffect DEF CallHasBatch, PostedHasBatch, LinesAreApproved
  <2>5. BatchIsApproved'
    BY <1>14, <2>1, PostedEffect DEF BatchIsApproved
  <2> QED BY <2>2, <2>3, <2>4, <2>5
<1>15. ASSUME NEW r \in Request, ReleasesLocks(r) PROVE ApprovalInv'
  <2>1. InsertsIntoNothing' /\ PostingIsApproved' /\ VariancesStand'
    BY <1>0, <1>15, ReleasesEffect DEF InsertsIntoNothing, PostingIsApproved, VariancesStand, Differs
  <2>2. CallHasBatch' /\ PostedHasBatch' /\ LinesAreApproved' /\ BatchIsApproved'
    BY <1>0, <1>15, ReleasesEffect DEF CallHasBatch, PostedHasBatch, LinesAreApproved, BatchIsApproved
  <2> QED BY <2>1, <2>2
<1>16. ASSUME NEW r \in Request, DiesCounting(r) PROVE ApprovalInv'
  <2>1. InsertsIntoNothing' /\ PostingIsApproved' /\ VariancesStand'
    BY <1>0, <1>16, DiesEffect DEF InsertsIntoNothing, PostingIsApproved, VariancesStand, Differs
  <2>2. CallHasBatch' /\ PostedHasBatch' /\ LinesAreApproved' /\ BatchIsApproved'
    BY <1>0, <1>16, DiesEffect DEF CallHasBatch, PostedHasBatch, LinesAreApproved, BatchIsApproved
  <2> QED BY <2>1, <2>2
<1>17. CASE UNCHANGED countVars
  BY <1>17 DEF countVars, InsertsIntoNothing, PostingIsApproved, VariancesStand, PostedHasBatch,
     CallHasBatch, LinesAreApproved, BatchIsApproved, Differs
<1> HIDE DEF ApprovalInv
<1>18. ASSUME CountNext PROVE ApprovalInv'
  BY <1>18, <1>1, <1>2, <1>3, <1>4, <1>5, <1>6, <1>7, <1>8, <1>9, <1>10, <1>11, <1>12, <1>13,
     <1>14, <1>15, <1>16, StepsOfCounts
<1> QED BY <1>17, <1>18

-----------------------------------------------------------------------------
(* Posting.                                                                *)

\* The request whose own batch it is has the fold still to make.
Folding(r) == call[r].step = "fold" /\ ~call[r].replayed
Lives(c) == posting[c].batch # {} /\ "died" \notin odd[c]

FoldedOnce ==
  /\ \A c \in Count : posting[c].folds \in {0, 1} /\ (posting[c].batch = {} => posting[c].folds = 0)
  /\ \A r \in Request : Folding(r) =>
       /\ posting[call[r].count].folds = 0
       /\ \A q \in Request : Folding(q) /\ call[q].count = call[r].count => q = r

BatchIsFolded ==
  \A c \in Count : Lives(c) =>
    posting[c].folds = 1 \/ \E r \in Request : Folding(r) /\ call[r].count = c

BatchIsRecorded ==
  \A c \in Count : Lives(c) =>
    \/ posting[c].records > 0
    \/ \E r \in Request : call[r].step \in {"fold", "stamp", "record"} /\ call[r].count = c

BatchIsLinked ==
  \A c \in Count : Lives(c) =>
    \/ posting[c].linked
    \/ \E r \in Request : /\ call[r].step \in {"fold", "stamp", "record", "finish"}
                          /\ call[r].count = c /\ call[r].lines # {}

PostingInv == FoldedOnce /\ BatchIsFolded /\ BatchIsRecorded /\ BatchIsLinked

\* A request that is not at work on a batch disturbs none.
LEMMA Bystanders ==
  ASSUME PostingInv, NEW r \in Request,
         call[r].step \notin {"fold", "stamp", "record", "finish"}, call'[r].step # "fold",
         \A q \in Request : q # r => call'[q] = call[q],
         posting' = posting,
         \A c \in Count : "died" \in odd[c] => "died" \in odd'[c]
  PROVE  PostingInv'
<1>1. FoldedOnce'
  BY DEF PostingInv, FoldedOnce, Folding
<1>2. BatchIsFolded'
  BY DEF PostingInv, BatchIsFolded, Folding, Lives
<1>3. BatchIsRecorded'
  BY DEF PostingInv, BatchIsRecorded, Lives
<1>4. BatchIsLinked'
  BY DEF PostingInv, BatchIsLinked, Lives
<1> QED BY <1>1, <1>2, <1>3, <1>4 DEF PostingInv

LEMMA StepPostingInv ==
  CountTypes /\ ApprovalInv /\ PostingInv /\ [CountNext]_countVars => PostingInv'
<1> SUFFICES ASSUME CountTypes, ApprovalInv, PostingInv, [CountNext]_countVars PROVE PostingInv'
  OBVIOUS
<1>0. NoCall.step = "none" /\ "died" \in Oddity
  BY IdleStep DEF Oddity
<1>1. ASSUME NEW r \in Request, NEW c \in Count, NEW items \in SUBSET Item, CreatesCount(r, c, items)
      PROVE  PostingInv'
  BY <1>0, <1>1, CreatesEffect, Bystanders
<1>2. ASSUME NEW r \in Request, NEW c \in Count, ReadsSession(r, c) PROVE PostingInv'
  BY <1>0, <1>2, ReadsEffect, Bystanders DEF ReadsSession
<1>3. ASSUME NEW r \in Request, NEW c \in Count, NEW u \in User, NEW s \in Item,
             NEW found \in {"same", "different"}, ReadsToEnter(r, c, u, s, found)
      PROVE  PostingInv'
  BY <1>0, <1>3, ReadsEntryEffect, Bystanders
<1>4. ASSUME NEW r \in Request, InsertsLines(r) PROVE PostingInv'
  BY <1>0, <1>4, InsertsEffect, Bystanders
<1>5. ASSUME NEW r \in Request, DeletesLines(r) PROVE PostingInv'
  BY <1>0, <1>5, DeletesEffect, Bystanders
<1>6. ASSUME NEW r \in Request, ClosesOverlap(r) PROVE PostingInv'
  BY <1>0, <1>6, ClosesEffect, Bystanders
<1>7. ASSUME NEW r \in Request, SavesCount(r) PROVE PostingInv'
  BY <1>0, <1>7, SavesEffect, Bystanders
<1>8. ASSUME NEW r \in Request, Enters(r) PROVE PostingInv'
  BY <1>0, <1>8, EntersEffect, Bystanders
<1>9. ASSUME NEW r \in Request, FindsVariances(r) PROVE PostingInv'
  BY <1>0, <1>9, FindsEffect, Bystanders
<1>10. ASSUME NEW r \in Request, PostsVariances(r) PROVE PostingInv'
  <2>1. /\ Folding(r)' <=> posting[call[r].count].batch = {}
        /\ \A q \in Request : q # r => (Folding(q)' <=> Folding(q))
        /\ call[r].lines # {} /\ ~Folding(r)
    BY <1>10, PostsEffect DEF Folding, ApprovalInv, CallHasBatch
  <2>2. \A q \in Request : Folding(q) =>
          call[q].count \in Count /\ posting[call[q].count].batch # {}
    BY FormOfStep, IdleStep DEF Folding, ApprovalInv, CallHasBatch
  <2>3. FoldedOnce'
    BY <1>10, <2>1, <2>2, PostsEffect DEF PostingInv, FoldedOnce
  <2>4. BatchIsFolded'
    BY <1>10, <2>1, PostsEffect DEF PostingInv, BatchIsFolded, Lives
  <2>5. BatchIsRecorded'
    BY <1>10, PostsEffect DEF PostingInv, BatchIsRecorded, Lives
  <2>6. BatchIsLinked'
    BY <1>10, <2>1, PostsEffect DEF PostingInv, BatchIsLinked, Lives
  <2> QED BY <2>3, <2>4, <2>5, <2>6 DEF PostingInv
<1>11. ASSUME NEW r \in Request, FoldsBatch(r) PROVE PostingInv'
  <2>1. /\ ~Folding(r)' /\ (call[r].replayed <=> ~Folding(r))
        /\ \A q \in Request : q # r => (Folding(q)' <=> Folding(q))
    BY <1>11, FoldsEffect DEF Folding
  <2>2. \A q \in Request : Folding(q) => call[q].count \in Count
    BY FormOfStep, IdleStep DEF Folding
  <2>3. posting[call[r].count].batch # {}
    BY <1>11, FoldsEffect DEF ApprovalInv, CallHasBatch
  <2>4. FoldedOnce'
    BY <1>11, <2>1, <2>2, <2>3, FoldsEffect DEF PostingInv, FoldedOnce
  <2>5. BatchIsFolded'
    BY <1>11, <2>1, FoldsEffect DEF PostingInv, BatchIsFolded, FoldedOnce, Lives
  <2>6. BatchIsRecorded'
    BY <1>11, FoldsEffect DEF PostingInv, BatchIsRecorded, Lives
  <2>7. BatchIsLinked'
    BY <1>11, FoldsEffect DEF PostingInv, BatchIsLinked, Lives
  <2> QED BY <2>4, <2>5, <2>6, <2>7 DEF PostingInv
<1>12. ASSUME NEW r \in Request, StampsLines(r) PROVE PostingInv'
  <2>1. FoldedOnce' /\ BatchIsFolded'
    BY <1>12, StampsEffect DEF PostingInv, FoldedOnce, BatchIsFolded, Folding, Lives
  <2>2. BatchIsRecorded'
    BY <1>12, StampsEffect DEF PostingInv, BatchIsRecorded, Lives
  <2>3. BatchIsLinked'
    BY <1>12, StampsEffect DEF PostingInv, BatchIsLinked, Lives
  <2> QED BY <2>1, <2>2, <2>3 DEF PostingInv
<1>13. ASSUME NEW r \in Request, WritesRecord(r) PROVE PostingInv'
  <2>0. \A q \in Request : Folding(q) => call[q].count \in Count
    BY FormOfStep, IdleStep DEF Folding
  <2>1. FoldedOnce' /\ BatchIsFolded'
    BY <1>13, <2>0, RecordEffect DEF PostingInv, FoldedOnce, BatchIsFolded, Folding, Lives
  <2>2. BatchIsRecorded'
    BY <1>13, RecordEffect DEF PostingInv, BatchIsRecorded, Lives
  <2>3. BatchIsLinked'
    BY <1>13, RecordEffect DEF PostingInv, BatchIsLinked, Lives
  <2> QED BY <2>1, <2>2, <2>3 DEF PostingInv
<1>14. ASSUME NEW r \in Request, SavesPosted(r) PROVE PostingInv'
  <2>0. \A q \in Request : Folding(q) => call[q].count \in Count
    BY FormOfStep, IdleStep DEF Folding
  <2>1. FoldedOnce' /\ BatchIsFolded'
    BY <1>0, <1>14, <2>0, PostedEffect DEF PostingInv, FoldedOnce, BatchIsFolded, Folding, Lives
  <2>2. BatchIsRecorded'
    BY <1>0, <1>14, PostedEffect DEF PostingInv, BatchIsRecorded, Lives
  <2>3. BatchIsLinked'
    BY <1>0, <1>14, PostedEffect DEF PostingInv, BatchIsLinked, Lives
  <2> QED BY <2>1, <2>2, <2>3 DEF PostingInv
<1>15. ASSUME NEW r \in Request, ReleasesLocks(r) PROVE PostingInv'
  BY <1>0, <1>15, ReleasesEffect, Bystanders
<1>16. ASSUME NEW r \in Request, DiesCounting(r) PROVE PostingInv'
  <2>1. \A c \in Count : Lives(c)' => Lives(c) /\ c # call[r].count
    BY <1>0, <1>16, DiesEffect DEF Lives
  <2>2. FoldedOnce'
    BY <1>0, <1>16, DiesEffect DEF PostingInv, FoldedOnce, Folding
  <2>3. BatchIsFolded' /\ BatchIsRecorded' /\ BatchIsLinked'
    BY <1>16, <2>1, DiesEffect DEF PostingInv, BatchIsFolded, BatchIsRecorded, BatchIsLinked, Folding
  <2> QED BY <2>2, <2>3 DEF PostingInv
<1>17. CASE UNCHANGED countVars
  BY <1>17 DEF countVars, PostingInv, FoldedOnce, BatchIsFolded, BatchIsRecorded, BatchIsLinked,
     Folding, Lives
<1>18. ASSUME CountNext PROVE PostingInv'
  BY <1>18, <1>1, <1>2, <1>3, <1>4, <1>5, <1>6, <1>7, <1>8, <1>9, <1>10, <1>11, <1>12, <1>13,
     <1>14, <1>15, <1>16, StepsOfCounts
<1> QED BY <1>17, <1>18

-----------------------------------------------------------------------------
(* The invariant, and what follows from it.                                *)

CountInv == CountTypes /\ LockInv /\ ApprovalInv /\ PostingInv

\* Initially no count exists.
LEMMA InitCountInv == CountInit => CountInv
<1> SUFFICES ASSUME CountInit PROVE CountInv
  OBVIOUS
<1>1. /\ \A c \in Count : status[c] = "none" /\ posting[c] = NoPosting /\ odd[c] = {}
      /\ \A c \in Count, s \in Item : sheet[c][s] = NoCountLine
      /\ \A r \in Request : call[r] = NoCall
  BY DEF CountInit
<1>2. NoPosting \in [batch : SUBSET Item, folds : Nat, records : Nat, linked : BOOLEAN]
      /\ NoPosting.batch = {} /\ NoPosting.folds = 0
  BY DEF NoPosting
<1>3. CountTypes
  BY <1>2, NewLines DEF CountInit, CountTypes, Calls, Statuses, Oddity
<1>4. LockInv
  BY <1>1, IdleStep, NewLines
     DEF LockInv, OneLock, OpenIsLocked, UnlocksAreOver, SavesAreAllowed, UnbornIsEmpty, Open
<1>5. ApprovalInv
  BY <1>1, <1>2, IdleStep, NewLines
     DEF ApprovalInv, InsertsIntoNothing, PostingIsApproved, VariancesStand, PostedHasBatch,
     CallHasBatch, LinesAreApproved, BatchIsApproved
<1>6. PostingInv
  BY <1>1, <1>2, IdleStep
     DEF PostingInv, FoldedOnce, BatchIsFolded, BatchIsRecorded, BatchIsLinked, Folding, Lives
<1> QED BY <1>3, <1>4, <1>5, <1>6 DEF CountInv

\* The invariant holds throughout.
THEOREM CountInvHolds == CountSpec => []CountInv
<1>1. CountInv /\ [CountNext]_countVars => CountInv'
  BY StepLockInv, StepApprovalInv, StepPostingInv DEF CountInv
<1> QED BY <1>1, InitCountInv, PTL DEF CountSpec

\* BR-45: no SKU is on the sheets of two open counts, however their creation, their closing
\* and their requests interleave, unless a request was overtaken (createCount, the partial
\* unique index on openLock, releaseLocks).
THEOREM CountsAreDisjoint == CountSpec => []OpenCountsDisjoint
<1>1. CountInv => OpenCountsDisjoint
  BY DEF CountInv, LockInv, OneLock, OpenIsLocked, OpenCountsDisjoint, Overtaken
<1> QED BY <1>1, CountInvHolds, PTL

\* A count that posted knows of it: once its requests are over its variances are in the
\* balance exactly once, recorded and linked, unless a request died on it (postCount).
THEOREM PostingsAreExplained == CountSpec => []PostedIsExplained
<1>1. CountInv => PostedIsExplained
  <2> SUFFICES ASSUME CountInv, NEW c \in Count, posting[c].batch # {}, On(c) = {}, "died" \notin odd[c]
               PROVE  posting[c].linked /\ posting[c].folds = 1 /\ posting[c].records > 0
    BY DEF PostedIsExplained
  <2>1. \A r \in Request : call[r].count = c => call[r].step = "none"
    BY IdleStep DEF On
  <2> QED BY <2>1 DEF CountInv, PostingInv, BatchIsFolded, BatchIsRecorded, BatchIsLinked, Folding, Lives
<1> QED BY <1>1, CountInvHolds, PTL

\* What reaches the ledger is what was approved, and a cancelled count leaves it alone,
\* unless an entry came late or a review was overtaken (approveCount, postCount).
THEOREM PostingsAreApproved == CountSpec => []PostedAsApproved
<1>1. CountInv => PostedAsApproved
  BY DEF CountInv, ApprovalInv, BatchIsApproved, PostedAsApproved, Reviewed
<1> QED BY <1>1, CountInvHolds, PTL

-----------------------------------------------------------------------------
(* The types of a count.                                                   *)

\* What the requests leave beside the sheets and the batches.
CountRest ==
  /\ people \in [Count -> [counter : Names, submitter : Names, approver : Names]]
  /\ deaths \in 0..MaxDeaths /\ calls \in 0..MaxCalls

LEMMA InitCountRest == CountInit => CountRest
BY CountAssumption DEF CountInit, CountRest, Names

\* A request that begins is one more, one that dies is a death, and only a saved session
\* changes who did what.
LEMMA CountRestStep == CountTypes /\ CountRest /\ [CountNext]_countVars => CountRest'
<1> SUFFICES ASSUME CountTypes, CountRest, [CountNext]_countVars PROVE CountRest'
  OBVIOUS
<1> USE CountAssumption DEF CountRest
<1>1. ASSUME calls < MaxCalls, calls' = calls + 1, people' = people, deaths' = deaths
      PROVE  CountRest'
  BY <1>1
<1>2. ASSUME calls' = calls, people' = people, deaths' = deaths
      PROVE  CountRest'
  BY <1>2
<1>3. CASE UNCHANGED countVars
  BY <1>2, <1>3 DEF countVars
<1>4. ASSUME NEW r \in Request, NEW c \in Count, NEW items \in SUBSET Item, CreatesCount(r, c, items)
      PROVE  CountRest'
  BY <1>1, <1>4 DEF CreatesCount, Begins
<1>5. ASSUME NEW r \in Request, NEW c \in Count, NEW u, NEW aim, NEW step, Reads(r, c, u, aim, step)
      PROVE  CountRest'
  BY <1>1, <1>5 DEF Reads, Begins
<1>6. ASSUME NEW r \in Request, NEW c \in Count, NEW u, NEW s, NEW found, ReadsToEnter(r, c, u, s, found)
      PROVE  CountRest'
  BY <1>1, <1>6 DEF ReadsToEnter, Begins
<1>7. ASSUME NEW r \in Request, SavesCount(r) PROVE CountRest'
  <2>1. call[r] \in SessionCall
    BY <1>7, FormOfStep DEF SavesCount, At
  <2>2. PICK c, u, aim : c = call[r].count /\ u = call[r].user /\ aim = call[r].aim
    OBVIOUS
  <2>3. c \in Count /\ u \in Names
    BY <2>1, <2>2 DEF SessionCall
  <2>4. /\ people' = [people EXCEPT ![c] =
              CASE aim = "Counting"  -> [@ EXCEPT !.counter = u]
                [] aim = "Submitted" -> [@ EXCEPT !.submitter = u]
                [] aim = "Approved"  -> [@ EXCEPT !.approver = u]
                [] OTHER             -> @]
        /\ deaths' = deaths /\ calls' = calls
    BY <1>7, <2>2 DEF SavesCount
  <2>5. people[c] \in [counter : Names, submitter : Names, approver : Names]
    BY <2>3
  <2>6. PICK who : who = CASE aim = "Counting"  -> [people[c] EXCEPT !.counter = u]
                           [] aim = "Submitted" -> [people[c] EXCEPT !.submitter = u]
                           [] aim = "Approved"  -> [people[c] EXCEPT !.approver = u]
                           [] OTHER             -> people[c]
    OBVIOUS
  <2>7. who \in [counter : Names, submitter : Names, approver : Names]
    BY <2>3, <2>5, <2>6
  <2>8. people' = [people EXCEPT ![c] = who]
    BY <2>4, <2>6
  <2> QED
    BY <2>3, <2>4, <2>7, <2>8
<1>8. ASSUME NEW r \in Request, DiesCounting(r) PROVE CountRest'
  BY <1>8 DEF DiesCounting
<1>9. ASSUME NEW r \in Request,
             \/ InsertsLines(r) \/ DeletesLines(r) \/ ClosesOverlap(r) \/ Enters(r)
             \/ FindsVariances(r) \/ PostsVariances(r) \/ FoldsBatch(r) \/ StampsLines(r)
             \/ WritesRecord(r) \/ SavesPosted(r) \/ ReleasesLocks(r)
      PROVE  CountRest'
  BY <1>2, <1>9 DEF InsertsLines, DeletesLines, ClosesOverlap, Enters, FindsVariances,
     PostsVariances, FoldsBatch, StampsLines, WritesRecord, SavesPosted, ReleasesLocks
<1> QED
  BY <1>3, <1>4, <1>5, <1>6, <1>7, <1>8, <1>9
  DEF CountNext, ReadsToReject, ReadsToCancel, ReadsToPost, ReadsToStart, ReadsToSubmit, ReadsToApprove

\* A batch is folded once at most, and each request is one of the three forms.
LEMMA CountsAreTyped == CountInv /\ CountRest => CountTypeOK
<1> SUFFICES ASSUME CountInv, CountRest PROVE CountTypeOK
  OBVIOUS
<1>1. CountTypes /\ FoldedOnce
  BY DEF CountInv, PostingInv
<1>2. posting \in [Count -> [batch : SUBSET Item, folds : 0..1, records : Nat, linked : BOOLEAN]]
  BY <1>1 DEF CountTypes, FoldedOnce
<1>3. ASSUME NEW r \in Request, call[r] # NoCall
      PROVE  call[r].step \in Steps /\ call[r].count \in Count
  BY <1>1, <1>3 DEF CountTypes, Calls, CreateCall, SessionCall, EntryCall, Steps
<1> QED
  BY <1>1, <1>2, <1>3 DEF CountTypeOK, CountTypes, CountRest, Names

LEMMA CountTypesHold == CountSpec => []CountTypeOK
<1>1. CountInv => CountTypes
  BY DEF CountInv
<1>2. CountRest /\ CountInv /\ [CountNext]_countVars => CountRest'
  BY <1>1, CountRestStep
<1>3. CountInv /\ CountRest => CountTypeOK
  BY CountsAreTyped
<1> QED
  BY <1>2, <1>3, CountInvHolds, InitCountRest, PTL DEF CountSpec

-----------------------------------------------------------------------------
(* The health of a SKU and its alerts.                                     *)

USE DEF alertVars

Stage == {"moved", "projecting", "announced", "listing", "acting"}
Alert == [type : AlertType, status : AlertStatus, active : BOOLEAN]

\* A sweep has lists only once it has worked out the difference, and they agree with
\* what it read.
SweepsFit ==
  /\ DOMAIN sweep = Sweep
  /\ \A w \in Sweep :
       /\ DOMAIN sweep[w] = {"pc", "saw", "clear", "raise"}
       /\ sweep[w].pc # "acting" => sweep[w].clear = {} /\ sweep[w].raise = {}
       /\ \A t \in sweep[w].clear : t \notin Wanted(sweep[w].saw)
       /\ \A t \in sweep[w].raise : t \in Wanted(sweep[w].saw)

\* A person's hand is on an alert that exists, and the move is one of the table.
HandsFit ==
  /\ hand \in [Person -> [on : Nat, saw : AlertStatus, to : AlertStatus]]
  /\ \A p \in Person : hand[p].on # 0 =>
       hand[p].on \in DOMAIN alert /\ hand[p].to \in ALERT_TRANSITIONS[hand[p].saw]

\* The index.
OneLive == \A t : \A i, j \in Live(t) : i = j

\* What an alert's status says and whether it holds the key agree.
KeyIsStatus ==
  \A i \in DOMAIN alert : alert[i].active <=> alert[i].status \in {"Open", "Acknowledged"}

RowFollows == ~Recalculated => health = HealthOf(inputs)

Coming(t) ==
  /\ t \in Wanted(health) /\ ~KeyHeld(t) => \E w \in Sweep : t \in sweep[w].raise
  /\ t \notin Wanted(health) /\ KeyHeld(t) => \E w \in Sweep : t \in sweep[w].clear

AlertInv ==
  /\ alert \in Seq(Alert)
  /\ SweepsFit /\ HandsFit /\ OneLive
  /\ slip = {} => /\ KeyIsStatus /\ RowFollows
                  /\ ~Reconsidered => \A t \in AlertType : Coming(t)

-----------------------------------------------------------------------------
\* A sequence is a function on an initial segment of the numbers.
LEMMA SeqIsFunction ==
  ASSUME NEW S, NEW s \in Seq(S)
  PROVE  /\ Len(s) \in Nat /\ DOMAIN s = 1..Len(s) /\ s \in [1..Len(s) -> S]
         /\ \A i \in DOMAIN s : s[i] \in S /\ i \in Nat
OBVIOUS

LEMMA FunctionIsSeq ==
  ASSUME NEW S, NEW n \in Nat, NEW s \in [1..n -> S]
  PROVE  s \in Seq(S)
OBVIOUS

\* Initially the row is right, and there is a live alert for each condition met.
LEMMA InitAlertInv == AlertInit => AlertInv
<1> SUFFICES ASSUME AlertInit PROVE AlertInv
  OBVIOUS
<1>1. /\ health = HealthOf(inputs)
      /\ sweep = [w \in Sweep |-> [pc |-> "acting", saw |-> health, clear |-> {}, raise |-> {}]]
      /\ hand = [p \in Person |-> [on |-> 0, saw |-> "Open", to |-> "Open"]]
      /\ alert \in {<<>>} \cup {<<NewAlert(t)>> : t \in AlertType}
      /\ {alert[i].type : i \in DOMAIN alert} = Wanted(health)
  BY DEF AlertInit
<1>2. SweepsFit
  BY <1>1 DEF SweepsFit
<1>3. HandsFit
  BY <1>1 DEF HandsFit, AlertStatus
<1>4. /\ alert \in Seq(Alert)
      /\ \A i, j \in DOMAIN alert : i = j
      /\ \A i \in DOMAIN alert : alert[i].active /\ alert[i].status = "Open"
  <2>1. CASE alert = <<>>
    BY <2>1
  <2>2. CASE \E t \in AlertType : alert = <<NewAlert(t)>>
    <3>1. PICK t \in AlertType : alert = <<NewAlert(t)>>
      BY <2>2
    <3>2. NewAlert(t) \in Alert /\ NewAlert(t).active /\ NewAlert(t).status = "Open"
      BY DEF NewAlert, Alert, AlertStatus
    <3>3. DOMAIN alert = {1} /\ alert[1] = NewAlert(t)
      BY <3>1
    <3> QED BY <3>1, <3>2, <3>3
  <2> QED BY <1>1, <2>1, <2>2
<1>5. OneLive /\ KeyIsStatus
  BY <1>4 DEF OneLive, KeyIsStatus, Live
<1>6. \A t : KeyHeld(t) <=> t \in Wanted(health)
  BY <1>1, <1>4 DEF KeyHeld, Live
<1> QED BY <1>1, <1>2, <1>3, <1>4, <1>5, <1>6 DEF AlertInv, RowFollows, Coming

\* Changing one sweep's entry leaves the other sweeps as they are.
LEMMA OneSweep ==
  ASSUME SweepsFit, NEW w \in Sweep, DOMAIN sweep' = Sweep,
         \A v \in Sweep : v # w => sweep'[v] = sweep[v],
         DOMAIN sweep'[w] = {"pc", "saw", "clear", "raise"},
         sweep'[w].pc # "acting" => sweep'[w].clear = {} /\ sweep'[w].raise = {},
         \A t \in sweep'[w].clear : t \notin Wanted(sweep'[w].saw),
         \A t \in sweep'[w].raise : t \in Wanted(sweep'[w].saw)
  PROVE  SweepsFit'
BY DEF SweepsFit, Wanted

\* What does not change keeps what is said of it.
LEMMA SameAlerts ==
  ASSUME alert' = alert
  PROVE  /\ OneLive => OneLive'
         /\ KeyIsStatus => KeyIsStatus'
         /\ \A t : (KeyHeld(t))' <=> KeyHeld(t)
<1>1. \A t : (Live(t))' = Live(t)
  BY DEF Live
<1> QED BY <1>1 DEF OneLive, KeyIsStatus, KeyHeld

LEMMA SameHands ==
  ASSUME HandsFit, hand' = hand, alert' = alert
  PROVE  HandsFit'
BY DEF HandsFit, ALERT_TRANSITIONS

LEMMA SameSweeps ==
  ASSUME SweepsFit, sweep' = sweep, health' = health, inputs' = inputs
  PROVE  /\ SweepsFit'
         /\ RowFollows => RowFollows'
         /\ Reconsidered' <=> Reconsidered
<1>1. (HealthOf(inputs))' = HealthOf(inputs)
  BY DEF HealthOf
<1>2. (Recalculated)' <=> Recalculated
  BY <1>1 DEF Recalculated
<1>3. SweepsFit'
  BY DEF SweepsFit, Wanted
<1> QED BY <1>1, <1>2, <1>3 DEF RowFollows, Reconsidered

-----------------------------------------------------------------------------
\* Changes of the inputs, and the way to the health row.
LEMMA HealthSteps ==
  ASSUME AlertInv, NEW w \in Sweep, Turns(w) \/ ReadsInputs(w) \/ WritesHealth(w) \/ ReadsHealth(w)
  PROVE  AlertInv'
<1> USE DEF AlertInv
<1>1. /\ DOMAIN sweep' = Sweep /\ DOMAIN sweep'[w] = {"pc", "saw", "clear", "raise"}
      /\ \A v \in Sweep : v # w => sweep'[v] = sweep[v]
      /\ sweep'[w].clear = {} /\ sweep'[w].raise = {} /\ sweep'[w].pc # "acting"
      /\ Turns(w) => sweep'[w].pc = "moved"
      /\ ReadsInputs(w) => sweep'[w].pc = "projecting" /\ sweep'[w].saw = HealthOf(inputs)
      /\ WritesHealth(w) => sweep'[w].pc = "announced"
      /\ ReadsHealth(w) => sweep'[w].pc = "listing" /\ sweep'[w].saw = health
  <2>1. sweep[w].clear = {} /\ sweep[w].raise = {}
    BY DEF Turns, ReadsInputs, WritesHealth, ReadsHealth, SweepsFit, Idle
  <2>2. CASE Turns(w)
    BY <2>1, <2>2 DEF Turns, ReadsInputs, WritesHealth, ReadsHealth, SweepsFit, Idle
  <2>3. CASE ReadsInputs(w)
    BY <2>1, <2>3 DEF Turns, ReadsInputs, WritesHealth, ReadsHealth, SweepsFit, Idle
  <2>4. CASE WritesHealth(w)
    BY <2>1, <2>4 DEF Turns, ReadsInputs, WritesHealth, ReadsHealth, SweepsFit, Idle
  <2>5. CASE ReadsHealth(w)
    BY <2>1, <2>5 DEF Turns, ReadsInputs, WritesHealth, ReadsHealth, SweepsFit, Idle
  <2> QED BY <2>2, <2>3, <2>4, <2>5
<1>2. SweepsFit'
  BY <1>1, OneSweep
<1>3. alert' = alert /\ hand' = hand /\ (slip' = {} => slip = {})
  BY DEF Turns, ReadsInputs, WritesHealth, ReadsHealth, Slips
<1>4. HandsFit' /\ OneLive' /\ (KeyIsStatus => KeyIsStatus')
  BY <1>3 DEF HandsFit, OneLive, Live, KeyIsStatus
<1>5. Reconsidered'
  <2>1. CASE Turns(w) \/ ReadsInputs(w) \/ WritesHealth(w)
    BY <1>1, <2>1 DEF Reconsidered
  <2>2. CASE ReadsHealth(w)
    BY <1>1, <2>2 DEF Reconsidered, ReadsHealth
  <2> QED BY <2>1, <2>2
<1>6. slip' = {} => RowFollows'
  <2>1. CASE Turns(w)
    BY <1>1, <2>1 DEF RowFollows, Recalculated
  <2>2. CASE ReadsInputs(w)
    <3>1. inputs' = inputs /\ (HealthOf(inputs))' = HealthOf(inputs)
      BY <2>2 DEF ReadsInputs, HealthOf
    <3> QED BY <1>1, <2>2, <3>1 DEF RowFollows, Recalculated
  <2>3. CASE WritesHealth(w)
    <3>1. /\ inputs' = inputs /\ (HealthOf(inputs))' = HealthOf(inputs)
          /\ health' = sweep[w].saw /\ sweep[w].pc = "projecting"
          /\ slip' = {} => sweep[w].saw = HealthOf(inputs) \/ Recalculated
      BY <2>3 DEF WritesHealth, HealthOf, Slips
    <3>2. ASSUME sweep[w].saw # HealthOf(inputs), Recalculated PROVE Recalculated'
      <4>1. PICK v \in Sweep : \/ sweep[v].pc = "moved"
                               \/ sweep[v].pc = "projecting" /\ sweep[v].saw = HealthOf(inputs)
        BY <3>2 DEF Recalculated
      <4>2. v # w
        BY <3>1, <3>2, <4>1
      <4> QED BY <1>1, <3>1, <4>1, <4>2 DEF Recalculated
    <3> QED BY <3>1, <3>2 DEF RowFollows
  <2>4. CASE ReadsHealth(w)
    <3>1. /\ inputs' = inputs /\ (HealthOf(inputs))' = HealthOf(inputs) /\ health' = health
          /\ sweep[w].pc = "announced"
      BY <2>4 DEF ReadsHealth, HealthOf
    <3>2. Recalculated => Recalculated'
      BY <1>1, <3>1 DEF Recalculated
    <3> QED BY <1>3, <3>1, <3>2 DEF RowFollows
  <2> QED BY <2>1, <2>2, <2>3, <2>4
<1> QED BY <1>2, <1>3, <1>4, <1>5, <1>6

\* What is pending of a condition stays pending if the row and the alerts of the
\* condition stay and no list loses it.
LEMMA StaysPending ==
  ASSUME NEW t, Coming(t), health' = health, (KeyHeld(t))' <=> KeyHeld(t),
         \A v \in Sweep : /\ t \in sweep[v].clear => t \in sweep'[v].clear
                          /\ t \in sweep[v].raise => t \in sweep'[v].raise
  PROVE  (Coming(t))'
<1>1. t \in Wanted(health') <=> t \in Wanted(health)
  OBVIOUS
<1> QED BY <1>1 DEF Coming, Wanted

\* The difference between the row and the live alerts.
LEMMA ListSteps ==
  ASSUME AlertInv, NEW w \in Sweep, Lists(w)
  PROVE  AlertInv'
<1> USE DEF AlertInv
<1>1. /\ sweep[w].pc = "listing"
      /\ sweep' = [sweep EXCEPT ![w].pc = "acting",
                     ![w].clear = {t \in AlertType : KeyHeld(t)} \ Wanted(sweep[w].saw),
                     ![w].raise = {t \in Wanted(sweep[w].saw) : ~KeyHeld(t)}]
      /\ inputs' = inputs /\ health' = health /\ alert' = alert /\ hand' = hand /\ slip' = slip
  BY DEF Lists
<1>2. /\ DOMAIN sweep' = Sweep /\ DOMAIN sweep'[w] = {"pc", "saw", "clear", "raise"}
      /\ \A v \in Sweep : v # w => sweep'[v] = sweep[v]
      /\ sweep'[w].pc = "acting" /\ sweep'[w].saw = sweep[w].saw
      /\ sweep'[w].clear = {t \in AlertType : KeyHeld(t)} \ Wanted(sweep[w].saw)
      /\ sweep'[w].raise = {t \in Wanted(sweep[w].saw) : ~KeyHeld(t)}
  <2> DEFINE clear == {t \in AlertType : KeyHeld(t)} \ Wanted(sweep[w].saw)
             raise == {t \in Wanted(sweep[w].saw) : ~KeyHeld(t)}
  <2>1. sweep' = [sweep EXCEPT ![w].pc = "acting", ![w].clear = clear, ![w].raise = raise]
    BY <1>1
  <2>2. DOMAIN sweep = Sweep /\ DOMAIN sweep[w] = {"pc", "saw", "clear", "raise"}
    BY DEF SweepsFit
  <2> HIDE DEF clear, raise
  <2>3. /\ DOMAIN sweep' = Sweep /\ DOMAIN sweep'[w] = {"pc", "saw", "clear", "raise"}
        /\ \A v \in Sweep : v # w => sweep'[v] = sweep[v]
        /\ sweep'[w].pc = "acting" /\ sweep'[w].saw = sweep[w].saw
        /\ sweep'[w].clear = clear /\ sweep'[w].raise = raise
    BY <2>1, <2>2
  <2> QED BY <2>3 DEF clear, raise
<1>3. SweepsFit'
  <2>1. /\ \A t \in sweep'[w].clear : t \notin Wanted(sweep'[w].saw)
        /\ \A t \in sweep'[w].raise : t \in Wanted(sweep'[w].saw)
    BY <1>2
  <2> QED BY <1>2, <2>1, OneSweep
<1>4. /\ HandsFit' /\ OneLive' /\ (KeyIsStatus => KeyIsStatus')
      /\ \A t : (KeyHeld(t))' <=> KeyHeld(t)
  BY <1>1, SameAlerts, SameHands
<1>5. (HealthOf(inputs))' = HealthOf(inputs) /\ (Recalculated => Recalculated')
  <2>1. (HealthOf(inputs))' = HealthOf(inputs)
    BY <1>1 DEF HealthOf
  <2> QED BY <1>1, <1>2, <2>1 DEF Recalculated
<1>6. ASSUME slip = {}, ~Reconsidered', NEW t \in AlertType PROVE (Coming(t))'
  <2>1. CASE sweep[w].saw = health
    BY <1>1, <1>2, <1>4, <2>1 DEF Coming, Wanted
  <2>2. CASE sweep[w].saw # health
    <3>1. ~Reconsidered
      BY <1>1, <1>2, <1>6, <2>2 DEF Reconsidered
    <3>2. sweep[w].clear = {} /\ sweep[w].raise = {}
      BY <1>1 DEF SweepsFit
    <3>3. Coming(t)
      BY <1>6, <3>1
    <3> QED BY <1>1, <1>2, <1>4, <3>2, <3>3, StaysPending
  <2> QED BY <2>1, <2>2
<1> QED BY <1>1, <1>3, <1>4, <1>5, <1>6 DEF RowFollows

\* One alert resolved or raised.
LEMMA WriteSteps ==
  ASSUME AlertInv, NEW w \in Sweep, NEW t \in AlertType, Resolves(w, t) \/ Raises(w, t)
  PROVE  AlertInv'
<1> USE DEF AlertInv
<1>1. /\ sweep[w].pc = "acting"
      /\ inputs' = inputs /\ health' = health /\ hand' = hand
      /\ slip' = {} => slip = {} /\ ~Crossed(w, t)
  BY DEF Resolves, Raises, Slips
<1>2. /\ DOMAIN sweep' = Sweep /\ DOMAIN sweep'[w] = {"pc", "saw", "clear", "raise"}
      /\ \A v \in Sweep : v # w => sweep'[v] = sweep[v]
      /\ sweep'[w].pc = "acting" /\ sweep'[w].saw = sweep[w].saw
      /\ sweep'[w].clear \subseteq sweep[w].clear /\ sweep'[w].raise \subseteq sweep[w].raise
      /\ sweep[w].clear \subseteq sweep'[w].clear \cup {t}
      /\ sweep[w].raise \subseteq sweep'[w].raise \cup {t}
  <2>1. CASE Resolves(w, t)
    BY <2>1 DEF Resolves, SweepsFit
  <2>2. CASE Raises(w, t)
    BY <2>2 DEF Raises, SweepsFit
  <2> QED BY <2>1, <2>2
<1>3. SweepsFit'
  BY <1>1, <1>2, OneSweep DEF SweepsFit
<1>4. /\ alert' \in Seq(Alert) /\ HandsFit' /\ OneLive' /\ (KeyIsStatus => KeyIsStatus')
      /\ \A u : u # t => ((KeyHeld(u))' <=> KeyHeld(u))
      /\ (KeyHeld(t))' <=> t \in Wanted(sweep[w].saw)
  <2>1. CASE Resolves(w, t)
    <3>1. /\ alert' = [i \in DOMAIN alert |-> IF i \in Live(t) THEN Resolved(alert[i]) ELSE alert[i]]
          /\ t \notin Wanted(sweep[w].saw)
      BY <2>1 DEF Resolves, SweepsFit
    <3>2. /\ DOMAIN alert' = DOMAIN alert
          /\ alert' \in Seq(Alert)
          /\ \A i \in DOMAIN alert :
               /\ alert'[i].type = alert[i].type
               /\ i \in Live(t) => alert'[i].status = "Resolved" /\ alert'[i].active = FALSE
               /\ i \notin Live(t) => alert'[i] = alert[i]
      <4>1. /\ Len(alert) \in Nat /\ DOMAIN alert = 1..Len(alert)
            /\ \A i \in DOMAIN alert : alert[i] \in Alert
        BY SeqIsFunction
      <4>2. \A i \in DOMAIN alert :
              /\ Resolved(alert[i]) \in Alert /\ Resolved(alert[i]).type = alert[i].type
              /\ Resolved(alert[i]).status = "Resolved" /\ Resolved(alert[i]).active = FALSE
        BY <4>1 DEF Resolved, Alert, AlertStatus
      <4>3. alert' \in [1..Len(alert) -> Alert]
        BY <3>1, <4>1, <4>2
      <4>4. alert' \in Seq(Alert) /\ DOMAIN alert' = DOMAIN alert
        BY <4>1, <4>3, FunctionIsSeq
      <4> QED BY <3>1, <4>2, <4>4
    <3>3. \A u : u # t => (Live(u))' = Live(u)
      BY <3>2 DEF Live
    <3>4. (Live(t))' = {}
      BY <3>2 DEF Live
    <3>5. HandsFit'
      BY <1>1, <3>2 DEF HandsFit
    <3>6. KeyIsStatus => KeyIsStatus'
      BY <3>2 DEF KeyIsStatus
    <3>7. OneLive'
      BY <3>3, <3>4 DEF OneLive
    <3> QED BY <3>1, <3>2, <3>3, <3>4, <3>5, <3>6, <3>7 DEF KeyHeld
  <2>2. CASE Raises(w, t) /\ KeyHeld(t)
    <3>1. alert' = alert /\ t \in Wanted(sweep[w].saw)
      BY <2>2 DEF Raises, SweepsFit
    <3>2. \A u : (Live(u))' = Live(u)
      BY <3>1 DEF Live
    <3>3. HandsFit' /\ KeyIsStatus' = KeyIsStatus
      BY <1>1, <3>1 DEF HandsFit, KeyIsStatus
    <3> QED BY <2>2, <3>1, <3>2, <3>3 DEF KeyHeld, OneLive
  <2>3. CASE Raises(w, t) /\ ~KeyHeld(t)
    <3>1. alert' = Append(alert, NewAlert(t)) /\ t \in Wanted(sweep[w].saw)
      BY <2>3 DEF Raises, SweepsFit
    <3>2. /\ NewAlert(t) \in Alert /\ NewAlert(t).type = t
          /\ NewAlert(t).status = "Open" /\ NewAlert(t).active
      BY DEF NewAlert, Alert, AlertStatus
    <3> DEFINE n == Len(alert) + 1
    <3>3. /\ alert' \in Seq(Alert) /\ DOMAIN alert' = DOMAIN alert \cup {n}
          /\ n \notin DOMAIN alert /\ alert'[n] = NewAlert(t)
          /\ \A i \in DOMAIN alert : alert'[i] = alert[i]
      BY <3>1, <3>2
    <3> HIDE DEF n
    <3>4. \A u : u # t => (Live(u))' = Live(u)
      BY <3>2, <3>3 DEF Live
    <3>5. Live(t) = {} /\ (Live(t))' = {n}
      BY <2>3, <3>2, <3>3 DEF Live, KeyHeld
    <3>6. HandsFit'
      BY <1>1, <3>3 DEF HandsFit
    <3>7. KeyIsStatus => KeyIsStatus'
      BY <3>2, <3>3 DEF KeyIsStatus
    <3>8. OneLive'
      BY <3>4, <3>5 DEF OneLive
    <3> QED BY <3>1, <3>3, <3>4, <3>5, <3>6, <3>7, <3>8 DEF KeyHeld
  <2> QED BY <2>1, <2>2, <2>3
<1>5. (HealthOf(inputs))' = HealthOf(inputs) /\ (Recalculated => Recalculated')
  BY <1>1, <1>2 DEF Recalculated, HealthOf
<1>6. Reconsidered => Reconsidered'
  BY <1>1, <1>2 DEF Reconsidered
<1>7. ASSUME slip' = {}, ~Reconsidered', NEW u \in AlertType PROVE (Coming(u))'
  <2>1. CASE u = t
    BY <1>1, <1>4, <1>6, <1>7, <2>1 DEF Coming, Crossed, Wanted
  <2>2. CASE u # t
    <3>1. Coming(u)
      BY <1>1, <1>6, <1>7
    <3> QED BY <1>1, <1>2, <1>4, <2>2, <3>1, StaysPending
  <2> QED BY <2>1, <2>2
<1> QED BY <1>1, <1>3, <1>4, <1>5, <1>7 DEF RowFollows

\* A sweep that fails is a slip.
LEMMA FailSteps ==
  ASSUME AlertInv, NEW w \in Sweep, SweepFails(w)
  PROVE  AlertInv'
<1> USE DEF AlertInv
<1>1. /\ alert' = alert /\ hand' = hand /\ slip' # {}
  BY DEF SweepFails
<1>2. PICK left \in {{}} \cup {sweep[w].raise \ {t} : t \in sweep[w].raise} :
        sweep' = [sweep EXCEPT ![w].pc = "acting", ![w].raise = left,
                   ![w].clear = IF left = {} THEN {} ELSE @]
  BY DEF SweepFails
<1>3. PICK clear : /\ sweep' = [sweep EXCEPT ![w].pc = "acting", ![w].raise = left, ![w].clear = clear]
                   /\ clear \subseteq sweep[w].clear
  BY <1>2
<1>4. /\ DOMAIN sweep' = Sweep /\ DOMAIN sweep'[w] = {"pc", "saw", "clear", "raise"}
      /\ \A v \in Sweep : v # w => sweep'[v] = sweep[v]
      /\ sweep'[w].pc = "acting" /\ sweep'[w].saw = sweep[w].saw
      /\ sweep'[w].clear = clear /\ sweep'[w].raise = left
  BY <1>3 DEF SweepsFit
<1>5. left \subseteq sweep[w].raise
  BY <1>2
<1>6. SweepsFit'
  BY <1>3, <1>4, <1>5, OneSweep DEF SweepsFit
<1> QED BY <1>1, <1>6 DEF HandsFit, OneLive, Live

-----------------------------------------------------------------------------
\* A person reads an alert, and saves it.
LEMMA ReadSteps ==
  ASSUME AlertInv, NEW p \in Person, NEW i \in DOMAIN alert, NEW to \in AlertStatus, ReadsAlert(p, i, to)
  PROVE  AlertInv'
<1> USE DEF AlertInv
<1>1. /\ to \in ALERT_TRANSITIONS[alert[i].status]
      /\ hand' = [hand EXCEPT ![p] = [on |-> i, saw |-> alert[i].status, to |-> to]]
      /\ UNCHANGED <<inputs, health, alert, sweep, slip>>
  BY DEF ReadsAlert
<1>2. i \in Nat /\ alert[i].status \in AlertStatus
  <2>1. alert[i] \in Alert /\ i \in Nat
    BY SeqIsFunction
  <2> QED BY <2>1 DEF Alert
<1>3. HandsFit'
  <2>1. hand' \in [Person -> [on : Nat, saw : AlertStatus, to : AlertStatus]]
    BY <1>1, <1>2 DEF HandsFit
  <2>2. /\ hand'[p] = [on |-> i, saw |-> alert[i].status, to |-> to]
        /\ \A q \in Person : q # p => hand'[q] = hand[q]
    BY <1>1 DEF HandsFit
  <2>3. ASSUME NEW q \in Person, hand'[q].on # 0
        PROVE  hand'[q].on \in DOMAIN alert' /\ hand'[q].to \in ALERT_TRANSITIONS[hand'[q].saw]
    BY <1>1, <2>2, <2>3 DEF HandsFit
  <2> HIDE DEF AlertInv
  <2> QED BY <2>1, <2>3 DEF HandsFit, ALERT_TRANSITIONS
<1>4. /\ SweepsFit' /\ OneLive' /\ (KeyIsStatus => KeyIsStatus')
      /\ (RowFollows => RowFollows') /\ (Reconsidered' <=> Reconsidered)
  BY <1>1, SameAlerts, SameSweeps
<1>5. \A t : (KeyHeld(t))' <=> KeyHeld(t)
  BY <1>1, SameAlerts
<1>6. \A t : Coming(t) => (Coming(t))'
  BY <1>1, <1>5, StaysPending
<1> QED BY <1>1, <1>3, <1>4, <1>6

LEMMA SaveSteps ==
  ASSUME AlertInv, NEW p \in Person, SavesAlert(p)
  PROVE  AlertInv'
<1> USE DEF AlertInv
<1> DEFINE n == hand[p].on
<1> DEFINE to == hand[p].to
<1>1. /\ n # 0
      /\ alert' = [alert EXCEPT ![n].status = to, ![n].active = @ /\ ~FreesKey(to)]
      /\ hand' = [hand EXCEPT ![p].on = 0]
      /\ UNCHANGED <<inputs, health, sweep>>
      /\ slip' = {} => /\ slip = {} /\ alert[n].status = hand[p].saw
                       /\ ~(to # "Acknowledged" /\ alert[n].active
                              /\ alert[n].type \in Wanted(health) /\ ~Reconsidered)
  BY DEF SavesAlert
<1>2. n \in DOMAIN alert /\ to \in AlertStatus /\ hand[p].saw \in AlertStatus
      /\ to \in ALERT_TRANSITIONS[hand[p].saw]
  BY <1>1 DEF HandsFit
<1>3. /\ alert' \in Seq(Alert) /\ DOMAIN alert' = DOMAIN alert
      /\ \A i \in DOMAIN alert : i # n => alert'[i] = alert[i]
      /\ alert'[n].type = alert[n].type /\ alert'[n].status = to
      /\ alert'[n].active <=> alert[n].active /\ ~FreesKey(to)
  <2> DEFINE active == alert[n].active /\ ~FreesKey(to)
  <2>1. /\ active \in BOOLEAN /\ alert[n] \in Alert
        /\ Len(alert) \in Nat /\ DOMAIN alert = 1..Len(alert) /\ alert \in [1..Len(alert) -> Alert]
    <3>1. alert[n] \in Alert
      BY <1>2, SeqIsFunction
    <3> QED BY <3>1, SeqIsFunction DEF Alert
  <2>2. alert' = [alert EXCEPT ![n].status = to, ![n].active = active]
    BY <1>1
  <2> HIDE DEF active, n, to
  <2>3. /\ DOMAIN alert' = DOMAIN alert /\ \A i \in DOMAIN alert : i # n => alert'[i] = alert[i]
        /\ alert'[n] = [alert[n] EXCEPT !.status = to, !.active = active]
    BY <1>2, <2>1, <2>2
  <2>4. alert'[n] \in Alert /\ alert'[n].type = alert[n].type /\ alert'[n].status = to /\ alert'[n].active = active
    BY <1>2, <2>1, <2>3 DEF Alert
  <2>5. alert' \in Seq(Alert)
    <3>1. alert' \in [1..Len(alert) -> Alert]
      BY <1>2, <2>1, <2>2, <2>4
    <3> QED BY <2>1, <3>1, FunctionIsSeq
  <2> QED BY <2>3, <2>4, <2>5 DEF active
<1> HIDE DEF n, to
<1>4. \A t : /\ (Live(t))' \subseteq Live(t)
             /\ t # alert[n].type \/ ~alert[n].active \/ ~FreesKey(to) => (Live(t))' = Live(t)
  BY <1>2, <1>3 DEF Live
<1>5. SweepsFit' /\ OneLive'
  <2>1. SweepsFit'
    BY <1>1, SameSweeps
  <2> QED BY <1>4, <2>1 DEF OneLive
<1>6. HandsFit'
  <2>1. hand' \in [Person -> [on : Nat, saw : AlertStatus, to : AlertStatus]]
    BY <1>1 DEF HandsFit
  <2>2. \A q \in Person : /\ q # p => hand'[q] = hand[q]
                          /\ q = p => hand'[q].on = 0
    BY <1>1 DEF HandsFit
  <2>3. ASSUME NEW q \in Person, hand'[q].on # 0
        PROVE  hand'[q].on \in DOMAIN alert' /\ hand'[q].to \in ALERT_TRANSITIONS[hand'[q].saw]
    BY <1>3, <2>2, <2>3 DEF HandsFit
  <2> HIDE DEF AlertInv
  <2> QED BY <2>1, <2>3 DEF HandsFit, ALERT_TRANSITIONS
<1>7. /\ RowFollows => RowFollows'
      /\ Reconsidered' <=> Reconsidered
  BY <1>1 DEF RowFollows, Recalculated, Reconsidered, HealthOf
<1>8. slip' = {} => KeyIsStatus'
  <2>1. ASSUME slip' = {} PROVE KeyIsStatus'
    <3>1. KeyIsStatus /\ to \in ALERT_TRANSITIONS[alert[n].status]
      BY <1>1, <1>2, <2>1
    <3>2. alert[n].active <=> alert[n].status \in {"Open", "Acknowledged"}
      BY <1>2, <3>1 DEF KeyIsStatus
    <3>3. to = "Acknowledged" => alert[n].status = "Open"
      BY <1>1, <1>2, <2>1, <3>1 DEF ALERT_TRANSITIONS, AlertStatus
    <3>4. to # "Open"
      BY <1>1, <1>2, <2>1, <3>1 DEF ALERT_TRANSITIONS, AlertStatus
    <3>5. alert'[n].active <=> alert'[n].status \in {"Open", "Acknowledged"}
      BY <1>2, <1>3, <3>2, <3>3, <3>4 DEF FreesKey, AlertStatus
    <3> QED BY <1>3, <3>1, <3>5 DEF KeyIsStatus
  <2> QED BY <2>1
<1>9. ASSUME slip' = {}, ~Reconsidered', NEW t \in AlertType PROVE (Coming(t))'
  <2>1. Coming(t) /\ ~Reconsidered
    BY <1>1, <1>7, <1>9
  <2>2. t \in Wanted(health) => (Live(t))' = Live(t)
    BY <1>1, <1>4, <1>9, <2>1 DEF FreesKey
  <2>3. KeyHeld(t)' => KeyHeld(t)
    BY <1>4 DEF KeyHeld
  <2>4. t \in Wanted(health) => ((KeyHeld(t))' <=> KeyHeld(t))
    BY <2>2 DEF KeyHeld
  <2>5. Wanted(health)' = Wanted(health)
    BY <1>1 DEF Wanted
  <2> QED BY <1>1, <2>1, <2>3, <2>4, <2>5 DEF Coming
<1> QED BY <1>1, <1>3, <1>5, <1>6, <1>7, <1>8, <1>9

-----------------------------------------------------------------------------
\* Every step keeps it.
LEMMA StepAlertInv == AlertInv /\ [AlertNext]_alertVars => AlertInv'
<1> SUFFICES ASSUME AlertInv, [AlertNext]_alertVars PROVE AlertInv'
  OBVIOUS
<1>1. CASE UNCHANGED alertVars
  <2>1. \A t : (KeyHeld(t))' <=> KeyHeld(t)
    BY <1>1, SameAlerts
  <2>2. \A t : Coming(t) => (Coming(t))'
    BY <1>1, <2>1, StaysPending
  <2>3. OneLive' /\ HandsFit' /\ SweepsFit'
    BY <1>1, SameAlerts, SameHands, SameSweeps DEF AlertInv
  <2>4. /\ KeyIsStatus => KeyIsStatus'
        /\ RowFollows => RowFollows'
        /\ Reconsidered' <=> Reconsidered
    BY <1>1, SameAlerts, SameSweeps DEF AlertInv
  <2> QED BY <1>1, <2>2, <2>3, <2>4 DEF AlertInv
<1>2. ASSUME NEW w \in Sweep, Turns(w) \/ ReadsInputs(w) \/ WritesHealth(w) \/ ReadsHealth(w)
      PROVE AlertInv'
  BY <1>2, HealthSteps
<1>3. ASSUME NEW w \in Sweep, Lists(w) PROVE AlertInv'
  BY <1>3, ListSteps
<1>4. ASSUME NEW w \in Sweep, SweepFails(w) PROVE AlertInv'
  BY <1>4, FailSteps
<1>5. ASSUME NEW w \in Sweep, NEW t \in AlertType, Resolves(w, t) \/ Raises(w, t) PROVE AlertInv'
  BY <1>5, WriteSteps
<1>6. ASSUME NEW p \in Person, NEW i \in DOMAIN alert, NEW to \in AlertStatus, ReadsAlert(p, i, to)
      PROVE AlertInv'
  BY <1>6, ReadSteps
<1>7. ASSUME NEW p \in Person, SavesAlert(p) PROVE AlertInv'
  BY <1>7, SaveSteps
<1> QED BY <1>1, <1>2, <1>3, <1>4, <1>5, <1>6, <1>7 DEF AlertNext

\* When every sweep is idle, nothing is on its way and nothing on a list.
LEMMA QuietFollows == AlertInv => AlertsFollowHealth
<1> SUFFICES ASSUME AlertInv, slip = {}, \A w \in Sweep : Idle(w), NEW t \in AlertType
             PROVE  Cardinality(Unfinished(t)) = IF t \in Wanted(HealthOf(inputs)) THEN 1 ELSE 0
  BY DEF AlertsFollowHealth
<1>1. ~Recalculated /\ ~Reconsidered
  BY DEF Recalculated, Reconsidered, Idle
<1>2. health = HealthOf(inputs) /\ Coming(t) /\ KeyIsStatus /\ OneLive
  BY <1>1 DEF AlertInv, RowFollows
<1>3. Unfinished(t) = Live(t)
  BY <1>2 DEF Unfinished, Live, KeyIsStatus
<1>4. t \in Wanted(health) <=> KeyHeld(t)
  BY <1>2 DEF Coming, Idle
<1>5. CASE KeyHeld(t)
  <2>1. PICK i : Live(t) = {i}
    BY <1>2, <1>5 DEF OneLive, KeyHeld
  <2> QED BY <1>2, <1>3, <1>4, <1>5, <2>1, FS_Singleton
<1>6. CASE ~KeyHeld(t)
  BY <1>2, <1>3, <1>4, <1>6, FS_EmptySet DEF KeyHeld
<1> QED BY <1>5, <1>6

\* The alerts of a SKU follow its stock and its planning data (evaluateSkus, and every
\* caller of recomputeHealthForSkus), unless one of the events named in `slip` has
\* happened.
THEOREM AlertsAlwaysFollowHealth == AlertSpec => []AlertsFollowHealth
BY InitAlertInv, StepAlertInv, QuietFollows, PTL DEF AlertSpec

-----------------------------------------------------------------------------
(* The types of the alerts.                                                *)

\* A row as the formula makes it: what can be planned has a band.
Formulated == {h \in Health : h.plannable => h.band \in Band}
SweepState ==
  [pc : Stage, saw : Formulated, clear : SUBSET AlertType, raise : SUBSET AlertType]
Slip == {"outdated", "crossed", "dismissed", "overtaken", "failed"}

KeysAreLive ==
  \A i \in DOMAIN alert : alert[i].active => alert[i].status \in {"Open", "Acknowledged"}

AlertTypes ==
  /\ inputs \in Inputs /\ health \in Formulated
  /\ sweep \in [Sweep -> SweepState]
  /\ KeysAreLive
  /\ slip \subseteq Slip

\* The formula makes such rows, and what they call for are types of alerts.
LEMMA RowsAreFormulated ==
  /\ \A i \in Inputs : HealthOf(i) \in Formulated
  /\ \A h \in Formulated : Wanted(h) \subseteq AlertType
<1>1. ASSUME NEW i \in Inputs PROVE HealthOf(i) \in Formulated
  <2> DEFINE reasons == i.lacking \cup {r \in {"NOT_ACTIVE"} : ~i.live}
             band == IF reasons = {} THEN Classify(i.onHand) ELSE "Unknown"
  <2>1. reasons \subseteq MissingInput \cup {"NOT_ACTIVE"}
    BY AlertAssumption
  <2>2. Classify(i.onHand) \in Band
    BY DEF Classify, Band
  <2>3. band \in Band \cup {"Unknown"} /\ (reasons = {} => band \in Band)
    BY <2>2
  <2>4. HealthOf(i) = [plannable |-> reasons = {}, reasons |-> reasons, band |-> band]
    BY DEF HealthOf
  <2> HIDE DEF reasons, band
  <2>5. PICK yes \in BOOLEAN : yes <=> reasons = {}
    OBVIOUS
  <2>6. HealthOf(i) = [plannable |-> yes, reasons |-> reasons, band |-> band]
    BY <2>4, <2>5
  <2> QED
    BY <2>1, <2>3, <2>5, <2>6 DEF Formulated, Health
<1>2. ASSUME NEW h \in Formulated PROVE Wanted(h) \subseteq AlertType
  BY DEF Formulated, Health, Wanted, AlertType, Band
<1> QED
  BY <1>1, <1>2

LEMMA InitAlertTypes == AlertInit => AlertTypes
<1> SUFFICES ASSUME AlertInit PROVE AlertTypes
  OBVIOUS
<1>1. /\ inputs \in Inputs /\ health = HealthOf(inputs) /\ slip = {}
      /\ sweep = [w \in Sweep |-> [pc |-> "acting", saw |-> health, clear |-> {}, raise |-> {}]]
      /\ alert \in {<<>>} \cup {<<NewAlert(t)>> : t \in AlertType}
  BY DEF AlertInit
<1>2. health \in Formulated
  BY <1>1, RowsAreFormulated
<1>3. sweep \in [Sweep -> SweepState]
  BY <1>1, <1>2 DEF SweepState, Stage
<1>4. KeysAreLive
  BY <1>1 DEF KeysAreLive, NewAlert
<1> QED
  BY <1>1, <1>2, <1>3, <1>4 DEF AlertTypes

\* What a sweep has to do, in the order it is put down.
LEMMA SweepActs ==
  ASSUME NEW z \in SweepState, NEW clear \in SUBSET AlertType, NEW raise \in SUBSET AlertType
  PROVE  /\ [z EXCEPT !.pc = "acting", !.clear = clear, !.raise = raise] \in SweepState
         /\ [z EXCEPT !.pc = "acting", !.raise = raise, !.clear = clear] \in SweepState
BY DEF SweepState, Stage

LEMMA AlertTypesStep == AlertInv /\ AlertTypes /\ [AlertNext]_alertVars => AlertTypes'
<1> SUFFICES ASSUME AlertInv, AlertTypes, [AlertNext]_alertVars PROVE AlertTypes'
  OBVIOUS
<1>1. /\ inputs \in Inputs /\ health \in Formulated /\ slip \subseteq Slip /\ KeysAreLive
      /\ \A w \in Sweep : sweep[w] \in SweepState
      /\ sweep \in [Sweep -> SweepState]
  BY DEF AlertTypes
<1>2. \A w \in Sweep : /\ sweep[w].pc \in Stage /\ sweep[w].saw \in Formulated
                       /\ sweep[w].clear \subseteq AlertType /\ sweep[w].raise \subseteq AlertType
                       /\ sweep[w] = [pc |-> sweep[w].pc, saw |-> sweep[w].saw,
                                      clear |-> sweep[w].clear, raise |-> sweep[w].raise]
  BY <1>1 DEF SweepState
<1>3. ASSUME alert' = alert PROVE KeysAreLive'
  BY <1>1, <1>3 DEF KeysAreLive
<1>4. CASE UNCHANGED alertVars
  BY <1>1, <1>3, <1>4 DEF AlertTypes
<1>5. ASSUME NEW w \in Sweep, Turns(w) PROVE AlertTypes'
  <2>1. /\ inputs' \in Inputs /\ UNCHANGED <<health, alert, slip>>
        /\ sweep' = [sweep EXCEPT ![w].pc = "moved"]
    BY <1>5 DEF Turns
  <2>3. sweep' \in [Sweep -> SweepState]
    BY <1>1, <1>2, <2>1 DEF SweepState, Stage
  <2> QED
    BY <1>1, <1>3, <2>1, <2>3 DEF AlertTypes
<1>6. ASSUME NEW w \in Sweep, ReadsInputs(w) PROVE AlertTypes'
  <2>1. /\ UNCHANGED <<inputs, health, alert, slip>>
        /\ sweep' = [sweep EXCEPT ![w].pc = "projecting", ![w].saw = HealthOf(inputs)]
    BY <1>6 DEF ReadsInputs
  <2>3. sweep' \in [Sweep -> SweepState]
    BY <1>1, <1>2, <2>1, RowsAreFormulated DEF SweepState, Stage
  <2> QED
    BY <1>1, <1>3, <2>1, <2>3 DEF AlertTypes
<1>7. ASSUME NEW w \in Sweep, WritesHealth(w) PROVE AlertTypes'
  <2>1. /\ UNCHANGED <<inputs, alert>> /\ health' = sweep[w].saw
        /\ sweep' = [sweep EXCEPT ![w].pc = "announced"]
        /\ slip' \subseteq slip \cup {"outdated"}
    BY <1>7 DEF WritesHealth, Slips
  <2>3. sweep' \in [Sweep -> SweepState]
    BY <1>1, <1>2, <2>1 DEF SweepState, Stage
  <2> QED
    BY <1>1, <1>2, <1>3, <2>1, <2>3 DEF AlertTypes, Slip
<1>8. ASSUME NEW w \in Sweep, ReadsHealth(w) PROVE AlertTypes'
  <2>1. /\ UNCHANGED <<inputs, health, alert, slip>>
        /\ sweep' = [sweep EXCEPT ![w].pc = "listing", ![w].saw = health]
    BY <1>8 DEF ReadsHealth
  <2>3. sweep' \in [Sweep -> SweepState]
    BY <1>1, <1>2, <2>1 DEF SweepState, Stage
  <2> QED
    BY <1>1, <1>3, <2>1, <2>3 DEF AlertTypes
<1>9. ASSUME NEW w \in Sweep, Lists(w) PROVE AlertTypes'
  <2> DEFINE clear == {t \in AlertType : KeyHeld(t)} \ Wanted(sweep[w].saw)
             raise == {t \in Wanted(sweep[w].saw) : ~KeyHeld(t)}
  <2>1. /\ UNCHANGED <<inputs, health, alert, slip>>
        /\ sweep' = [sweep EXCEPT ![w].pc = "acting", ![w].clear = clear, ![w].raise = raise]
    BY <1>9 DEF Lists
  <2>2. clear \subseteq AlertType /\ raise \subseteq AlertType
    BY <1>2, RowsAreFormulated
  <2> HIDE DEF clear, raise
  <2>3. sweep' = [sweep EXCEPT ![w] = [sweep[w] EXCEPT !.pc = "acting", !.clear = clear, !.raise = raise]]
    BY <1>1, <2>1
  <2>4. sweep' \in [Sweep -> SweepState]
    BY <1>1, <2>2, <2>3, SweepActs
  <2> QED
    BY <1>1, <1>3, <2>1, <2>4 DEF AlertTypes
<1>10. ASSUME NEW w \in Sweep, SweepFails(w) PROVE AlertTypes'
  <2>1. PICK left \in {{}} \cup {sweep[w].raise \ {t} : t \in sweep[w].raise} :
          sweep' = [sweep EXCEPT ![w].pc = "acting", ![w].raise = left,
                      ![w].clear = IF left = {} THEN {} ELSE @]
    BY <1>10 DEF SweepFails
  <2>2. PICK clear : /\ sweep' = [sweep EXCEPT ![w].pc = "acting", ![w].raise = left, ![w].clear = clear]
                     /\ clear \subseteq sweep[w].clear
    BY <2>1
  <2>3. left \subseteq AlertType /\ clear \subseteq AlertType
    BY <1>2, <2>1, <2>2
  <2>4. sweep' = [sweep EXCEPT ![w] = [sweep[w] EXCEPT !.pc = "acting", !.raise = left, !.clear = clear]]
    BY <1>1, <2>2
  <2>5. sweep' \in [Sweep -> SweepState]
    BY <1>1, <2>3, <2>4, SweepActs
  <2>6. UNCHANGED <<inputs, health, alert>> /\ slip' = slip \cup {"failed"}
    BY <1>10 DEF SweepFails
  <2> QED
    BY <1>1, <1>3, <2>5, <2>6 DEF AlertTypes, Slip
<1>11. ASSUME NEW w \in Sweep, NEW t \in AlertType, Resolves(w, t) PROVE AlertTypes'
  <2>1. /\ alert' = [i \in DOMAIN alert |-> IF i \in Live(t) THEN Resolved(alert[i]) ELSE alert[i]]
        /\ sweep' = [sweep EXCEPT ![w].clear = @ \ {t}]
        /\ UNCHANGED <<inputs, health>> /\ slip' \subseteq slip \cup {"crossed"}
    BY <1>11 DEF Resolves, Slips
  <2>3. sweep' \in [Sweep -> SweepState]
    <3>1. sweep[w].clear \ {t} \in SUBSET AlertType
      BY <1>2
    <3> QED
      BY <1>1, <1>2, <2>1, <3>1 DEF SweepState
  <2>4. KeysAreLive'
    <3>1. \A i \in DOMAIN alert : alert[i] \in Alert
      BY SeqIsFunction DEF AlertInv
    <3>2. \A i \in DOMAIN alert : ~Resolved(alert[i]).active
      BY <3>1 DEF Resolved, Alert
    <3> QED
      BY <1>1, <2>1, <3>2 DEF KeysAreLive
  <2> QED
    BY <1>1, <2>1, <2>3, <2>4 DEF AlertTypes, Slip
<1>12. ASSUME NEW w \in Sweep, NEW t \in AlertType, Raises(w, t) PROVE AlertTypes'
  <2>1. /\ alert' = alert \/ alert' = Append(alert, NewAlert(t))
        /\ sweep' = [sweep EXCEPT ![w].raise = @ \ {t}]
        /\ UNCHANGED <<inputs, health>> /\ slip' \subseteq slip \cup {"crossed"}
    BY <1>12 DEF Raises, Slips
  <2>3. sweep' \in [Sweep -> SweepState]
    <3>1. sweep[w].raise \ {t} \in SUBSET AlertType
      BY <1>2
    <3> QED
      BY <1>1, <1>2, <2>1, <3>1 DEF SweepState
  <2>4. KeysAreLive'
    <3>1. CASE alert' = alert
      BY <1>3, <3>1
    <3>2. CASE alert' = Append(alert, NewAlert(t))
      <4>1. alert \in Seq(Alert) /\ NewAlert(t) \in Alert /\ NewAlert(t).status = "Open"
        BY DEF AlertInv, NewAlert, Alert, AlertStatus
      <4>2. /\ DOMAIN alert' = DOMAIN alert \cup {Len(alert) + 1}
            /\ alert'[Len(alert) + 1] = NewAlert(t)
            /\ \A i \in DOMAIN alert : alert'[i] = alert[i]
        BY <3>2, <4>1
      <4> QED
        BY <1>1, <4>1, <4>2 DEF KeysAreLive
    <3> QED
      BY <2>1, <3>1, <3>2
  <2> QED
    BY <1>1, <2>1, <2>3, <2>4 DEF AlertTypes, Slip
<1>13. ASSUME NEW p \in Person, NEW i \in DOMAIN alert, NEW to \in AlertStatus, ReadsAlert(p, i, to)
       PROVE AlertTypes'
  BY <1>1, <1>3, <1>13 DEF AlertTypes, ReadsAlert
<1>14. ASSUME NEW p \in Person, SavesAlert(p) PROVE AlertTypes'
  <2>1. PICK n, to : n = hand[p].on /\ to = hand[p].to
    OBVIOUS
  <2>2. /\ n # 0
        /\ alert' = [alert EXCEPT ![n].status = to, ![n].active = @ /\ ~FreesKey(to)]
        /\ UNCHANGED <<inputs, health, sweep>>
        /\ slip' \subseteq slip \cup {"overtaken", "dismissed"}
    BY <1>14, <2>1 DEF SavesAlert
  <2>3. n \in DOMAIN alert /\ to \in AlertStatus
    BY <2>1, <2>2 DEF AlertInv, HandsFit
  <2>4. alert[n] \in Alert
    BY <2>3, SeqIsFunction DEF AlertInv
  <2>5. PICK active : active = (alert[n].active /\ ~FreesKey(to))
    OBVIOUS
  <2>6. alert' = [alert EXCEPT ![n].status = to, ![n].active = active]
    BY <2>2, <2>5
  <2>7. /\ DOMAIN alert' = DOMAIN alert
        /\ \A i \in DOMAIN alert : i # n => alert'[i] = alert[i]
        /\ alert'[n].status = to /\ alert'[n].active = active
    BY <2>3, <2>4, <2>6 DEF Alert
  <2>8. active => to \in {"Open", "Acknowledged"}
    BY <2>3, <2>5 DEF FreesKey, AlertStatus
  <2>9. KeysAreLive'
    BY <1>1, <2>7, <2>8 DEF KeysAreLive
  <2> QED
    BY <1>1, <2>2, <2>9 DEF AlertTypes, Slip
<1> QED
  BY <1>4, <1>5, <1>6, <1>7, <1>8, <1>9, <1>10, <1>11, <1>12, <1>13, <1>14 DEF AlertNext

\* A hand is on an alert there is.
LEMMA AlertsAreTyped == AlertInv /\ AlertTypes => AlertTypeOK
<1> SUFFICES ASSUME AlertInv, AlertTypes PROVE AlertTypeOK
  OBVIOUS
<1>1. /\ inputs \in Inputs /\ health \in Health
      /\ sweep \in [Sweep -> [pc : Stage, saw : Health, clear : SUBSET AlertType, raise : SUBSET AlertType]]
      /\ KeysAreLive /\ slip \subseteq Slip /\ alert \in Seq(Alert)
  BY DEF AlertTypes, AlertInv, Formulated, SweepState
<1>2. Len(alert) \in Nat /\ DOMAIN alert = 1..Len(alert)
  BY <1>1
<1>3. hand \in [Person -> [on : 0..Len(alert), saw : AlertStatus, to : AlertStatus]]
  <2>1. hand \in [Person -> [on : Nat, saw : AlertStatus, to : AlertStatus]]
    BY DEF AlertInv, HandsFit
  <2>2. \A p \in Person : hand[p].on \in 0..Len(alert)
    BY <1>2, <2>1 DEF AlertInv, HandsFit
  <2>3. \A p \in Person : hand[p] \in [on : 0..Len(alert), saw : AlertStatus, to : AlertStatus]
    BY <2>1, <2>2
  <2> QED
    BY <2>1, <2>3
<1> QED
  BY <1>1, <1>3 DEF AlertTypeOK, Alert, Stage, Slip, KeysAreLive

LEMMA AlertTypesHold == AlertSpec => []AlertTypeOK
<1>1. AlertInv /\ AlertTypes /\ [AlertNext]_alertVars => (AlertInv /\ AlertTypes)'
  BY StepAlertInv, AlertTypesStep
<1> QED
  BY <1>1, InitAlertInv, InitAlertTypes, AlertsAreTyped, PTL DEF AlertSpec

-----------------------------------------------------------------------------
(* The ledger and its batches.                                             *)

\* A holder that has not written yet: the movement is claimed and has no contra-entry.
ClaimIsHeld ==
  \A c \in Caller, m \in Key :
    Target(c) = m /\ m \notin doubtful =>
      /\ pc[c] \in Holding => reversedBy[m] = Pending
      /\ pc[c] \in Holding \ {"stamping"} => \A k \in batch : Orig[k] # m

OneHolder ==
  \A m \in Key \ doubtful : \A c, d \in Holders(m) : c = d

\* What a reversal under way has checked of its original stays true.
OriginalStands ==
  \A c \in Caller :
    /\ pc[c] \in {"claiming", "stamping"} => Target(c) # None
    /\ pc[c] # "idle" /\ Target(c) # None => Target(c) \in batch /\ Orig[Target(c)] = None

\* Whoever has an answer finds its batch in the ledger.
AnswerIsPosted ==
  \A c \in Caller : pc[c] \in {"stamping", "done"} => asks[c] \in batch

LedgerInv ==
  /\ LedgerTypeOK
  /\ OneContra
  /\ MarkedAsReversed
  /\ OneWriter
  /\ ClaimIsHeld
  /\ OneHolder
  /\ OriginalStands
  /\ AnswerIsPosted

USE LedgerAssumption

\* The first look of the service at an empty ledger.
LEMMA InitInv == LedgerInit => LedgerInv
  BY DEF LedgerInit, LedgerInv, LedgerTypeOK, OneContra, MarkedAsReversed, OneWriter,
         ClaimIsHeld, OneHolder, OriginalStands, AnswerIsPosted, Holders, Holding, Phase, Target

\* Every step of a call, and a step that does nothing, keeps the invariant.
LEMMA StepInv == LedgerInv /\ [LedgerNext]_ledgerVars => LedgerInv'
<1> SUFFICES ASSUME LedgerInv, [LedgerNext]_ledgerVars PROVE LedgerInv'
  OBVIOUS
<1> USE DEF LedgerInv, LedgerTypeOK, OneContra, MarkedAsReversed, OneWriter, ClaimIsHeld,
            OneHolder, OriginalStands, AnswerIsPosted, Holders, Holding, Phase, Target, Goto
<1>1. ASSUME NEW c \in Caller, NEW k \in Key, BeginsPosting(c, k) PROVE LedgerInv'
  BY <1>1 DEF BeginsPosting
<1>2. ASSUME NEW c \in Caller, NEW k \in Key, BeginsReversal(c, k) PROVE LedgerInv'
  BY <1>2 DEF BeginsReversal
<1>3. ASSUME NEW c \in Caller, Claims(c) PROVE LedgerInv'
  BY <1>3 DEF Claims
<1>4. ASSUME NEW c \in Caller, LooksUp(c) PROVE LedgerInv'
  <2>1. /\ \A d \in Caller \ {c} : replayed'[d] = replayed[d] /\ pc'[d] = pc[d]
        /\ asks' = asks
    BY <1>4 DEF LooksUp, Answers
  <2>2. ASSUME asks[c] \in batch PROVE LedgerTypeOK' /\ OneWriter'
    <3>1. replayed' = [replayed EXCEPT ![c] = TRUE]
      BY <1>4, <2>2 DEF LooksUp, Answers
    <3>2. pc' \in [Caller -> Phase]
      BY <1>4, <2>2 DEF LooksUp, Answers
    <3>3. LedgerTypeOK'
      BY <1>4, <3>1, <3>2 DEF LooksUp
    <3>4. OneWriter'
      BY <2>1, <2>2, <3>1
    <3>5. QED
      BY <3>3, <3>4
  <2>3. ASSUME asks[c] \notin batch PROVE LedgerTypeOK' /\ OneWriter'
    <3>1. pc' = [pc EXCEPT ![c] = "writing"] /\ UNCHANGED replayed
      BY <1>4, <2>3 DEF LooksUp
    <3>2. LedgerTypeOK' /\ OneWriter'
      BY <1>4, <3>1 DEF LooksUp
    <3>3. QED
      BY <3>2
  <2>5. LedgerTypeOK' /\ OneWriter'
    BY <2>2, <2>3
  <2>6. /\ OneContra' /\ MarkedAsReversed' /\ ClaimIsHeld' /\ OneHolder'
        /\ OriginalStands' /\ AnswerIsPosted'
    BY <1>4 DEF LooksUp, Answers
  <2>7. QED
    BY <2>5, <2>6
<1>5. ASSUME NEW c \in Caller, WritesBatch(c) PROVE LedgerInv'
  <2>1. /\ \A d \in Caller \ {c} : replayed'[d] = replayed[d] /\ pc'[d] = pc[d]
        /\ asks' = asks
    BY <1>5 DEF WritesBatch, Answers
  <2>2. replayed' \in [Caller -> BOOLEAN] /\ pc' \in [Caller -> Phase]
    BY <1>5 DEF WritesBatch, Answers
  <2>3. ASSUME asks[c] \notin batch PROVE ~replayed'[c]
    <3>1. replayed' = [replayed EXCEPT ![c] = asks[c] \in batch]
      BY <1>5 DEF WritesBatch, Answers
    <3>2. replayed'[c] = (asks[c] \in batch)
      BY <3>1
    <3>3. QED
      BY <2>3, <3>2
  <2>8. ASSUME asks[c] \in batch PROVE replayed'[c]
    <3>1. replayed' = [replayed EXCEPT ![c] = asks[c] \in batch]
      BY <1>5 DEF WritesBatch, Answers
    <3>2. replayed'[c] = (asks[c] \in batch)
      BY <3>1
    <3>3. QED
      BY <2>8, <3>2
  <2>4. LedgerTypeOK'
    BY <1>5, <2>2 DEF WritesBatch
  <2>5. OneWriter'
    BY <2>1, <2>3, <2>8
  <2>6. /\ OneContra' /\ MarkedAsReversed' /\ ClaimIsHeld' /\ OneHolder'
        /\ OriginalStands' /\ AnswerIsPosted'
    BY <1>5 DEF WritesBatch, Answers
  <2>7. QED
    BY <2>4, <2>5, <2>6
<1>6. ASSUME NEW c \in Caller, WriteErrors(c) PROVE LedgerInv'
  BY <1>6 DEF WriteErrors
<1>7. ASSUME NEW c \in Caller, CommitUnknown(c) PROVE LedgerInv'
  BY <1>7 DEF CommitUnknown
<1>8. ASSUME NEW c \in Caller, Fails(c) PROVE LedgerInv'
  BY <1>8 DEF Fails
<1>9. ASSUME NEW c \in Caller, Stamps(c) PROVE LedgerInv'
  BY <1>9 DEF Stamps
<1>10. ASSUME NEW c \in Caller, Dies(c) PROVE LedgerInv'
  BY <1>10 DEF Dies
<1>11. CASE UNCHANGED ledgerVars
  BY <1>11 DEF ledgerVars
<1>12. QED
  BY <1>1, <1>2, <1>3, <1>4, <1>5, <1>6, <1>7, <1>8, <1>9, <1>10, <1>11
     DEF LedgerNext

\* Every reachable state satisfies the inductive invariant.
THEOREM LedgerInvariance == LedgerSpec => []LedgerInv
  BY InitInv, StepInv, PTL DEF LedgerSpec

\* The service's state is well typed, for any keys and any number of calls.
THEOREM LedgerTypeCorrect == LedgerSpec => []LedgerTypeOK
  BY LedgerInvariance, PTL DEF LedgerInv

\* A movement is reversed at most once while no commit of a reversal was reported
\* as failed.
THEOREM ReversedAtMostOnce == LedgerSpec => []OneContra
  BY LedgerInvariance, PTL DEF LedgerInv

\* reversedBy never lies: null means no contra-entry, an id names one.
THEOREM AlwaysMarkedAsReversed == LedgerSpec => []MarkedAsReversed
  BY LedgerInvariance, PTL DEF LedgerInv

\* At most one call per key is told that it wrote the batch.
THEOREM WrittenByOne == LedgerSpec => []OneWriter
  BY LedgerInvariance, PTL DEF LedgerInv

\* A claim changes hands only by a stamp, a release, or the death of its holder.
LEMMA StepOwned == LedgerTypeOK /\ ClaimIsOwned /\ [LedgerNext]_ledgerVars => ClaimIsOwned'
<1> SUFFICES ASSUME LedgerTypeOK, ClaimIsOwned, [LedgerNext]_ledgerVars,
                    NEW m \in Key, reversedBy'[m] = Pending, m \notin orphaned'
             PROVE  \E h \in Caller : Orig[asks'[h]] = m /\ pc'[h] \in Holding
  BY DEF ClaimIsOwned, Holders, Target
<1> USE DEF LedgerTypeOK, Holding, Phase, Target, Goto
<1>1. ASSUME NEW c \in Caller, Claims(c), Target(c) = m, reversedBy[m] = None
      PROVE  Orig[asks'[c]] = m /\ pc'[c] \in Holding
  BY <1>1 DEF Claims
<1>2. ASSUME reversedBy[m] = Pending PROVE \E h \in Caller : Orig[asks'[h]] = m /\ pc'[h] \in Holding
  <2>1. m \notin orphaned
    BY DEF LedgerNext, BeginsPosting, BeginsReversal, Claims, LooksUp, WritesBatch, WriteErrors,
           CommitUnknown, Fails, Stamps, Dies, ledgerVars
  <2>2. PICK h \in Caller : Orig[asks[h]] = m /\ pc[h] \in Holding
    BY <1>2, <2>1 DEF ClaimIsOwned, Holders
  <2>3. ASSUME NEW c \in Caller, NEW k \in Key, BeginsPosting(c, k) \/ BeginsReversal(c, k)
        PROVE  Orig[asks'[h]] = m /\ pc'[h] \in Holding
    BY <2>2, <2>3 DEF BeginsPosting, BeginsReversal
  <2>4. ASSUME NEW c \in Caller, LooksUp(c) \/ WritesBatch(c)
        PROVE  Orig[asks'[h]] = m /\ pc'[h] \in Holding
    BY <2>2, <2>4 DEF LooksUp, WritesBatch, Answers
  <2>5. ASSUME NEW c \in Caller, Claims(c) \/ WriteErrors(c) \/ CommitUnknown(c)
        PROVE  Orig[asks'[h]] = m /\ pc'[h] \in Holding
    BY <2>2, <2>5 DEF Claims, WriteErrors, CommitUnknown
  <2>6. ASSUME NEW c \in Caller, Fails(c) PROVE Orig[asks'[h]] = m /\ pc'[h] \in Holding
    BY <1>2, <2>2, <2>6 DEF Fails
  <2>7. ASSUME NEW c \in Caller, Stamps(c) PROVE Orig[asks'[h]] = m /\ pc'[h] \in Holding
    BY <2>2, <2>7 DEF Stamps
  <2>8. ASSUME NEW c \in Caller, Dies(c) PROVE Orig[asks'[h]] = m /\ pc'[h] \in Holding
    BY <2>2, <2>8 DEF Dies
  <2>9. CASE UNCHANGED ledgerVars
    BY <2>2, <2>9 DEF ledgerVars
  <2>10. QED
    BY <2>2, <2>3, <2>4, <2>5, <2>6, <2>7, <2>8, <2>9 DEF LedgerNext
<1>3. ASSUME reversedBy[m] # Pending
      PROVE  \E c \in Caller : Claims(c) /\ Target(c) = m /\ reversedBy[m] = None
  <2>1. ASSUME NEW c \in Caller, Stamps(c) PROVE FALSE
    BY <1>3, <2>1 DEF Stamps
  <2>2. ASSUME NEW c \in Caller, Claims(c) PROVE Target(c) = m /\ reversedBy[m] = None
    BY <1>3, <2>2 DEF Claims
  <2>3. QED
    BY <1>3, <2>1, <2>2
       DEF LedgerNext, BeginsPosting, BeginsReversal, LooksUp, WritesBatch, WriteErrors,
           CommitUnknown, Fails, Dies, ledgerVars
<1>4. QED
  BY <1>1, <1>2, <1>3

\* A movement is left half reversed only by a process that died.
THEOREM ClaimsAreOwned == LedgerSpec => []ClaimIsOwned
<1>1. LedgerInit => ClaimIsOwned
  BY DEF LedgerInit, ClaimIsOwned
<1>2. QED
  BY <1>1, LedgerTypeCorrect, StepOwned, PTL DEF LedgerSpec

-----------------------------------------------------------------------------
(* Refinement of LedgerBook.                                               *)

\* A step of a call appends one entry to the book, reverses one, or leaves it alone.
LEMMA StepRefines == LedgerInv /\ [LedgerNext]_ledgerVars => [Book!BookNext]_<<batch, doubtful>>
<1> SUFFICES ASSUME LedgerInv, [LedgerNext]_ledgerVars
             PROVE  Book!BookNext \/ UNCHANGED <<batch, doubtful>>
  OBVIOUS
<1>1. ASSUME NEW c \in Caller, WritesBatch(c) \/ CommitUnknown(c), asks[c] \notin batch
      PROVE  Book!BookNext
  <2>1. /\ asks[c] \in Key
        /\ batch' = batch \cup {asks[c]}
        /\ pc[c] = "writing"
    BY <1>1 DEF WritesBatch, CommitUnknown, LedgerInv, LedgerTypeOK
  <2>2. CASE Target(c) = None
    <3>1. doubtful' = doubtful
      BY <1>1, <2>2 DEF WritesBatch, CommitUnknown
    <3>2. Book!Append(asks[c])
      BY <1>1, <2>1, <2>2, <3>1 DEF Book!Append, Target
    <3>3. QED
      BY <2>1, <3>2 DEF Book!BookNext
  <2>3. CASE Target(c) # None
    <3>1. Target(c) \in batch /\ Orig[Target(c)] = None
      BY <2>1, <2>3 DEF LedgerInv, OriginalStands
    <3>2. Target(c) \in Key
      BY <3>1 DEF LedgerInv, LedgerTypeOK
    <3>3. Book!Contras(Target(c)) = {} \/ Target(c) \in doubtful
      BY <2>1, <3>2 DEF LedgerInv, ClaimIsHeld, Holding, Book!Contras
    <3>4. doubtful' \in {doubtful, doubtful \cup {Target(c)}}
      BY <1>1, <2>3 DEF WritesBatch, CommitUnknown
    <3>5. Book!Reverse(asks[c])
      BY <1>1, <2>1, <3>1, <3>3, <3>4 DEF Book!Reverse, Target
    <3>6. QED
      BY <2>1, <3>5 DEF Book!BookNext
  <2>4. QED
    BY <2>2, <2>3
<1>2. ASSUME NEW c \in Caller, WritesBatch(c), asks[c] \in batch
      PROVE  UNCHANGED <<batch, doubtful>>
  BY <1>2 DEF WritesBatch
<1>3. ASSUME NEW c \in Caller,
             \/ \E k \in Key : BeginsPosting(c, k) \/ BeginsReversal(c, k)
             \/ Claims(c) \/ LooksUp(c) \/ WriteErrors(c) \/ Fails(c) \/ Stamps(c) \/ Dies(c)
      PROVE  UNCHANGED <<batch, doubtful>>
  BY <1>3 DEF BeginsPosting, BeginsReversal, Claims, LooksUp, WriteErrors, Fails, Stamps, Dies
<1>4. CASE UNCHANGED ledgerVars
  BY <1>4 DEF ledgerVars
<1>5. ASSUME NEW c \in Caller, CommitUnknown(c) PROVE asks[c] \notin batch
  BY <1>5 DEF CommitUnknown
<1>6. QED
  BY <1>1, <1>2, <1>3, <1>4, <1>5 DEF LedgerNext

\* postBatch and reverseMovement implement the book: each committed batch is one
\* append, and nothing else touches it.
THEOREM PostingImplementsBook == LedgerSpec => ImplementsBook
<1>1. LedgerInit => Book!BookInit
  BY DEF LedgerInit, Book!BookInit
<1>2. QED
  BY <1>1, LedgerInvariance, StepRefines, PTL DEF LedgerSpec, ImplementsBook, Book!BookSpec

-----------------------------------------------------------------------------
(* The stores' records together.                                           *)

\* Whatever the records do side by side, each does what it does alone.
LEMMA StoresRunEach == StoresSpec => LedgerSpec /\ CountSpec /\ AlertSpec
<1>1. StoresInit => LedgerInit /\ CountInit /\ AlertInit
  BY DEF StoresInit
<1>2. [StoresNext]_<<ledgerVars, countVars, alertVars, part>>
        => [LedgerNext]_ledgerVars /\ [CountNext]_countVars /\ [AlertNext]_alertVars
  BY DEF StoresNext
<1> QED
  BY <1>1, <1>2, PTL DEF StoresSpec, LedgerSpec, CountSpec, AlertSpec

\* The documents of the ledger, of the counts and of the alerts hold what they may hold,
\* for any keys, callers, counts, requests, sweeps and people (the schemas of the ledger,
\* of the count sessions and of the alerts).
THEOREM StoresAreTyped == StoresSpec => []StoresTypeOK
BY StoresRunEach, LedgerTypeCorrect, CountTypesHold, AlertTypesHold, PTL DEF StoresTypeOK
================================================================================
