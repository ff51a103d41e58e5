----------------------------- MODULE BackOfficeProofs -----------------------------
(***************************************************************************)
(* Proofs about what goes on around the counters: the weekly report        *)
(* (ReportRun), the sessions of an account (Sessions), what a customer is  *)
(* told of a booking (BookingTimeline) and the import of quantities        *)
(* (ImportJob).                                                            *)
(*                                                                         *)
(* The report: unless something amiss has happened, one attempt at most is *)
(* past its claim, the record says Running as long as it is, and whether   *)
(* the mail has left can be read off where it stands.                      *)
(*                                                                         *)
(* The sessions: browsers share no token and no session, one browser has   *)
(* one session, and a token on its way to a browser is nowhere else; hence *)
(* what a browser holds or asks with is known to the account as long as    *)
(* nothing parted them.                                                    *)
(*                                                                         *)
(* The timeline: as long as no two requests moved a booking to one stage   *)
(* at once, the entries to a stage are its events and the one request that *)
(* has still to record its own, which will find the next number free; as   *)
(* long as no mail is sent twice over, one request at most mails about an  *)
(* event, and what left can be read off where it stands.                   *)
(*                                                                         *)
(* The import: a batch, once inserted, holds what its rows asked for, and  *)
(* a row is counted when its batch is there; the rows a worker holds, its  *)
(* step and the job's state account for everything the tally says.         *)
(***************************************************************************)
EXTENDS MCBackOffice, UpcomingStockProofs

-----------------------------------------------------------------------------
(* The report of a period.                                                 *)

USE DEF reportVars

\* What the actions need to know of the state's shape: an attempt that was not forced
\* never goes on from a report that is sent.
RunShape ==
  /\ run \in [status : RunStatus, stale : BOOLEAN]
  /\ attempt \in [Attempt -> [pc : {"waiting", "claiming", "working", "sent", "unsent", "over"},
                              saw : RunStatus, tries : Nat]]
  /\ mails \in Nat
  /\ \A a \in Attempt : attempt[a].pc = "claiming" /\ attempt[a].saw = "Completed" => a \in Forced

\* Past its claim and not yet recorded.
Claims(a) == attempt[a].pc \in {"working", "sent", "unsent"}

OneHolder == \A a, b \in Attempt : Claims(a) /\ Claims(b) => a = b

HolderRuns ==
  \A a \in Attempt :
    /\ Claims(a) => run.status = "Running"
    /\ attempt[a].pc = "sent" => mails = 1
    /\ attempt[a].pc \in {"working", "unsent"} => mails = 0

RecordIsTrue ==
  /\ run.status \in {"none", "Failed"} => mails = 0
  /\ run.status = "Completed" => mails = 1
  /\ mails <= 1

MailInv == RunShape /\ (amiss = {} => OneHolder /\ HolderRuns /\ RecordIsTrue)

-----------------------------------------------------------------------------
\* Initially nobody holds the claim and nothing has been mailed.
LEMMA InitMailInv == ReportInit => MailInv
<1> SUFFICES ASSUME ReportInit PROVE MailInv
  OBVIOUS
<1>1. /\ run = [status |-> "none", stale |-> FALSE]
      /\ attempt = [a \in Attempt |-> [pc |-> "waiting", saw |-> "none", tries |-> 0]]
      /\ mails = 0
  BY DEF ReportInit
<1>2. \A a \in Attempt : attempt[a].pc = "waiting"
  BY <1>1
<1>3. RunShape
  BY <1>1 DEF RunShape, RunStatus
<1> QED BY <1>1, <1>2, <1>3 DEF MailInv, OneHolder, HolderRuns, RecordIsTrue, Claims

\* What moving one attempt on leaves of the others.
LEMMA OthersStay ==
  ASSUME RunShape, NEW a \in Attempt,
         NEW pc \in {"waiting", "claiming", "working", "sent", "unsent", "over"}, At(a, pc)
  PROVE  /\ attempt' \in [Attempt -> [pc : {"waiting", "claiming", "working", "sent", "unsent", "over"},
                                      saw : RunStatus, tries : Nat]]
         /\ attempt'[a].pc = pc /\ attempt'[a].saw = attempt[a].saw
         /\ \A b \in Attempt : b # a => attempt'[b] = attempt[b]
BY DEF RunShape, At

\* Every step keeps it.
LEMMA StepMailInv == MailInv /\ [ReportNext]_reportVars => MailInv'
<1> SUFFICES ASSUME MailInv, [ReportNext]_reportVars PROVE MailInv'
  OBVIOUS
<1> USE DEF MailInv
<1>1. ASSUME NEW a \in Attempt, ReadsRun(a) PROVE MailInv'
  <2>1. /\ attempt' = [attempt EXCEPT ![a].saw = run.status,
                                      ![a].pc = IF Refuses(a) THEN "over" ELSE "claiming"]
        /\ run' = run /\ mails' = mails /\ amiss' = amiss
    BY <1>1 DEF ReadsRun
  <2>2. /\ attempt' \in [Attempt -> [pc : {"waiting", "claiming", "working", "sent", "unsent", "over"},
                                     saw : RunStatus, tries : Nat]]
        /\ attempt'[a].pc \in {"over", "claiming"} /\ attempt'[a].saw = run.status
        /\ Refuses(a) => attempt'[a].pc = "over"
        /\ \A b \in Attempt : b # a => attempt'[b] = attempt[b]
    <3> DEFINE pc == IF Refuses(a) THEN "over" ELSE "claiming"
    <3>1. pc \in {"over", "claiming"} /\ (Refuses(a) => pc = "over") /\ run.status \in RunStatus
      BY DEF RunShape
    <3>2. attempt' = [attempt EXCEPT ![a].saw = run.status, ![a].pc = pc]
      BY <2>1
    <3> HIDE DEF pc
    <3>3. attempt' = [attempt EXCEPT ![a] = [attempt[a] EXCEPT !.saw = run.status, !.pc = pc]]
      BY <3>2 DEF RunShape
    <3>4. attempt'[a].pc = pc /\ attempt'[a].saw = run.status
      BY <3>3 DEF RunShape
    <3>5. \A b \in Attempt : b # a => attempt'[b] = attempt[b]
      BY <3>3 DEF RunShape
    <3>6. attempt' \in [Attempt -> [pc : {"waiting", "claiming", "working", "sent", "unsent", "over"},
                                    saw : RunStatus, tries : Nat]]
      BY <3>1, <3>3 DEF RunShape
    <3> QED BY <3>1, <3>4, <3>5, <3>6
  <2>3. RunShape'
    BY <2>1, <2>2 DEF RunShape, Refuses
  <2>4. ~(Claims(a))' /\ attempt'[a].pc \notin {"sent", "working", "unsent"}
    BY <2>2 DEF Claims
  <2> QED BY <2>1, <2>2, <2>3, <2>4 DEF OneHolder, HolderRuns, RecordIsTrue, Claims
<1>2. ASSUME NEW a \in Attempt, CreatesRun(a) PROVE MailInv'
  <2>1. CASE KeyIsFree
    <3>1. /\ run' = [status |-> "Running", stale |-> FALSE] /\ At(a, "working")
          /\ mails' = mails /\ amiss' = amiss /\ run.status = "none"
      BY <1>2, <2>1 DEF CreatesRun, KeyIsFree
    <3>2. RunShape'
      BY <3>1, OthersStay DEF RunShape, RunStatus
    <3> QED BY <3>1, <3>2, OthersStay DEF OneHolder, HolderRuns, RecordIsTrue, Claims
  <2>2. CASE ~KeyIsFree
    <3>1. At(a, "over") /\ run' = run /\ mails' = mails /\ amiss' = amiss
      BY <1>2, <2>2 DEF CreatesRun
    <3>2. RunShape'
      BY <3>1, OthersStay DEF RunShape
    <3> QED BY <3>1, <3>2, OthersStay DEF OneHolder, HolderRuns, RecordIsTrue, Claims
  <2> QED BY <2>1, <2>2
<1>3. ASSUME NEW a \in Attempt, TakesRunOver(a) PROVE MailInv'
  <2>1. /\ attempt[a].pc = "claiming" /\ attempt[a].saw # "none"
        /\ run' = [status |-> IF attempt[a].saw = "Running" THEN run.status ELSE "Running", stale |-> FALSE]
        /\ At(a, "working") /\ mails' = mails
    BY <1>3 DEF TakesRunOver
  <2>2. RunShape'
    BY <2>1, OthersStay DEF RunShape, RunStatus
  <2>3. amiss' = {} => /\ amiss = {} /\ a \notin Forced
                       /\ attempt[a].saw # "Running" /\ attempt[a].saw = run.status
    BY <1>3 DEF TakesRunOver
  <2>4. amiss' = {} => run.status = "Failed" /\ run'.status = "Running"
    BY <2>1, <2>3 DEF RunShape, RunStatus
  <2> QED BY <2>1, <2>2, <2>3, <2>4, OthersStay DEF OneHolder, HolderRuns, RecordIsTrue, Claims
<1>4. ASSUME NEW a \in Attempt, PreparationFails(a) PROVE MailInv'
  <2>1. attempt[a].pc = "working" /\ At(a, "unsent") /\ run' = run /\ mails' = mails /\ amiss' = amiss
    BY <1>4 DEF PreparationFails
  <2>2. RunShape'
    BY <2>1, OthersStay DEF RunShape
  <2> QED BY <2>1, <2>2, OthersStay DEF OneHolder, HolderRuns, RecordIsTrue, Claims
<1>5. ASSUME NEW a \in Attempt, MailAccepted(a) PROVE MailInv'
  <2>1. /\ attempt[a].pc = "working" /\ At(a, "sent")
        /\ run' = run /\ mails' = mails + 1 /\ amiss' = amiss
    BY <1>5 DEF MailAccepted
  <2>2. RunShape'
    BY <2>1, OthersStay DEF RunShape
  <2> QED BY <2>1, <2>2, OthersStay DEF OneHolder, HolderRuns, RecordIsTrue, Claims, RunShape
<1>6. ASSUME NEW a \in Attempt, MailRefused(a) PROVE MailInv'
  <2>1. /\ attempt[a].pc = "working" /\ run' = run
        /\ attempt' = [attempt EXCEPT ![a].tries = @ + 1,
                         ![a].pc = IF attempt[a].tries + 1 = MailTries THEN "unsent" ELSE @]
        /\ \/ mails' = mails /\ amiss' = amiss
           \/ mails' = mails + 1 /\ amiss' = amiss \cup {"unheard"}
    BY <1>6 DEF MailRefused
  <2>2. /\ attempt' \in [Attempt -> [pc : {"waiting", "claiming", "working", "sent", "unsent", "over"},
                                     saw : RunStatus, tries : Nat]]
        /\ attempt'[a].pc \in {"working", "unsent"} /\ attempt'[a].saw = attempt[a].saw
        /\ \A b \in Attempt : b # a => attempt'[b] = attempt[b]
    <3> DEFINE pc == IF attempt[a].tries + 1 = MailTries THEN "unsent" ELSE attempt[a].pc
    <3> DEFINE tries == attempt[a].tries + 1
    <3>1. pc \in {"working", "unsent"} /\ tries \in Nat
      BY <2>1 DEF RunShape
    <3>2. attempt' = [attempt EXCEPT ![a].tries = tries, ![a].pc = pc]
      BY <2>1
    <3> HIDE DEF pc, tries
    <3>3. attempt' = [attempt EXCEPT ![a] = [attempt[a] EXCEPT !.tries = tries, !.pc = pc]]
      BY <3>2 DEF RunShape
    <3> QED BY <3>1, <3>3 DEF RunShape
  <2>3. RunShape'
    BY <2>1, <2>2 DEF RunShape
  <2> QED BY <2>1, <2>2, <2>3 DEF OneHolder, HolderRuns, RecordIsTrue, Claims
<1>7. ASSUME NEW a \in Attempt, RecordsRun(a) PROVE MailInv'
  <2>1. /\ attempt[a].pc \in {"sent", "unsent"} /\ At(a, "over")
        /\ run' = [run EXCEPT !.status = Verdict(a)] /\ mails' = mails /\ amiss' = amiss
    BY <1>7 DEF RecordsRun
  <2>2. run'.status = Verdict(a) /\ run' \in [status : RunStatus, stale : BOOLEAN]
    BY <2>1 DEF RunShape, Verdict, RunStatus
  <2>3. RunShape'
    BY <2>1, <2>2, OthersStay DEF RunShape
  <2> QED BY <2>1, <2>2, <2>3, OthersStay DEF OneHolder, HolderRuns, RecordIsTrue, Claims, Verdict
<1>8. ASSUME NEW a \in Attempt, RecordingFails(a) PROVE MailInv'
  <2>1. /\ At(a, "over") /\ mails' = mails /\ amiss' # {}
        /\ \E status \in {run.status, "Failed"} : run' = [run EXCEPT !.status = status]
    BY <1>8 DEF RecordingFails
  <2>2. run' \in [status : RunStatus, stale : BOOLEAN]
    BY <2>1 DEF RunShape, RunStatus
  <2>3. RunShape'
    BY <2>1, <2>2, OthersStay DEF RunShape
  <2> QED BY <2>1, <2>3
<1>9. ASSUME NEW a \in Attempt, AttemptDies(a) PROVE MailInv'
  <2>1. At(a, "over") /\ run' = run /\ mails' = mails /\ amiss' = amiss
    BY <1>9 DEF AttemptDies
  <2>2. RunShape'
    BY <2>1, OthersStay DEF RunShape
  <2> QED BY <2>1, <2>2, OthersStay DEF OneHolder, HolderRuns, RecordIsTrue, Claims
<1>10. CASE ClaimAges
  <2>1. run' = [run EXCEPT !.stale = TRUE] /\ attempt' = attempt /\ mails' = mails /\ amiss' = amiss
    BY <1>10 DEF ClaimAges
  <2>2. run'.status = run.status /\ RunShape'
    BY <2>1 DEF RunShape
  <2> QED BY <2>1, <2>2 DEF OneHolder, HolderRuns, RecordIsTrue, Claims
<1>11. CASE UNCHANGED reportVars
  BY <1>11 DEF RunShape, OneHolder, HolderRuns, RecordIsTrue, Claims
<1> QED BY <1>1, <1>2, <1>3, <1>4, <1>5, <1>6, <1>7, <1>8, <1>9, <1>10, <1>11 DEF ReportNext

-----------------------------------------------------------------------------
\* A weekly report is not sent twice, and what the record says of it is true, unless one
\* of the events named in `amiss` has happened (claimReportRun and the save that ends a
\* run).
THEOREM AlwaysMailedOnce == ReportSpec => []MailedOnce
<1>1. MailInv => MailedOnce
  BY DEF MailInv, RecordIsTrue, MailedOnce
<1> QED BY <1>1, InitMailInv, StepMailInv, PTL DEF ReportSpec

-----------------------------------------------------------------------------
(* The sessions of an account.                                             *)

\* Browser b, or a request of it under way, has token k.
Has(b, k) ==
  /\ k > 0
  /\ \/ cookie[b] = k
     \/ \E t \in Tab : BrowserOf[t] = b /\ (tab[t].token = k \/ tab[t].sets = k)

Uses(s, b) == Has(b, s.hash) \/ Has(b, s.prev)

\* A request with token k is not refused.
Serves(list, old, k) == k = old \/ Holds(list, k) \/ Graced(list, k)

SessionShape ==
  /\ issued \in Nat /\ issued <= MaxTokens /\ oldToken \in Nat /\ oldToken <= issued
  /\ \A s \in sessions : /\ s \in Session /\ s.hash \in Nat \ {0} /\ s.hash <= issued
                         /\ s.prev \in Nat /\ s.prev <= issued
  /\ \E n \in Nat : \A s \in sessions : s.used <= n
  /\ cookie = [b \in Browser |-> cookie[b]]
  /\ \A b \in Browser : cookie[b] \in Nat /\ cookie[b] <= issued
  /\ parted \in [Browser -> SUBSET {"evicted", "revoked", "outrun", "lost", "left"}]
  /\ tab = [t \in Tab |-> tab[t]]

\* A request that has not been answered sets no cookie.
RequestShape(x) ==
  /\ x \in [pc : {"idle", "asked", "current", "adopting", "answered"}, token : Nat, sets : Nat \cup {Clear, Keep}]
  /\ x.token <= issued /\ x.sets <= issued /\ x.sets # 0
  /\ x.pc = "idle" => x = NoTab
  /\ x.pc # "idle" => x.token # 0
  /\ x.pc # "answered" => x.sets = Keep

\* No two browsers share a token or a session, no browser has two sessions, and one
\* that holds the token of the single-token scheme has nothing else.
OneBrowser == \A b, c \in Browser : \A k : Has(b, k) /\ Has(c, k) => b = c
OneUser == \A s \in sessions : \A b, c \in Browser : Uses(s, b) /\ Uses(s, c) => b = c
OneSession == \A r, s \in sessions : \A b \in Browser : Uses(r, b) /\ Uses(s, b) => r = s
OldAlone ==
  \A b \in Browser : Has(b, oldToken) =>
    (\A k : Has(b, k) => k = oldToken) /\ (\A s \in sessions : ~Uses(s, b))

\* A token on its way to the browser is nowhere else.
PendingAlone ==
  \A t \in Tab : tab[t].sets > 0 =>
    /\ \A b \in Browser : cookie[b] # tab[t].sets
    /\ \A u \in Tab : tab[u].token # tab[t].sets /\ (u # t => tab[u].sets # tab[t].sets)

\* What b holds and asks with is known, and what it is sent is what a session holds;
\* when nothing is on its way, its cookie is.
WellServed(b) ==
  /\ cookie[b] = 0 => \A t \in Tab : BrowserOf[t] = b => tab[t].pc = "idle"
  /\ cookie[b] # 0 => Serves(sessions, oldToken, cookie[b])
  /\ \A t \in Tab : BrowserOf[t] = b =>
       /\ tab[t].pc = "asked" => Serves(sessions, oldToken, tab[t].token)
       /\ tab[t].sets # Clear
       /\ tab[t].sets > 0 => Holds(sessions, tab[t].sets)
  /\ \/ \E t \in Tab : BrowserOf[t] = b /\ tab[t].sets > 0
     \/ cookie[b] \in {0, oldToken}
     \/ Holds(sessions, cookie[b])

SessionInv ==
  /\ SessionShape
  /\ \A t \in Tab : RequestShape(tab[t])
  /\ OneBrowser /\ OneUser /\ OneSession /\ OldAlone /\ PendingAlone
  /\ \A b \in Browser : parted[b] = {} => WellServed(b)

-----------------------------------------------------------------------------
(* What keeps browsers apart, and what leaves one as it was.               *)

Same(r, s) == r.hash = s.hash /\ r.prev = s.prev

\* Tokens and sessions are dropped.
LEMMA ApartKept ==
  ASSUME SessionInv,
         \A b \in Browser : \A k : Has(b, k)' => Has(b, k),
         \A q, r \in sessions' : \E p, s \in sessions : Same(p, q) /\ Same(s, r) /\ (p = s => q = r),
         oldToken' \in {0, oldToken}
  PROVE  OneBrowser' /\ OneUser' /\ OneSession' /\ OldAlone'
<1>1. OneBrowser /\ OneUser /\ OneSession /\ OldAlone
  BY DEF SessionInv
<1>2. \A b \in Browser : \A r : Uses(r, b)' => Uses(r, b)
  BY DEF Uses
<1>3. \A r, s : \A b \in Browser : Same(s, r) /\ Uses(r, b) => Uses(s, b)
  BY DEF Uses, Same
<1>4. \A b \in Browser : ~Has(b, 0)'
  BY DEF Has
<1> HIDE DEF Has, Uses, Same
<1>5. OneBrowser'
  BY <1>1 DEF OneBrowser
<1>6. OneUser'
  BY <1>1, <1>2, <1>3 DEF OneUser
<1>7. OneSession'
  BY <1>1, <1>2, <1>3 DEF OneSession
<1>8. OldAlone'
  BY <1>1, <1>2, <1>3, <1>4 DEF OldAlone
<1> QED
  BY <1>5, <1>6, <1>7, <1>8

\* Browser b is given a new token n, and a session that has it.
LEMMA ApartRenewed ==
  ASSUME SessionInv, NEW b \in Browser, NEW n, NEW z, z.hash = n,
         \A c \in Browser : ~Has(c, n),
         \A c \in Browser : \A k : Has(c, k)' => Has(c, k) \/ (c = b /\ k = n),
         \A s \in sessions' : s # z => s \in sessions /\ n \notin {s.hash, s.prev}
                               /\ ~Has(b, s.hash)' /\ ~Has(b, s.prev)',
         z.prev = 0 \/ (z.prev # n /\ Has(b, z.prev)),
         oldToken' = oldToken, oldToken # n, ~Has(b, oldToken)'
  PROVE  OneBrowser' /\ OneUser' /\ OneSession' /\ OldAlone'
<1>1. OneBrowser /\ OneUser /\ OneSession /\ OldAlone
  BY DEF SessionInv
<1>2. \A c \in Browser : ~Has(c, 0)'
  BY DEF Has
<1>3. \A c \in Browser : Uses(z, c)' => c = b
  BY <1>1, <1>2 DEF Uses, OneBrowser
<1>b. \A s \in sessions' : s # z => s \in sessions /\ n \notin {s.hash, s.prev} /\ ~Uses(s, b)'
  BY DEF Uses
<1>4. \A c \in Browser : \A s \in sessions : n \notin {s.hash, s.prev} /\ Uses(s, c)' => Uses(s, c)
  BY DEF Uses
<1> HIDE DEF Has, Uses
<1>5. OneBrowser'
  BY <1>1 DEF OneBrowser
<1>6. OneUser'
  BY <1>1, <1>3, <1>4, <1>b DEF OneUser
<1>7. OneSession'
  BY <1>1, <1>3, <1>4, <1>b DEF OneSession
<1>8. OldAlone'
  BY <1>1, <1>3, <1>4, <1>b DEF OldAlone
<1> QED
  BY <1>5, <1>6, <1>7, <1>8

\* A browser with nothing written to it stays well served if its tokens are.
LEMMA ServedStands ==
  ASSUME NEW c \in Browser, WellServed(c), cookie'[c] = cookie[c],
         \A t \in Tab : BrowserOf[t] = c => tab'[t] = tab[t],
         cookie[c] # 0 => Serves(sessions', oldToken', cookie[c]),
         \A t \in Tab : BrowserOf[t] = c /\ tab[t].pc = "asked" => Serves(sessions', oldToken', tab[t].token),
         \A k : Has(c, k) /\ Holds(sessions, k) => Holds(sessions', k),
         Has(c, oldToken) => oldToken' = oldToken \/ Holds(sessions', oldToken),
         cookie[c] \in Nat
  PROVE  WellServed(c)'
<1>1. \A t \in Tab : BrowserOf[t] = c /\ tab[t].sets > 0 => Has(c, tab[t].sets)
  BY DEF Has
<1>2. cookie[c] # 0 => Has(c, cookie[c])
  BY DEF Has
<1> HIDE DEF Has, Holds, Serves
<1>3. \/ \E t \in Tab : BrowserOf[t] = c /\ tab'[t].sets > 0
      \/ cookie'[c] \in {0, oldToken'}
      \/ Holds(sessions', cookie'[c])
  <2>1. CASE \E t \in Tab : BrowserOf[t] = c /\ tab[t].sets > 0
    BY <2>1
  <2>2. CASE cookie[c] = 0
    BY <2>2
  <2>3. CASE cookie[c] # 0 /\ cookie[c] = oldToken
    BY <1>2, <2>3
  <2>4. CASE cookie[c] # 0 /\ Holds(sessions, cookie[c])
    BY <1>2, <2>4
  <2> QED
    BY <2>1, <2>2, <2>3, <2>4 DEF WellServed
<1>4. \A t \in Tab : BrowserOf[t] = c /\ tab[t].sets > 0 => Holds(sessions', tab[t].sets)
  BY <1>1 DEF WellServed
<1> QED
  BY <1>3, <1>4 DEF WellServed

\* It does if its session and its old token are kept.
LEMMA ServedKept ==
  ASSUME SessionInv, NEW c \in Browser, WellServed(c), cookie'[c] = cookie[c],
         \A t \in Tab : BrowserOf[t] = c => tab'[t] = tab[t],
         \A s \in sessions : Uses(s, c) => \E r \in sessions' : Same(r, s) /\ (s.grace => r.grace),
         Has(c, oldToken) => oldToken' = oldToken \/ Holds(sessions', oldToken)
  PROVE  WellServed(c)'
<1>1. \A k : Has(c, k) /\ Holds(sessions, k) => Holds(sessions', k)
  BY DEF Holds, Uses, Same
<1>2. \A k : Has(c, k) /\ Graced(sessions, k) => Graced(sessions', k)
  BY DEF Graced, Uses, Same
<1>3. \A k : Has(c, k) /\ Serves(sessions, oldToken, k) => Serves(sessions', oldToken', k)
  BY <1>1, <1>2 DEF Serves
<1>4. cookie[c] \in Nat /\ (cookie[c] # 0 => Has(c, cookie[c]))
  BY DEF Has, SessionInv, SessionShape
<1>5. \A t \in Tab : BrowserOf[t] = c /\ tab[t].pc = "asked" => Has(c, tab[t].token)
  <2> SUFFICES ASSUME NEW t \in Tab, BrowserOf[t] = c, tab[t].pc = "asked" PROVE Has(c, tab[t].token)
    OBVIOUS
  <2>1. tab[t].token \in Nat /\ tab[t].token # 0
    BY DEF SessionInv, RequestShape
  <2> QED
    BY <2>1 DEF Has
<1> HIDE DEF Has, Holds, Serves
<1>6. /\ cookie[c] # 0 => Serves(sessions', oldToken', cookie[c])
      /\ \A t \in Tab : BrowserOf[t] = c /\ tab[t].pc = "asked" => Serves(sessions', oldToken', tab[t].token)
  BY <1>3, <1>4, <1>5 DEF WellServed
<1> QED
  BY <1>1, <1>4, <1>6, ServedStands

-----------------------------------------------------------------------------
(* What the steps do to a request and to a session.                        *)

\* A session made now was used last.
LEMMA NewIsLast ==
  ASSUME SessionShape, NEW k \in Nat, NEW p \in Nat, k <= MaxTokens, p <= MaxTokens
  PROVE  LET z == NewSession(k, p)
         IN  /\ z \in Session /\ z.hash = k /\ z.prev = p /\ z.grace
             /\ \A s \in sessions : s.used < z.used
<1> DEFINE used == {s.used : s \in sessions}
<1>1. PICK n \in Nat : \A s \in sessions : s.used <= n
  BY DEF SessionShape
<1>2. \A s \in sessions : s.used \in Nat
  BY DEF SessionShape, Session
<1>3. PICK U : U = {0} \cup used
  OBVIOUS
<1>4. U \in SUBSET Nat /\ U # {} /\ \A x \in U : x <= n
  BY <1>1, <1>2, <1>3
<1>5. Max(U) \in Nat /\ \A x \in U : x <= Max(U)
  BY <1>4, MaxOf
<1>6. PICK m : m = 1 + Max(U)
  OBVIOUS
<1>7. m \in Nat /\ \A s \in sessions : s.used < m
  <2>1. PICK y : y = Max(U)
    OBVIOUS
  <2>2. y \in Nat /\ m = 1 + y /\ \A x \in U : x <= y
    BY <1>5, <1>6, <2>1
  <2>3. \A s \in sessions : s.used <= y
    BY <1>3, <2>2
  <2> QED
    BY <1>2, <2>2, <2>3
<1>8. NewSession(k, p) = [hash |-> k, prev |-> p, grace |-> TRUE, used |-> m]
  BY <1>3, <1>6 DEF NewSession
<1>9. k \in Token /\ p \in Token
  BY SessionAssumption DEF Token
<1> HIDE DEF used
<1> QED
  BY <1>7, <1>8, <1>9 DEF Session

\* The session used last is never dropped for newer ones.
LEMMA LastStays ==
  ASSUME NEW S, NEW z, \A s \in S : s.used \in Nat /\ s.used < z.used, z.used \in Nat
  PROVE  z \in Capped(S \cup {z}) /\ Capped(S \cup {z}) \subseteq S \cup {z}
<1>a. \A x \in S \cup {z} : ~(x.used > z.used)
  <2> SUFFICES ASSUME NEW x \in S \cup {z} PROVE ~(x.used > z.used)
    OBVIOUS
  <2>1. PICK m, n : m = x.used /\ n = z.used
    OBVIOUS
  <2>2. m \in Nat /\ n \in Nat /\ (m < n \/ m = n)
    BY <2>1
  <2> QED
    BY <2>1, <2>2
<1>1. {x \in S \cup {z} : x.used > z.used} = {}
  BY <1>a
<1>2. Cardinality({x \in S \cup {z} : x.used > z.used}) < MaxSessions
  <2>1. Cardinality({}) = 0
    BY FS_EmptySet
  <2>2. 0 < MaxSessions
    BY SessionAssumption
  <2> QED
    BY <1>1, <2>1, <2>2
<1> QED
  BY <1>2 DEF Capped

\* Sessions are dropped or lose their grace.
LEMMA ShapeKept ==
  ASSUME SessionInv, issued' = issued, oldToken' \in {0, oldToken},
         \A r \in sessions' : r \in Session /\ \E s \in sessions : Same(r, s) /\ r.used = s.used,
         cookie' = [b \in Browser |-> cookie'[b]],
         \A b \in Browser : cookie'[b] \in Nat /\ cookie'[b] <= issued,
         parted' \in [Browser -> SUBSET {"evicted", "revoked", "outrun", "lost", "left"}],
         tab' = [t \in Tab |-> tab'[t]]
  PROVE  SessionShape'
<1>1. \A r \in sessions' : /\ r \in Session /\ r.hash \in Nat \ {0} /\ r.hash <= issued
                           /\ r.prev \in Nat /\ r.prev <= issued
  BY DEF SessionInv, SessionShape, Same
<1>2. PICK n \in Nat : \A s \in sessions : s.used <= n
  BY DEF SessionInv, SessionShape
<1>3. \A r \in sessions' : r.used <= n
  BY <1>2
<1> QED
  BY <1>1, <1>2, <1>3 DEF SessionInv, SessionShape

-----------------------------------------------------------------------------
(* Signing in, out, and revoking.                                          *)

\* A token that is new is nobody's.
LEMMA NewToken ==
  ASSUME SessionInv
  PROVE  /\ issued \in Nat /\ issued + 1 # oldToken /\ \A c \in Browser : ~Has(c, issued + 1)
         /\ \A s \in sessions : issued + 1 \notin {s.hash, s.prev}
<1>1. PICK n : n = issued + 1
  OBVIOUS
<1>2. n \in Nat /\ issued \in Nat /\ \A m \in Nat : m <= issued => m # n
  BY <1>1 DEF SessionInv, SessionShape
<1>3. \A c \in Browser : cookie[c] # n
  BY <1>2 DEF SessionInv, SessionShape
<1>4. \A t \in Tab : tab[t].token # n /\ tab[t].sets # n
  <2> SUFFICES ASSUME NEW t \in Tab PROVE tab[t].token # n /\ tab[t].sets # n
    OBVIOUS
  <2>1. tab[t].token \in Nat /\ tab[t].token <= issued /\ tab[t].sets \in Nat \cup {-1, -2} /\ tab[t].sets <= issued
    BY DEF SessionInv, RequestShape, Clear, Keep
  <2> QED
    BY <1>2, <2>1
<1>5. \A s \in sessions : n \notin {s.hash, s.prev}
  BY <1>2 DEF SessionInv, SessionShape
<1>6. n # oldToken
  BY <1>2 DEF SessionInv, SessionShape
<1>7. \A c \in Browser : ~Has(c, n)
  BY <1>3, <1>4 DEF Has
<1> QED
  BY <1>1, <1>2, <1>5, <1>6, <1>7

LEMMA SignsInKeeps == ASSUME SessionInv, NEW b \in Browser, SignsIn(b) PROVE SessionInv'
<1>1. PICK n : n = issued + 1
  OBVIOUS
<1>2. PICK z : z = NewSession(n, NoToken)
  OBVIOUS
<1>3. PICK list : list = Capped(sessions \cup {z})
  OBVIOUS
<1>4. /\ issued < MaxTokens /\ Quiet(b) /\ issued' = n /\ sessions' = list
      /\ cookie' = [cookie EXCEPT ![b] = n] /\ oldToken' = oldToken /\ tab' = tab
      /\ parted' = [c \in Browser |-> IF c = b THEN {}
                      ELSE parted[c] \cup (IF c \in Estranged(list, oldToken) THEN {"evicted"} ELSE {})]
  BY <1>1, <1>2, <1>3 DEF SignsIn
<1>5. /\ issued \in Nat /\ n \in Nat /\ n # 0 /\ n <= MaxTokens /\ n # oldToken
      /\ \A c \in Browser : ~Has(c, n)
      /\ \A s \in sessions : n \notin {s.hash, s.prev}
  BY <1>1, <1>4, NewToken, SessionAssumption
<1>6. z \in Session /\ z.hash = n /\ z.prev = 0 /\ z.grace /\ \A s \in sessions : s.used < z.used
  BY <1>2, <1>5, NewIsLast, SessionAssumption DEF SessionInv, NoToken
<1>7. z \in list /\ list \subseteq sessions \cup {z}
  <2>1. z.used \in Nat /\ \A s \in sessions : s.used \in Nat
    BY <1>6 DEF SessionInv, SessionShape, Session
  <2> QED
    BY <1>3, <1>6, <2>1, LastStays
<1>8. /\ \A t \in Tab : BrowserOf[t] = b => tab[t].token = 0 /\ tab[t].sets = Keep
      /\ \A t \in Tab : BrowserOf[t] = b => tab[t].pc = "idle"
  BY <1>4 DEF Quiet, TabsOf, SessionInv, RequestShape, NoTab, NoToken
<1>9. cookie'[b] = n /\ \A c \in Browser \ {b} : cookie'[c] = cookie[c]
  BY <1>4 DEF SessionInv, SessionShape
<1>10. /\ \A c \in Browser \ {b} : \A k : Has(c, k)' <=> Has(c, k)
       /\ \A k : Has(b, k)' => k = n
  BY <1>4, <1>8, <1>9 DEF Has, Keep
<1>11. OneBrowser' /\ OneUser' /\ OneSession' /\ OldAlone'
  <2>1. \A c \in Browser : \A k : Has(c, k)' => Has(c, k) \/ (c = b /\ k = n)
    BY <1>10
  <2>2. ASSUME NEW s \in sessions', s # z
        PROVE  s \in sessions /\ n \notin {s.hash, s.prev} /\ ~Has(b, s.hash)' /\ ~Has(b, s.prev)'
    <3>1. s \in sessions /\ n \notin {s.hash, s.prev}
      BY <1>4, <1>5, <1>7, <2>2
    <3> QED
      BY <1>10, <3>1
  <2>3. ~Has(b, oldToken)'
    BY <1>4, <1>5, <1>10
  <2>4. \A s \in sessions' : s # z => s \in sessions /\ n \notin {s.hash, s.prev}
                                      /\ ~Has(b, s.hash)' /\ ~Has(b, s.prev)'
    BY <2>2
  <2>5. z.hash = n /\ z.prev = 0 /\ oldToken' = oldToken /\ oldToken # n /\ \A c \in Browser : ~Has(c, n)
    BY <1>4, <1>5, <1>6
  <2> QED
    BY <2>1, <2>3, <2>4, <2>5, ApartRenewed
<1>12. PendingAlone'
  <2>1. \A t \in Tab : tab[t].sets # n
    <3> SUFFICES ASSUME NEW t \in Tab PROVE tab[t].sets # n
      OBVIOUS
    <3>1. BrowserOf[t] \in Browser /\ n > 0
      BY <1>5, SessionAssumption
    <3> QED
      BY <1>5, <3>1 DEF Has
  <2> QED
    BY <1>4, <1>9, <2>1 DEF SessionInv, PendingAlone
<1>13. SessionShape'
  <2>1. \A s \in sessions' : /\ s \in Session /\ s.hash \in Nat \ {0} /\ s.hash <= n
                             /\ s.prev \in Nat /\ s.prev <= n
    <3>1. \A s \in sessions : /\ s \in Session /\ s.hash \in Nat \ {0} /\ s.hash <= issued
                              /\ s.prev \in Nat /\ s.prev <= issued
      BY DEF SessionInv, SessionShape
    <3>2. \A m \in Nat : m <= issued => m <= n
      BY <1>1, <1>5
    <3> QED
      BY <1>4, <1>5, <1>6, <1>7, <3>1, <3>2
  <2>2. \E m \in Nat : \A s \in sessions' : s.used <= m
    <3>1. z.used \in Nat /\ \A s \in sessions : s.used \in Nat /\ s.used < z.used
      BY <1>6 DEF SessionInv, SessionShape, Session
    <3>2. \A s \in sessions' : s.used <= z.used
      BY <1>4, <1>7, <3>1
    <3> QED
      BY <3>1, <3>2
  <2>3. /\ cookie' = [c \in Browser |-> cookie'[c]]
        /\ \A c \in Browser : cookie'[c] \in Nat /\ cookie'[c] <= n
    BY <1>1, <1>4, <1>5, <1>9 DEF SessionInv, SessionShape
  <2>4. parted' \in [Browser -> SUBSET {"evicted", "revoked", "outrun", "lost", "left"}]
    BY <1>4 DEF SessionInv, SessionShape
  <2>5. oldToken' \in Nat /\ oldToken' <= n /\ tab' = [t \in Tab |-> tab'[t]]
    BY <1>1, <1>4, <1>5 DEF SessionInv, SessionShape
  <2> QED
    BY <1>4, <1>5, <2>1, <2>2, <2>3, <2>4, <2>5 DEF SessionShape
<1>14. ASSUME NEW t \in Tab PROVE RequestShape(tab[t])'
  <2>1. PICK x : x = tab[t] /\ RequestShape(x)
    BY DEF SessionInv
  <2>2. RequestShape(x)'
    BY <1>1, <1>4, <1>5, <2>1 DEF RequestShape, Clear, Keep
  <2>3. x = tab'[t]
    BY <1>4, <2>1
  <2> QED
    BY <2>2, <2>3 DEF RequestShape
<1>15. WellServed(b)'
  <2>1. Holds(sessions', n)
    BY <1>4, <1>6, <1>7 DEF Holds
  <2> QED
    BY <1>4, <1>5, <1>8, <1>9, <2>1 DEF WellServed, Serves, Keep, Clear
<1>16. ASSUME NEW c \in Browser \ {b}, parted'[c] = {} PROVE WellServed(c)'
  <2>1. parted[c] = {} /\ c \notin Estranged(list, oldToken)
    BY <1>4, <1>16
  <2>2. WellServed(c)
    BY <2>1 DEF SessionInv
  <2>3. cookie[c] \in {0, oldToken} \/ Holds(list, cookie[c]) \/ Graced(list, cookie[c])
    BY <2>1 DEF Estranged, NoToken
  <2>4. \A s \in sessions : Uses(s, c) => s \in list
    <3> SUFFICES ASSUME NEW s \in sessions, Uses(s, c) PROVE s \in list
      OBVIOUS
    <3>1. CASE cookie[c] = 0
      <4>1. \A t \in Tab : BrowserOf[t] = c => tab[t].token = 0 /\ tab[t].sets = Keep
        BY <2>2, <3>1 DEF WellServed, SessionInv, RequestShape, NoTab, NoToken
      <4> QED
        BY <3>1, <4>1 DEF Uses, Has, Keep
    <3>2. cookie[c] # 0 => Has(c, cookie[c])
      BY DEF Has, SessionInv, SessionShape
    <3>3. CASE cookie[c] # 0 /\ cookie[c] = oldToken
      BY <3>2, <3>3 DEF SessionInv, OldAlone
    <3>4. CASE cookie[c] # 0 /\ (Holds(list, cookie[c]) \/ Graced(list, cookie[c]))
      <4>1. PICK r \in list : cookie[c] \in {r.hash, r.prev}
        BY <3>4 DEF Holds, Graced
      <4>2. Uses(r, c) /\ r # z
        BY <1>5, <1>6, <3>2, <3>4, <4>1 DEF Uses
      <4>3. r \in sessions
        BY <1>7, <4>2
      <4> QED
        BY <4>1, <4>2, <4>3 DEF SessionInv, OneSession
    <3> QED
      BY <2>3, <3>1, <3>3, <3>4
  <2>5. \A s \in sessions : Uses(s, c) => \E r \in sessions' : Same(r, s) /\ (s.grace => r.grace)
    BY <1>4, <2>4 DEF Same
  <2> QED
    BY <1>4, <1>9, <2>2, <2>5, ServedKept
<1> QED
  BY <1>4, <1>11, <1>12, <1>13, <1>14, <1>15, <1>16 DEF SessionInv

\* Sessions are dropped or lose their grace, cookies are cleared, and that is all.
LEMMA SessionsDropped ==
  ASSUME SessionInv, issued' = issued, tab' = tab, oldToken' \in {0, oldToken},
         \A r \in sessions' : r \in Session /\ \E s \in sessions : Same(r, s) /\ r.used = s.used,
         \A q, r \in sessions' : \E p, s \in sessions : Same(p, q) /\ Same(s, r) /\ (p = s => q = r),
         cookie' = [b \in Browser |-> cookie'[b]], \A b \in Browser : cookie'[b] \in {0, cookie[b]},
         parted' \in [Browser -> SUBSET {"evicted", "revoked", "outrun", "lost", "left"}],
         \A b \in Browser : parted'[b] = {} => WellServed(b)'
  PROVE  SessionInv'
<1>1. \A b \in Browser : \A k : Has(b, k)' => Has(b, k)
  BY DEF Has
<1>2. OneBrowser' /\ OneUser' /\ OneSession' /\ OldAlone'
  BY <1>1, ApartKept
<1>3. \A b \in Browser : cookie'[b] \in Nat /\ cookie'[b] <= issued
  BY DEF SessionInv, SessionShape
<1>4. tab' = [t \in Tab |-> tab'[t]]
  BY DEF SessionInv, SessionShape
<1>5. SessionShape'
  BY <1>3, <1>4, ShapeKept
<1>6. PendingAlone'
  BY DEF SessionInv, PendingAlone
<1>7. ASSUME NEW t \in Tab PROVE RequestShape(tab[t])'
  BY DEF SessionInv, RequestShape
<1> QED
  BY <1>2, <1>5, <1>6, <1>7 DEF SessionInv

\* Where sessions are only dropped, or none is touched, what is left is as it was.
LEMMA FewerSessions ==
  ASSUME SessionInv, sessions' \subseteq sessions
  PROVE  /\ \A r \in sessions' : r \in Session /\ \E s \in sessions : Same(r, s) /\ r.used = s.used
         /\ \A q, r \in sessions' : \E p, s \in sessions : Same(p, q) /\ Same(s, r) /\ (p = s => q = r)
  BY DEF SessionInv, SessionShape, Same

LEMMA SignsOutKeeps == ASSUME SessionInv, NEW b \in Browser, SignsOut(b) PROVE SessionInv'
<1>1. PICK k : k = cookie[b]
  OBVIOUS
<1>2. /\ k # 0 /\ sessions' = {s \in sessions : k \notin {s.hash, s.prev}} /\ oldToken' = 0
      /\ cookie' = [cookie EXCEPT ![b] = 0] /\ tab' = tab /\ issued' = issued
      /\ parted' = [c \in Browser |-> parted[c] \cup (IF c = b THEN {"left"}
                      ELSE IF oldToken # NoToken /\ cookie[c] = oldToken THEN {"revoked"} ELSE {})]
  BY <1>1 DEF SignsOut, NoToken
<1>3. Has(b, k) /\ k \in Nat
  BY <1>1, <1>2 DEF Has, SessionInv, SessionShape
<1>4. /\ cookie' = [c \in Browser |-> cookie'[c]] /\ cookie'[b] = 0
      /\ \A c \in Browser \ {b} : cookie'[c] = cookie[c]
  BY <1>2 DEF SessionInv, SessionShape
<1>5. ASSUME NEW c \in Browser, parted'[c] = {} PROVE WellServed(c)'
  <2>1. c # b /\ parted[c] = {} /\ (oldToken = 0 \/ cookie[c] # oldToken)
    BY <1>2, <1>5 DEF NoToken
  <2>2. WellServed(c)
    BY <2>1 DEF SessionInv
  <2>3. \A s \in sessions : Uses(s, c) => s \in sessions'
    <3> SUFFICES ASSUME NEW s \in sessions, Uses(s, c), k \in {s.hash, s.prev} PROVE FALSE
      BY <1>2
    <3>1. Uses(s, b)
      BY <1>3 DEF Uses
    <3> QED
      BY <2>1, <3>1 DEF SessionInv, OneUser
  <2>4. ~Has(c, oldToken)
    <3> SUFFICES ASSUME Has(c, oldToken) PROVE FALSE
      OBVIOUS
    <3>1. oldToken # 0
      BY DEF Has
    <3>2. cookie[c] = 0
      <4> SUFFICES ASSUME cookie[c] # 0 PROVE FALSE
        OBVIOUS
      <4>1. Has(c, cookie[c])
        BY DEF Has, SessionInv, SessionShape
      <4> QED
        BY <2>1, <3>1, <4>1 DEF SessionInv, OldAlone
    <3>3. \A t \in Tab : BrowserOf[t] = c => tab[t].token = 0 /\ tab[t].sets = Keep
      BY <2>2, <3>2 DEF WellServed, SessionInv, RequestShape, NoTab, NoToken
    <3> QED
      BY <3>1, <3>2, <3>3 DEF Has, Keep
  <2>5. \A s \in sessions : Uses(s, c) => \E r \in sessions' : Same(r, s) /\ (s.grace => r.grace)
    BY <2>3 DEF Same
  <2> QED
    BY <1>2, <1>4, <2>1, <2>2, <2>4, <2>5, ServedKept
<1>6. parted' \in [Browser -> SUBSET {"evicted", "revoked", "outrun", "lost", "left"}]
  BY <1>2 DEF SessionInv, SessionShape
<1>7. sessions' \subseteq sessions
  BY <1>2
<1>8. \A c \in Browser : cookie'[c] \in {0, cookie[c]}
  BY <1>4
<1> QED
  BY <1>2, <1>4, <1>5, <1>6, <1>7, <1>8, SessionsDropped, FewerSessions

LEMMA ChangesPasswordKeeps == ASSUME SessionInv, NEW b \in Browser, ChangesPassword(b) PROVE SessionInv'
<1>1. PICK k : k = cookie[b]
  OBVIOUS
<1>2. /\ sessions' = IF k = 0 THEN {} ELSE {s \in sessions : k \in {s.hash, s.prev}}
      /\ oldToken' = 0 /\ cookie' = cookie /\ tab' = tab /\ issued' = issued
      /\ Part(IF k # 0 /\ k # oldToken THEN Browser \ {b} ELSE Browser, "revoked")
  BY <1>1 DEF ChangesPassword, NoToken
<1>3. parted' \in [Browser -> SUBSET {"evicted", "revoked", "outrun", "lost", "left"}]
  BY <1>2 DEF Part, SessionInv, SessionShape
<1>4. ASSUME NEW c \in Browser, parted'[c] = {} PROVE WellServed(c)'
  <2>1. c = b /\ k # 0 /\ k # oldToken /\ parted[c] = {}
    BY <1>2, <1>4 DEF Part
  <2>2. WellServed(c)
    BY <2>1 DEF SessionInv
  <2>3. Has(c, k)
    BY <1>1, <2>1 DEF Has, SessionInv, SessionShape
  <2>4. Holds(sessions, k) \/ Graced(sessions, k)
    BY <1>1, <2>1, <2>2 DEF WellServed, Serves
  <2>5. PICK s \in sessions : k \in {s.hash, s.prev}
    BY <2>4 DEF Holds, Graced
  <2>6. Uses(s, c)
    BY <2>3, <2>5 DEF Uses
  <2>7. \A r \in sessions : Uses(r, c) => r = s
    BY <2>6 DEF SessionInv, OneSession
  <2>8. \A r \in sessions : Uses(r, c) => r \in sessions'
    BY <1>2, <2>1, <2>5, <2>7
  <2>9. ~Has(c, oldToken)
    BY <2>6 DEF SessionInv, OldAlone
  <2>10. \A q \in sessions : Uses(q, c) => \E r \in sessions' : Same(r, q) /\ (q.grace => r.grace)
    BY <2>8 DEF Same
  <2> QED
    BY <1>2, <2>2, <2>9, <2>10, ServedKept
<1>5. sessions' \subseteq sessions
  BY <1>2
<1>6. cookie' = [c \in Browser |-> cookie'[c]] /\ \A c \in Browser : cookie'[c] \in {0, cookie[c]}
  BY <1>2 DEF SessionInv, SessionShape
<1> QED
  BY <1>2, <1>3, <1>4, <1>5, <1>6, SessionsDropped, FewerSessions

LEMMA RevokesAllKeeps == ASSUME SessionInv, RevokesAll PROVE SessionInv'
<1>1. /\ sessions' = {} /\ oldToken' = 0 /\ cookie' = cookie /\ tab' = tab /\ issued' = issued
      /\ Part(Browser, "revoked")
  BY DEF RevokesAll, NoToken
<1>2. parted' \in [Browser -> SUBSET {"evicted", "revoked", "outrun", "lost", "left"}]
  BY <1>1 DEF Part, SessionInv, SessionShape
<1>3. \A c \in Browser : parted'[c] # {}
  BY <1>1 DEF Part
<1>4. cookie' = [c \in Browser |-> cookie'[c]] /\ \A c \in Browser : cookie'[c] \in {0, cookie[c]}
  BY <1>1 DEF SessionInv, SessionShape
<1> QED
  BY <1>1, <1>2, <1>3, <1>4, SessionsDropped, FewerSessions

LEMMA GraceEndsKeeps == ASSUME SessionInv, NEW s \in sessions, GraceEnds(s) PROVE SessionInv'
<1>1. PICK z : z = [s EXCEPT !.grace = FALSE]
  OBVIOUS
<1>2. PICK list : list = (sessions \ {s}) \cup {z}
  OBVIOUS
<1>3. /\ sessions' = list /\ oldToken' = oldToken /\ cookie' = cookie /\ tab' = tab /\ issued' = issued
      /\ parted' = [b \in Browser |-> parted[b] \cup
           (IF b \in Overtaken(list, oldToken) \/ b \in Estranged(list, oldToken)
            THEN {"outrun"} ELSE {})]
  BY <1>1, <1>2 DEF GraceEnds
<1>4. z \in Session /\ Same(z, s) /\ z.used = s.used
  BY <1>1 DEF SessionInv, SessionShape, Session, Same
<1>5. parted' \in [Browser -> SUBSET {"evicted", "revoked", "outrun", "lost", "left"}]
  BY <1>3 DEF SessionInv, SessionShape
<1>6. \A r \in sessions' : r \in Session /\ \E q \in sessions : Same(r, q) /\ r.used = q.used
  BY <1>2, <1>3, <1>4 DEF SessionInv, SessionShape, Same
<1>7. \A q, r \in sessions' : \E p, o \in sessions : Same(p, q) /\ Same(o, r) /\ (p = o => q = r)
  BY <1>2, <1>3, <1>4 DEF Same
<1>8. \A k : Holds(sessions, k) => Holds(list, k)
  BY <1>2, <1>4 DEF Holds, Same
<1>9. ASSUME NEW c \in Browser, parted'[c] = {} PROVE WellServed(c)'
  <2>1. parted[c] = {} /\ c \notin Overtaken(list, oldToken) /\ c \notin Estranged(list, oldToken)
    BY <1>3, <1>9
  <2>2. WellServed(c)
    BY <2>1 DEF SessionInv
  <2>3. cookie[c] # 0 => Serves(list, oldToken, cookie[c])
    BY <2>1 DEF Estranged, NoToken, Serves
  <2>4. \A t \in Tab : BrowserOf[t] = c /\ tab[t].pc = "asked" => Serves(list, oldToken, tab[t].token)
    BY <2>1 DEF Overtaken, TabsOf, Serves
  <2>5. cookie[c] \in Nat
    BY DEF SessionInv, SessionShape
  <2> QED
    BY <1>3, <1>8, <2>2, <2>3, <2>4, <2>5, ServedStands
<1>10. cookie' = [c \in Browser |-> cookie'[c]] /\ \A c \in Browser : cookie'[c] \in {0, cookie[c]}
  BY <1>3 DEF SessionInv, SessionShape
<1> QED
  BY <1>3, <1>5, <1>6, <1>7, <1>9, <1>10, SessionsDropped

-----------------------------------------------------------------------------
(* Refreshing.                                                             *)

\* Request t becomes x.
LEMMA RequestStep ==
  ASSUME SessionInv, NEW t \in Tab, NEW x, RequestShape(x), tab' = [tab EXCEPT ![t] = x],
         issued' \in Nat, issued <= issued'
  PROVE  /\ tab'[t] = x /\ (\A u \in Tab \ {t} : tab'[u] = tab[u]) /\ tab' = [u \in Tab |-> tab'[u]]
         /\ \A u \in Tab : RequestShape(tab[u])'
         /\ BrowserOf[t] \in Browser
<1>1. tab'[t] = x /\ (\A u \in Tab \ {t} : tab'[u] = tab[u]) /\ tab' = [u \in Tab |-> tab'[u]]
  BY DEF SessionInv, SessionShape
<1>2. issued \in Nat /\ \A m \in Int : m <= issued => m <= issued'
  BY DEF SessionInv, SessionShape
<1>3. ASSUME NEW u \in Tab PROVE RequestShape(tab[u])'
  <2>1. PICK y : y = tab'[u]
    OBVIOUS
  <2>2. RequestShape(y)
    BY <1>1, <2>1 DEF SessionInv
  <2>3. y.token \in Int /\ y.sets \in Int
    BY <2>2 DEF RequestShape, Clear, Keep
  <2>4. RequestShape(y)'
    BY <1>2, <2>2, <2>3 DEF RequestShape
  <2> QED
    BY <2>1, <2>4 DEF RequestShape
<1> QED
  BY <1>1, <1>3, SessionAssumption

\* Request t becomes x, which has no token that its browser has not got.
LEMMA RequestMoves ==
  ASSUME SessionInv, NEW t \in Tab, NEW x, RequestShape(x), tab' = [tab EXCEPT ![t] = x],
         x.token = 0 \/ Has(BrowserOf[t], x.token), x.sets > 0 => FALSE,
         \A u \in Tab : tab[u].sets > 0 => x.token # tab[u].sets,
         UNCHANGED <<sessions, oldToken, issued, cookie>>,
         parted' \in [Browser -> SUBSET {"evicted", "revoked", "outrun", "lost", "left"}],
         \A b \in Browser : parted'[b] = {} => parted[b] = {},
         parted'[BrowserOf[t]] = {} => WellServed(BrowserOf[t])'
  PROVE  SessionInv'
<1>1. /\ tab'[t] = x /\ (\A u \in Tab \ {t} : tab'[u] = tab[u]) /\ tab' = [u \in Tab |-> tab'[u]]
      /\ (\A u \in Tab : RequestShape(tab[u])') /\ BrowserOf[t] \in Browser
  <2>1. issued' \in Nat /\ issued <= issued'
    BY DEF SessionInv, SessionShape
  <2> QED
    BY <2>1, RequestStep
<1>2. \A b \in Browser : \A k : Has(b, k)' => Has(b, k)
  BY <1>1 DEF Has
<1>3. /\ \A r \in sessions' : r \in Session /\ \E s \in sessions : Same(r, s) /\ r.used = s.used
      /\ \A q, r \in sessions' : \E p, s \in sessions : Same(p, q) /\ Same(s, r) /\ (p = s => q = r)
  BY FewerSessions
<1>4. OneBrowser' /\ OneUser' /\ OneSession' /\ OldAlone'
  BY <1>2, <1>3, ApartKept
<1>5. cookie' = [b \in Browser |-> cookie'[b]] /\ \A b \in Browser : cookie'[b] \in Nat /\ cookie'[b] <= issued
  BY DEF SessionInv, SessionShape
<1>6. SessionShape'
  BY <1>1, <1>3, <1>5, ShapeKept
<1>7. PendingAlone'
  BY <1>1 DEF SessionInv, PendingAlone
<1>8. ASSUME NEW c \in Browser, parted'[c] = {}, c # BrowserOf[t] PROVE WellServed(c)'
  <2>1. WellServed(c)
    BY <1>8 DEF SessionInv
  <2>2. \A u \in Tab : BrowserOf[u] = c => tab'[u] = tab[u]
    BY <1>1, <1>8
  <2>3. \A s \in sessions : Uses(s, c) => \E r \in sessions' : Same(r, s) /\ (s.grace => r.grace)
    BY DEF Same
  <2> QED
    BY <2>1, <2>2, <2>3, ServedKept
<1> QED
  BY <1>1, <1>4, <1>6, <1>7, <1>8 DEF SessionInv

\* What a request under way holds its browser has, and an answer that is on its way is
\* no other request's.
LEMMA RequestHas ==
  ASSUME SessionInv, NEW t \in Tab, tab[t].pc # "idle"
  PROVE  /\ tab[t].token \in Nat \ {0} /\ Has(BrowserOf[t], tab[t].token)
         /\ \A u \in Tab : tab[u].sets > 0 => tab[t].token # tab[u].sets
<1>1. tab[t].token \in Nat \ {0}
  BY DEF SessionInv, RequestShape
<1> QED
  BY <1>1 DEF Has, SessionInv, PendingAlone

LEMMA AsksRefreshKeeps == ASSUME SessionInv, NEW t \in Tab, AsksRefresh(t) PROVE SessionInv'
<1>1. PICK b : b = BrowserOf[t]
  OBVIOUS
<1>2. PICK k : k = cookie[b]
  OBVIOUS
<1>3. PICK x : x = [NoTab EXCEPT !.pc = "asked", !.token = k]
  OBVIOUS
<1>4. /\ tab[t].pc = "idle" /\ k # 0 /\ tab' = [tab EXCEPT ![t] = x]
      /\ UNCHANGED <<sessions, oldToken, cookie, issued, parted>>
  BY <1>1, <1>2, <1>3 DEF AsksRefresh, NoToken
<1>5. b \in Browser /\ k \in Nat /\ k <= issued /\ issued \in Nat
  BY <1>1, <1>2, SessionAssumption DEF SessionInv, SessionShape
<1>6. x.pc = "asked" /\ x.token = k /\ x.sets = Keep /\ RequestShape(x)
  <2>1. NoTab \in [pc : {"idle", "asked", "current", "adopting", "answered"}, token : Nat, sets : Nat \cup {Clear, Keep}]
        /\ NoTab.sets = Keep
    BY DEF NoTab, NoToken
  <2>2. PICK y : y = NoTab
    OBVIOUS
  <2>3. x.pc = "asked" /\ x.token = k /\ x.sets = Keep
        /\ x \in [pc : {"idle", "asked", "current", "adopting", "answered"}, token : Nat, sets : Nat \cup {Clear, Keep}]
    BY <1>3, <1>5, <2>1, <2>2
  <2> QED
    BY <1>4, <1>5, <2>3 DEF RequestShape, Keep
<1>7. Has(b, k) /\ \A u \in Tab : tab[u].sets > 0 => k # tab[u].sets
  BY <1>2, <1>4, <1>5 DEF Has, SessionInv, PendingAlone
<1>8. tab'[t] = x /\ (\A u \in Tab \ {t} : tab'[u] = tab[u])
  <2>1. issued' \in Nat /\ issued <= issued'
    BY <1>4, <1>5
  <2> QED
    BY <1>4, <1>6, <2>1, RequestStep
<1>9. ASSUME parted'[b] = {} PROVE WellServed(b)'
  <2>1. WellServed(b)
    BY <1>4, <1>5, <1>9 DEF SessionInv
  <2>2. tab[t].sets = Keep
    BY <1>4 DEF SessionInv, RequestShape
  <2>3. Serves(sessions, oldToken, k)
    BY <1>2, <1>4, <2>1 DEF WellServed
  <2>5. ASSUME NEW u \in Tab, BrowserOf[u] = b, tab[u].sets > 0 PROVE tab'[u].sets > 0
    BY <1>8, <2>2, <2>5 DEF Keep
  <2> HIDE DEF Serves, Holds
  <2> QED
    BY <1>2, <1>4, <1>6, <1>8, <2>1, <2>3, <2>5 DEF WellServed, Keep, Clear
<1> QED
  BY <1>1, <1>4, <1>6, <1>7, <1>9, RequestMoves DEF SessionInv, SessionShape, Keep

\* A request that is under way and not answered moves on without a token for its browser.
LEMMA RequestGoesOn ==
  ASSUME SessionInv, NEW t \in Tab, NEW x, RequestShape(x), tab' = [tab EXCEPT ![t] = x],
         tab[t].pc \notin {"idle", "answered"}, x.pc # "asked", x.token = tab[t].token,
         x.sets = Keep \/ (x.sets = Clear /\ parted[BrowserOf[t]] # {}),
         UNCHANGED <<sessions, oldToken, issued, cookie, parted>>
  PROVE  SessionInv'
<1>1. PICK b : b = BrowserOf[t]
  OBVIOUS
<1>2. b \in Browser /\ Has(b, x.token) /\ \A u \in Tab : tab[u].sets > 0 => x.token # tab[u].sets
  BY <1>1, RequestHas, SessionAssumption
<1>3. tab'[t] = x /\ (\A u \in Tab \ {t} : tab'[u] = tab[u])
  BY RequestStep DEF SessionInv, SessionShape
<1>4. ~(x.sets > 0) /\ (parted[b] = {} => x.sets # Clear)
  BY <1>1 DEF Clear, Keep
<1>5. ASSUME parted'[b] = {} PROVE WellServed(b)'
  <2>1. WellServed(b)
    BY <1>2, <1>5 DEF SessionInv
  <2>2. tab[t].sets = Keep
    BY DEF SessionInv, RequestShape
  <2>3. ASSUME NEW u \in Tab, BrowserOf[u] = b, tab[u].sets > 0 PROVE tab'[u].sets > 0
    BY <1>3, <2>2, <2>3 DEF Keep
  <2>4. cookie[b] # 0
    BY <1>1, <2>1 DEF WellServed
  <2> HIDE DEF Serves, Holds
  <2> QED
    BY <1>3, <1>4, <1>5, <2>1, <2>3, <2>4 DEF WellServed
<1> QED
  BY <1>1, <1>2, <1>4, <1>5, RequestMoves DEF SessionInv, SessionShape

\* Request t at p, its answer setting q.
Written(t, p, q) == [tab EXCEPT ![t].pc = p, ![t].sets = q]

\* Where request t goes, and what its answer sets, are written; its token stays.
LEMMA RequestWritten ==
  ASSUME SessionInv, NEW t \in Tab, tab[t].pc \notin {"idle", "answered"},
         NEW p \in {"current", "adopting", "answered"}, NEW q \in Nat \cup {Clear, Keep},
         NEW n \in Nat, issued <= n, q <= n, q # 0, p # "answered" => q = Keep,
         tab' = Written(t, p, q)
  PROVE  \E x : /\ x.pc = p /\ x.sets = q /\ x.token = tab[t].token /\ x.token <= n /\ x.token # 0
                /\ x \in [pc : {"idle", "asked", "current", "adopting", "answered"}, token : Nat,
                          sets : Nat \cup {Clear, Keep}]
                /\ tab' = [tab EXCEPT ![t] = x]
<1>1. PICK y : y = tab[t]
  OBVIOUS
<1>2. PICK x : x = [y EXCEPT !.pc = p, !.sets = q]
  OBVIOUS
<1>3. /\ y \in [pc : {"idle", "asked", "current", "adopting", "answered"}, token : Nat, sets : Nat \cup {Clear, Keep}]
      /\ y.token <= issued /\ y.token # 0
  BY <1>1 DEF SessionInv, RequestShape
<1>4. /\ x.pc = p /\ x.sets = q /\ x.token = y.token
      /\ x \in [pc : {"idle", "asked", "current", "adopting", "answered"}, token : Nat, sets : Nat \cup {Clear, Keep}]
  BY <1>2, <1>3
<1>5. y.token <= n
  BY <1>3 DEF SessionInv, SessionShape
<1>6. tab' = [tab EXCEPT ![t] = x]
  <2>1. tab = [u \in Tab |-> tab[u]]
    BY DEF SessionInv, SessionShape
  <2> QED
    BY <1>1, <1>2, <2>1 DEF Written
<1> QED
  BY <1>1, <1>3, <1>4, <1>5, <1>6

LEMMA LooksUpKeeps == ASSUME SessionInv, NEW t \in Tab, LooksUp(t) PROVE SessionInv'
<1>1. PICK k : k = tab[t].token
  OBVIOUS
<1>2. PICK b : b = BrowserOf[t]
  OBVIOUS
<1>3. /\ tab[t].pc = "asked" /\ UNCHANGED <<sessions, oldToken, cookie, issued, parted>>
      /\ \E p \in {"current", "adopting", "answered"} : \E q \in {Clear, Keep} :
           /\ tab' = Written(t, p, q)
           /\ p # "answered" => q = Keep
           /\ q = Clear => ~Serves(sessions, oldToken, k)
  <2> DEFINE To(p, q) == tab' = Written(t, p, q)
  <2>1. /\ tab[t].pc = "asked" /\ UNCHANGED <<sessions, oldToken, cookie, issued, parted>>
        /\ IF Holds(sessions, k) THEN To("current", Keep)
           ELSE IF Graced(sessions, k) THEN To("answered", Keep)
           ELSE IF oldToken = k THEN To("adopting", Keep)
           ELSE To("answered", Clear)
    BY <1>1 DEF LooksUp, ServedByGrace, Written
  <2> HIDE DEF To
  <2>2. \/ \E p \in {"current", "adopting", "answered"} : To(p, Keep)
        \/ To("answered", Clear) /\ ~Serves(sessions, oldToken, k)
    BY <2>1 DEF Serves
  <2>3. \E p \in {"current", "adopting", "answered"} : \E q \in {Clear, Keep} :
          To(p, q) /\ (p # "answered" => q = Keep) /\ (q = Clear => ~Serves(sessions, oldToken, k))
    BY <2>2 DEF Clear, Keep
  <2> QED
    BY <2>1, <2>3 DEF To
<1>4. PICK p \in {"current", "adopting", "answered"}, q \in {Clear, Keep} :
        /\ tab' = Written(t, p, q)
        /\ p # "answered" => q = Keep
        /\ q = Clear => ~Serves(sessions, oldToken, k)
  BY <1>3
<1>5. issued \in Nat /\ q <= issued /\ q # 0 /\ q \in Nat \cup {Clear, Keep}
  BY DEF SessionInv, SessionShape, Clear, Keep
<1>6. PICK x : /\ x.pc = p /\ x.sets = q /\ x.token = tab[t].token /\ x.token <= issued /\ x.token # 0
               /\ x \in [pc : {"idle", "asked", "current", "adopting", "answered"}, token : Nat,
                         sets : Nat \cup {Clear, Keep}]
               /\ tab' = [tab EXCEPT ![t] = x]
  <2>1. /\ tab[t].pc \notin {"idle", "answered"} /\ issued <= issued
        /\ p \in {"current", "adopting", "answered"} /\ (p # "answered" => q = Keep)
        /\ tab' = Written(t, p, q)
    BY <1>3, <1>4, <1>5
  <2> QED
    BY <1>5, <2>1, RequestWritten
<1>7. RequestShape(x)
  BY <1>4, <1>5, <1>6 DEF RequestShape
<1>8. q = Clear => parted[b] # {}
  <2> SUFFICES ASSUME q = Clear, parted[b] = {} PROVE FALSE
    OBVIOUS
  <2>1. b \in Browser
    BY <1>2, SessionAssumption
  <2>2. WellServed(b)
    BY <2>1 DEF SessionInv
  <2> QED
    BY <1>1, <1>2, <1>3, <1>4, <2>2 DEF WellServed
<1>9. tab[t].pc \notin {"idle", "answered"} /\ x.pc # "asked" /\ x.token = tab[t].token
      /\ (x.sets = Keep \/ (x.sets = Clear /\ parted[BrowserOf[t]] # {}))
  BY <1>2, <1>3, <1>4, <1>6, <1>8
<1> QED
  BY <1>3, <1>6, <1>7, <1>9, RequestGoesOn

LEMMA IdleShape == SessionInv => RequestShape(NoTab)
<1> SUFFICES ASSUME SessionInv PROVE RequestShape(NoTab)
  OBVIOUS
<1>1. PICK x : x = NoTab
  OBVIOUS
<1>2. x.pc = "idle" /\ x.token = 0 /\ x.sets = Keep
  BY <1>1 DEF NoTab, NoToken
<1>3. x \in [pc : {"idle", "asked", "current", "adopting", "answered"}, token : Nat, sets : Nat \cup {Clear, Keep}]
  BY <1>1 DEF NoTab, NoToken
<1>4. issued \in Nat
  BY DEF SessionInv, SessionShape
<1>5. 0 <= issued /\ Keep <= issued /\ Keep # 0
  BY <1>4 DEF Keep
<1>6. RequestShape(x)
  BY <1>1, <1>2, <1>3, <1>5 DEF RequestShape
<1> QED
  BY <1>1, <1>6

\* The answer reaches the browser or is lost: the request is no more.
LEMMA AnswerLostKeeps == ASSUME SessionInv, NEW t \in Tab, AnswerLost(t) PROVE SessionInv'
<1>1. PICK x : x = NoTab
  OBVIOUS
<1>2. PICK b : b = BrowserOf[t]
  OBVIOUS
<1>3. /\ tab' = [tab EXCEPT ![t] = x] /\ UNCHANGED <<sessions, oldToken, cookie, issued>>
      /\ Part(IF tab[t].sets \in Token THEN {b} ELSE {}, "lost")
  BY <1>1, <1>2 DEF AnswerLost
<1>4. x.pc = "idle" /\ x.token = 0 /\ x.sets = Keep
  BY <1>1 DEF NoTab, NoToken
<1>5. RequestShape(x) /\ issued \in Nat /\ issued <= issued /\ b \in Browser
  BY <1>1, <1>2, IdleShape, SessionAssumption DEF SessionInv, SessionShape
<1>6. tab'[t] = x /\ (\A u \in Tab \ {t} : tab'[u] = tab[u])
  BY <1>3, <1>5, RequestStep
<1>7. /\ parted' \in [Browser -> SUBSET {"evicted", "revoked", "outrun", "lost", "left"}]
      /\ \A c \in Browser : parted'[c] = {} => parted[c] = {}
      /\ parted'[b] = {} => tab[t].sets \notin Token
  BY <1>3, <1>5 DEF Part, SessionInv, SessionShape
<1>8. tab[t].sets > 0 => tab[t].sets \in Token
  <2>1. tab[t].sets \in Nat \cup {-1, -2} /\ tab[t].sets <= issued /\ issued <= MaxTokens /\ issued \in Nat
    BY DEF SessionInv, SessionShape, RequestShape, Clear, Keep
  <2> QED
    BY <2>1, SessionAssumption DEF Token
<1>9. ASSUME parted'[b] = {} PROVE WellServed(b)'
  <2>1. WellServed(b)
    BY <1>5, <1>7, <1>9 DEF SessionInv
  <2>2. ~(tab[t].sets > 0)
    BY <1>7, <1>8, <1>9
  <2>3. ASSUME NEW u \in Tab, BrowserOf[u] = b, tab[u].sets > 0 PROVE tab'[u].sets > 0
    BY <1>6, <2>2, <2>3
  <2>4. ~(x.sets > 0) /\ x.sets # Clear
    BY <1>4 DEF Keep, Clear
  <2> HIDE DEF Serves, Holds
  <2> QED
    BY <1>3, <1>4, <1>6, <2>1, <2>3, <2>4 DEF WellServed
<1>10. (x.sets > 0 => FALSE) /\ (x.token = 0 \/ Has(BrowserOf[t], x.token))
       /\ \A u \in Tab : tab[u].sets > 0 => x.token # tab[u].sets
  BY <1>4 DEF Keep
<1> QED
  BY <1>2, <1>3, <1>5, <1>7, <1>9, <1>10, RequestMoves

LEMMA AnswerKeptKeeps ==
  ASSUME SessionInv, NEW t \in Tab, AnswerArrives(t), tab[t].sets = Keep PROVE SessionInv'
<1>1. PICK x : x = NoTab
  OBVIOUS
<1>2. PICK b : b = BrowserOf[t]
  OBVIOUS
<1>3. /\ tab' = [tab EXCEPT ![t] = x] /\ UNCHANGED <<sessions, oldToken, cookie, issued, parted>>
  <2>1. cookie' = [cookie EXCEPT ![b] = cookie[b]]
    <3>1. PICK q, c : q = tab[t].sets /\ c = cookie[b]
      OBVIOUS
    <3>2. cookie' = [cookie EXCEPT ![b] = CASE q = Keep -> c [] q = Clear -> NoToken [] OTHER -> q]
      BY <1>2, <3>1 DEF AnswerArrives
    <3>3. q = Keep /\ Keep # Clear
      BY <3>1 DEF Keep, Clear
    <3>4. (CASE q = Keep -> c [] q = Clear -> NoToken [] OTHER -> q) = c
      BY <3>3
    <3> QED
      BY <3>1, <3>2, <3>4
  <2>2. cookie' = cookie
    BY <2>1 DEF SessionInv, SessionShape
  <2> QED
    BY <1>1, <2>2 DEF AnswerArrives
<1>4. x.pc = "idle" /\ x.token = 0 /\ x.sets = Keep
  BY <1>1 DEF NoTab, NoToken
<1>5. RequestShape(x) /\ issued \in Nat /\ issued <= issued /\ b \in Browser
  BY <1>1, <1>2, IdleShape, SessionAssumption DEF SessionInv, SessionShape
<1>6. tab'[t] = x /\ (\A u \in Tab \ {t} : tab'[u] = tab[u])
  BY <1>3, <1>5, RequestStep
<1>9. ASSUME parted'[b] = {} PROVE WellServed(b)'
  <2>1. WellServed(b)
    BY <1>3, <1>5, <1>9 DEF SessionInv
  <2>2. ~(tab[t].sets > 0)
    BY DEF Keep
  <2>3. ASSUME NEW u \in Tab, BrowserOf[u] = b, tab[u].sets > 0 PROVE tab'[u].sets > 0
    BY <1>6, <2>2, <2>3
  <2>4. ~(x.sets > 0) /\ x.sets # Clear
    BY <1>4 DEF Keep, Clear
  <2> HIDE DEF Serves, Holds
  <2> QED
    BY <1>3, <1>4, <1>6, <2>1, <2>3, <2>4 DEF WellServed
<1>10. (x.sets > 0 => FALSE) /\ (x.token = 0 \/ Has(BrowserOf[t], x.token))
       /\ \A u \in Tab : tab[u].sets > 0 => x.token # tab[u].sets
  BY <1>4 DEF Keep
<1>11. parted' \in [Browser -> SUBSET {"evicted", "revoked", "outrun", "lost", "left"}]
       /\ \A c \in Browser : parted'[c] = {} => parted[c] = {}
  BY <1>3 DEF SessionInv, SessionShape
<1> QED
  BY <1>2, <1>3, <1>5, <1>9, <1>10, <1>11, RequestMoves

\* The cookie is set to the token that was on its way, or cleared.
LEMMA AnswerSetsKeeps ==
  ASSUME SessionInv, NEW t \in Tab, AnswerArrives(t), tab[t].sets # Keep PROVE SessionInv'
<1>1. PICK x : x = NoTab
  OBVIOUS
<1>2. PICK b : b = BrowserOf[t]
  OBVIOUS
<1>3. PICK q : q = tab[t].sets
  OBVIOUS
<1>4. PICK v : v = IF q = Clear THEN 0 ELSE q
  OBVIOUS
<1>5. q \in Nat \cup {Clear} /\ q # 0 /\ q <= issued /\ issued \in Nat /\ b \in Browser
  BY <1>2, <1>3, SessionAssumption DEF SessionInv, SessionShape, RequestShape
<1>6. tab' = [tab EXCEPT ![t] = x] /\ cookie' = [cookie EXCEPT ![b] = v]
      /\ UNCHANGED <<sessions, oldToken, issued, parted>>
  <2>1. PICK c : c = cookie[b]
    OBVIOUS
  <2>2. cookie' = [cookie EXCEPT ![b] = CASE q = Keep -> c [] q = Clear -> NoToken [] OTHER -> q]
    BY <1>2, <1>3, <2>1 DEF AnswerArrives
  <2>3. (CASE q = Keep -> c [] q = Clear -> NoToken [] OTHER -> q) = v
    BY <1>3, <1>4 DEF NoToken
  <2> QED
    BY <1>1, <2>2, <2>3 DEF AnswerArrives
<1>7. x.pc = "idle" /\ x.token = 0 /\ x.sets = Keep /\ RequestShape(x)
  BY <1>1, IdleShape DEF NoTab, NoToken
<1>8. /\ tab'[t] = x /\ (\A u \in Tab \ {t} : tab'[u] = tab[u]) /\ tab' = [u \in Tab |-> tab'[u]]
      /\ (\A u \in Tab : RequestShape(tab[u])')
  <2>1. issued' \in Nat /\ issued <= issued'
    BY <1>5, <1>6
  <2> QED
    BY <1>6, <1>7, <2>1, RequestStep
<1>9. /\ cookie'[b] = v /\ (\A c \in Browser \ {b} : cookie'[c] = cookie[c])
      /\ cookie' = [c \in Browser |-> cookie'[c]]
  BY <1>5, <1>6 DEF SessionInv, SessionShape
<1>10. v \in Nat /\ v <= issued /\ (v # 0 => v = q /\ q > 0) /\ (v = 0 => q = Clear)
  BY <1>4, <1>5 DEF Clear
<1>11. \A c \in Browser : \A k : Has(c, k)' => Has(c, k)
  BY <1>2, <1>3, <1>7, <1>8, <1>9, <1>10 DEF Has, Keep
<1>12. /\ \A r \in sessions' : r \in Session /\ \E s \in sessions : Same(r, s) /\ r.used = s.used
       /\ \A p, r \in sessions' : \E o, s \in sessions : Same(o, p) /\ Same(s, r) /\ (o = s => p = r)
  BY <1>6, FewerSessions
<1>13. OneBrowser' /\ OneUser' /\ OneSession' /\ OldAlone'
  BY <1>6, <1>11, <1>12, ApartKept
<1>14. SessionShape'
  <2>1. \A c \in Browser : cookie'[c] \in Nat /\ cookie'[c] <= issued
    BY <1>9, <1>10 DEF SessionInv, SessionShape
  <2>2. parted' \in [Browser -> SUBSET {"evicted", "revoked", "outrun", "lost", "left"}]
    BY <1>6 DEF SessionInv, SessionShape
  <2> QED
    BY <1>6, <1>8, <1>9, <1>12, <2>1, <2>2, ShapeKept
<1>15. PendingAlone'
  <2> SUFFICES ASSUME NEW u \in Tab, tab'[u].sets > 0
               PROVE  /\ \A c \in Browser : cookie'[c] # tab'[u].sets
                      /\ \A w \in Tab : tab'[w].token # tab'[u].sets /\ (w # u => tab'[w].sets # tab'[u].sets)
    BY DEF PendingAlone
  <2>1. u # t /\ tab'[u] = tab[u]
    BY <1>7, <1>8 DEF Keep
  <2>2. /\ \A c \in Browser : cookie[c] # tab[u].sets
        /\ \A w \in Tab : tab[w].token # tab[u].sets /\ (w # u => tab[w].sets # tab[u].sets)
    BY <2>1 DEF SessionInv, PendingAlone
  <2>3. v # tab[u].sets
    BY <1>3, <1>10, <2>1, <2>2
  <2>4. \A c \in Browser : cookie'[c] # tab'[u].sets
    BY <1>9, <2>1, <2>2, <2>3
  <2>5. \A w \in Tab : tab'[w].token # tab'[u].sets /\ (w # u => tab'[w].sets # tab'[u].sets)
    BY <1>7, <1>8, <2>1, <2>2 DEF Keep
  <2> QED
    BY <2>4, <2>5
<1>16. ASSUME NEW c \in Browser, parted'[c] = {} PROVE WellServed(c)'
  <2>1. WellServed(c)
    BY <1>6, <1>16 DEF SessionInv
  <2>2. CASE c # b
    <3>1. \A s \in sessions : Uses(s, c) => \E r \in sessions' : Same(r, s) /\ (s.grace => r.grace)
      BY <1>6 DEF Same
    <3>2. cookie'[c] = cookie[c] /\ \A u \in Tab : BrowserOf[u] = c => tab'[u] = tab[u]
      BY <1>2, <1>8, <1>9, <2>2
    <3> QED
      BY <1>6, <2>1, <3>1, <3>2, ServedKept
  <2>3. CASE c = b
    <3>1. q # Clear
      BY <1>2, <1>3, <2>1, <2>3 DEF WellServed
    <3>2. v = q /\ q > 0 /\ q # 0
      BY <1>5, <1>10, <3>1
    <3>3. Holds(sessions, q)
      BY <1>2, <1>3, <2>1, <2>3, <3>2 DEF WellServed
    <3>4. Serves(sessions, oldToken, q)
      BY <3>3 DEF Serves
    <3>5. ~(x.sets > 0) /\ x.sets # Clear
      BY <1>7 DEF Keep, Clear
    <3> HIDE DEF Serves, Holds
    <3> QED
      BY <1>6, <1>7, <1>8, <1>9, <2>1, <2>3, <3>2, <3>3, <3>4, <3>5 DEF WellServed
  <2> QED
    BY <2>2, <2>3
<1> QED
  BY <1>8, <1>13, <1>14, <1>15, <1>16 DEF SessionInv

LEMMA AdoptsKeeps == ASSUME SessionInv, NEW t \in Tab, Adopts(t) PROVE SessionInv'
<1>1. PICK k : k = tab[t].token
  OBVIOUS
<1>2. PICK b : b = BrowserOf[t]
  OBVIOUS
<1>3. PICK y : y = tab[t]
  OBVIOUS
<1>4. PICK x : x = [y EXCEPT !.pc = "current"]
  OBVIOUS
<1>5. PICK z : z = NewSession(k, NoToken)
  OBVIOUS
<1>6. /\ tab[t].pc = "adopting" /\ UNCHANGED <<cookie, issued, parted>>
      /\ \/ oldToken = k /\ oldToken' = 0 /\ sessions' = sessions \cup {z}
         \/ UNCHANGED <<sessions, oldToken>>
  BY <1>1, <1>5 DEF Adopts, NoToken
<1>7. tab' = [tab EXCEPT ![t] = x]
  <2>1. tab = [u \in Tab |-> tab[u]]
    BY DEF SessionInv, SessionShape
  <2> QED
    BY <1>3, <1>4, <2>1 DEF Adopts
<1>8. /\ b \in Browser /\ Has(b, k) /\ k \in Nat \ {0} /\ k <= issued /\ issued \in Nat /\ issued <= MaxTokens
      /\ \A u \in Tab : tab[u].sets > 0 => k # tab[u].sets
  BY <1>1, <1>2, <1>6, RequestHas, SessionAssumption DEF SessionInv, SessionShape, RequestShape
<1>9. x.pc = "current" /\ x.token = k /\ x.sets = Keep /\ RequestShape(x) /\ tab[t].sets = Keep
  <2>1. RequestShape(y) /\ y.sets = Keep /\ y.token = k
    BY <1>1, <1>3, <1>6 DEF SessionInv, RequestShape
  <2>2. /\ x.pc = "current" /\ x.token = k /\ x.sets = Keep
        /\ x \in [pc : {"idle", "asked", "current", "adopting", "answered"}, token : Nat, sets : Nat \cup {Clear, Keep}]
    BY <1>4, <2>1 DEF RequestShape
  <2> QED
    BY <1>3, <1>8, <2>1, <2>2 DEF RequestShape
<1>10. CASE UNCHANGED <<sessions, oldToken>>
  <2>1. tab[t].pc \notin {"idle", "answered"} /\ x.pc # "asked" /\ x.token = tab[t].token
        /\ (x.sets = Keep \/ (x.sets = Clear /\ parted[BrowserOf[t]] # {}))
    BY <1>1, <1>6, <1>9
  <2> QED
    BY <1>6, <1>7, <1>9, <1>10, <2>1, RequestGoesOn
<1>11. CASE oldToken = k /\ oldToken' = 0 /\ sessions' = sessions \cup {z}
  <2>1. z \in Session /\ z.hash = k /\ z.prev = 0 /\ z.grace /\ \A s \in sessions : s.used < z.used
    <3>1. k <= MaxTokens /\ 0 <= MaxTokens
      BY <1>8, SessionAssumption
    <3> QED
      BY <1>5, <1>8, <3>1, NewIsLast DEF SessionInv, NoToken
  <2>2. /\ tab'[t] = x /\ (\A u \in Tab \ {t} : tab'[u] = tab[u]) /\ tab' = [u \in Tab |-> tab'[u]]
        /\ (\A u \in Tab : RequestShape(tab[u])')
    <3>1. issued' \in Nat /\ issued <= issued'
      BY <1>6, <1>8
    <3> QED
      BY <1>7, <1>9, <3>1, RequestStep
  <2>3. \A c \in Browser : \A j : Has(c, j)' <=> Has(c, j)
    BY <1>1, <1>6, <1>9, <2>2 DEF Has
  <2>4. (\A j : Has(b, j) => j = k) /\ \A s \in sessions : ~Uses(s, b)
    BY <1>8, <1>11 DEF SessionInv, OldAlone
  <2>5. \A c \in Browser : Has(c, k) => c = b
    BY <1>8 DEF SessionInv, OneBrowser
  <2>6. \A c \in Browser : \A s : Uses(s, c)' <=> Uses(s, c)
    BY <2>3 DEF Uses
  <2>7. \A c \in Browser : ~Has(c, 0)
    BY DEF Has
  <2>8. \A c \in Browser : Uses(z, c) => c = b
    BY <2>1, <2>5, <2>7 DEF Uses
  <2>9. OneBrowser'
    BY <2>3 DEF SessionInv, OneBrowser
  <2>10. OneUser' /\ OneSession'
    <3> HIDE DEF Uses
    <3>1. OneUser'
      BY <1>11, <2>6, <2>8 DEF SessionInv, OneUser
    <3>2. OneSession'
      BY <1>11, <2>4, <2>6, <2>8 DEF SessionInv, OneSession
    <3> QED
      BY <3>1, <3>2
  <2>11. OldAlone'
    BY <1>11, <2>3, <2>7 DEF OldAlone
  <2>12. PendingAlone'
    BY <1>1, <1>6, <1>9, <2>2 DEF SessionInv, PendingAlone
  <2>13. SessionShape'
    <3>1. \A s \in sessions' : /\ s \in Session /\ s.hash \in Nat \ {0} /\ s.hash <= issued
                               /\ s.prev \in Nat /\ s.prev <= issued
      BY <1>8, <1>11, <2>1 DEF SessionInv, SessionShape
    <3>2. \E m \in Nat : \A s \in sessions' : s.used <= m
      <4>1. z.used \in Nat /\ \A s \in sessions : s.used \in Nat /\ s.used < z.used
        BY <2>1 DEF SessionInv, SessionShape, Session
      <4>2. \A s \in sessions' : s.used <= z.used
        BY <1>11, <4>1
      <4> QED
        BY <4>1, <4>2
    <3> QED
      BY <1>6, <1>8, <1>11, <2>2, <3>1, <3>2 DEF SessionInv, SessionShape
  <2>14. \A j : Holds(sessions, j) => Holds(sessions', j)
    BY <1>11 DEF Holds
  <2>15. Holds(sessions', k) /\ Serves(sessions', oldToken', k)
    BY <1>11, <2>1 DEF Holds, Serves
  <2>16. ASSUME NEW c \in Browser, parted'[c] = {} PROVE WellServed(c)'
    <3>1. WellServed(c)
      BY <1>6, <2>16 DEF SessionInv
    <3>2. CASE c # b
      <4>1. \A s \in sessions : Uses(s, c) => \E r \in sessions' : Same(r, s) /\ (s.grace => r.grace)
        BY <1>11 DEF Same
      <4>2. cookie'[c] = cookie[c] /\ \A u \in Tab : BrowserOf[u] = c => tab'[u] = tab[u]
        BY <1>2, <1>6, <2>2, <3>2
      <4>3. ~Has(c, oldToken)
        BY <1>11, <2>5, <3>2
      <4> QED
        BY <3>1, <4>1, <4>2, <4>3, ServedKept
    <3>3. CASE c = b
      <4>1. cookie[b] # 0
        BY <1>2, <1>6, <3>1, <3>3 DEF WellServed
      <4>2. cookie[b] = k
        <5>1. cookie[b] \in Nat /\ cookie[b] > 0
          BY <1>8, <4>1 DEF SessionInv, SessionShape
        <5>2. Has(b, cookie[b])
          BY <5>1 DEF Has
        <5> QED
          BY <2>4, <5>2
      <4>3. ASSUME NEW u \in Tab, BrowserOf[u] = b, tab[u].pc = "asked" PROVE tab[u].token = k
        BY <2>4, <4>3, RequestHas
      <4> HIDE DEF Serves, Holds
      <4>4. ASSUME NEW u \in Tab, BrowserOf[u] = b
            PROVE  /\ tab'[u].pc = "asked" => Serves(sessions', oldToken', tab'[u].token)
                   /\ tab'[u].sets # Clear
                   /\ tab'[u].sets > 0 => Holds(sessions', tab'[u].sets)
        <5>1. CASE u = t
          BY <1>9, <2>2, <5>1 DEF Keep, Clear
        <5>2. CASE u # t
          BY <2>2, <2>14, <2>15, <3>1, <3>3, <4>3, <4>4, <5>2 DEF WellServed
        <5> QED
          BY <5>1, <5>2
      <4> QED
        BY <1>6, <2>15, <3>3, <4>1, <4>2, <4>4 DEF WellServed
    <3> QED
      BY <3>2, <3>3
  <2> QED
    BY <2>2, <2>9, <2>10, <2>11, <2>12, <2>13, <2>16 DEF SessionInv
<1> QED
  BY <1>6, <1>10, <1>11

\* A request that finds its session replaced sets nothing.
LEMMA RotatesInVain ==
  ASSUME SessionInv, NEW t \in Tab, Rotates(t), ~Holds(sessions, tab[t].token) PROVE SessionInv'
<1>1. PICK y : y = tab[t]
  OBVIOUS
<1>2. PICK x : x = [y EXCEPT !.pc = "answered"]
  OBVIOUS
<1>3. tab[t].pc = "current" /\ UNCHANGED <<sessions, oldToken, cookie, issued, parted>>
  BY DEF Rotates
<1>4. tab' = [tab EXCEPT ![t] = x]
  <2>1. tab = [u \in Tab |-> tab[u]]
    BY DEF SessionInv, SessionShape
  <2> QED
    BY <1>1, <1>2, <2>1 DEF Rotates
<1>5. RequestShape(y) /\ y.pc = "current" /\ y.sets = Keep
  BY <1>1, <1>3 DEF SessionInv, RequestShape
<1>6. x.pc = "answered" /\ x.token = y.token /\ x.sets = Keep /\ RequestShape(x)
  BY <1>2, <1>5 DEF RequestShape
<1> QED
  BY <1>1, <1>3, <1>4, <1>6, RequestGoesOn

LEMMA RotatesNow ==
  ASSUME SessionInv, NEW t \in Tab, Rotates(t), Holds(sessions, tab[t].token) PROVE SessionInv'
<1>1. PICK k : k = tab[t].token
  OBVIOUS
<1>2. PICK b : b = BrowserOf[t]
  OBVIOUS
<1>3. PICK n : n = issued + 1
  OBVIOUS
<1>4. PICK z : z = NewSession(n, k)
  OBVIOUS
<1>5. PICK list : list = {s \in sessions : s.hash # k} \cup {z}
  OBVIOUS
<1>6. /\ tab[t].pc = "current" /\ issued < MaxTokens /\ issued' = n /\ sessions' = list
      /\ tab' = Written(t, "answered", n) /\ Part(Overtaken(list, oldToken), "outrun")
      /\ UNCHANGED <<oldToken, cookie>>
  BY <1>1, <1>3, <1>4, <1>5 DEF Rotates, Written
<1>7. /\ b \in Browser /\ Has(b, k) /\ k \in Nat \ {0} /\ k <= issued
      /\ \A u \in Tab : tab[u].sets > 0 => k # tab[u].sets
  BY <1>1, <1>2, <1>6, RequestHas, SessionAssumption DEF SessionInv, RequestShape
<1>8. /\ issued \in Nat /\ n \in Nat \ {0} /\ issued <= n /\ n <= MaxTokens /\ n # oldToken /\ n # k
      /\ \A c \in Browser : ~Has(c, n)
      /\ \A s \in sessions : n \notin {s.hash, s.prev}
  <2>1. /\ issued \in Nat /\ n # oldToken /\ (\A c \in Browser : ~Has(c, n))
        /\ \A s \in sessions : n \notin {s.hash, s.prev}
    BY <1>3, NewToken
  <2>2. n \in Nat \ {0} /\ issued <= n /\ n <= MaxTokens
    BY <1>3, <1>6, <2>1, SessionAssumption
  <2> QED
    BY <1>7, <2>1, <2>2
<1>9. z \in Session /\ z.hash = n /\ z.prev = k /\ z.grace /\ \A s \in sessions : s.used < z.used
  <2>1. k <= MaxTokens
    BY <1>3, <1>7, <1>8, SessionAssumption
  <2> QED
    BY <1>4, <1>7, <1>8, <2>1, NewIsLast DEF SessionInv
<1>10. PICK x : /\ x.pc = "answered" /\ x.sets = n /\ x.token = k /\ RequestShape(x)'
                /\ tab' = [tab EXCEPT ![t] = x]
  <2>1. tab[t].pc \notin {"idle", "answered"} /\ n \in Nat \cup {Clear, Keep} /\ n <= n /\ n # 0
        /\ ("answered" # "answered" => n = Keep) /\ "answered" \in {"current", "adopting", "answered"}
    BY <1>6, <1>8
  <2>2. \E x : /\ x.pc = "answered" /\ x.sets = n /\ x.token = tab[t].token /\ x.token <= n /\ x.token # 0
               /\ x \in [pc : {"idle", "asked", "current", "adopting", "answered"}, token : Nat,
                         sets : Nat \cup {Clear, Keep}]
               /\ tab' = [tab EXCEPT ![t] = x]
    BY <1>6, <1>8, <2>1, RequestWritten
  <2> QED
    BY <1>1, <1>6, <1>8, <2>2 DEF RequestShape
<1>11. /\ tab'[t] = x /\ (\A u \in Tab \ {t} : tab'[u] = tab[u]) /\ tab' = [u \in Tab |-> tab'[u]]
       /\ (\A u \in Tab : RequestShape(tab[u])')
  <2>1. tab'[t] = x /\ (\A u \in Tab \ {t} : tab'[u] = tab[u]) /\ tab' = [u \in Tab |-> tab'[u]]
    BY <1>10 DEF SessionInv, SessionShape
  <2>2. ASSUME NEW u \in Tab \ {t} PROVE RequestShape(tab[u])'
    <3>1. PICK y : y = tab[u] /\ RequestShape(y)
      BY DEF SessionInv
    <3>2. y.token \in Int /\ y.sets \in Int
      BY <3>1 DEF RequestShape, Clear, Keep
    <3>3. \A m \in Int : m <= issued => m <= issued'
      BY <1>6, <1>8
    <3>4. RequestShape(y)'
      BY <3>1, <3>2, <3>3 DEF RequestShape
    <3> QED
      BY <2>1, <3>1, <3>4 DEF RequestShape
  <2>3. RequestShape(tab[t])'
    BY <1>10, <2>1 DEF RequestShape
  <2> QED
    BY <2>1, <2>2, <2>3
<1>12. PICK r \in sessions : r.hash = k
  BY <1>1 DEF Holds
<1>13. Uses(r, b) /\ \A s \in sessions : Uses(s, b) => s = r
  BY <1>7, <1>12 DEF Uses, SessionInv, OneSession
<1>14. ~Has(b, oldToken)
  BY <1>7, <1>13 DEF SessionInv, OldAlone
<1>15. \A c \in Browser : \A j : Has(c, j)' => Has(c, j) \/ (c = b /\ j = n)
  BY <1>1, <1>2, <1>6, <1>10, <1>11 DEF Has
<1>16. OneBrowser' /\ OneUser' /\ OneSession' /\ OldAlone'
  <2>1. ASSUME NEW s \in sessions', s # z
        PROVE  s \in sessions /\ n \notin {s.hash, s.prev} /\ ~Has(b, s.hash)' /\ ~Has(b, s.prev)'
    <3>1. s \in sessions /\ s # r /\ n # s.hash /\ n # s.prev
      BY <1>5, <1>6, <1>8, <1>12, <2>1
    <3>2. ~Has(b, s.hash) /\ ~Has(b, s.prev)
      BY <1>13, <3>1 DEF Uses
    <3> QED
      BY <1>7, <1>15, <3>1, <3>2
  <2>2. \A s \in sessions' : s # z => s \in sessions /\ n \notin {s.hash, s.prev}
                                      /\ ~Has(b, s.hash)' /\ ~Has(b, s.prev)'
    BY <2>1
  <2>3. oldToken' = oldToken /\ ~Has(b, oldToken)'
    <3>1. PICK o : o = oldToken
      OBVIOUS
    <3>2. ~Has(b, o)'
      BY <1>7, <1>8, <1>14, <1>15, <3>1
    <3>3. oldToken' = oldToken /\ oldToken' = o
      BY <1>6, <3>1
    <3> QED
      BY <3>2, <3>3 DEF Has
  <2>4. z.hash = n /\ (z.prev = 0 \/ (z.prev # n /\ Has(b, z.prev))) /\ oldToken # n
        /\ \A c \in Browser : ~Has(c, n)
    BY <1>7, <1>8, <1>9
  <2> QED
    BY <1>7, <1>15, <2>2, <2>3, <2>4, ApartRenewed
<1>17. PendingAlone'
  <2>1. \A u \in Tab : tab[u].sets # n /\ tab[u].token # n
    <3> SUFFICES ASSUME NEW u \in Tab PROVE tab[u].sets # n /\ tab[u].token # n
      OBVIOUS
    <3>1. BrowserOf[u] \in Browser /\ n > 0
      BY <1>8, SessionAssumption
    <3> QED
      BY <1>8, <3>1 DEF Has
  <2>2. \A c \in Browser : cookie'[c] = cookie[c] /\ cookie[c] # n
    BY <1>6, <1>8 DEF Has
  <2> SUFFICES ASSUME NEW u \in Tab, tab'[u].sets > 0
               PROVE  /\ \A c \in Browser : cookie'[c] # tab'[u].sets
                      /\ \A w \in Tab : tab'[w].token # tab'[u].sets /\ (w # u => tab'[w].sets # tab'[u].sets)
    BY DEF PendingAlone
  <2>3. CASE u = t
    <3>1. tab'[u].sets = n
      BY <1>10, <1>11, <2>3
    <3>2. \A w \in Tab : tab'[w].token # n /\ (w # u => tab'[w].sets # n)
      BY <1>8, <1>10, <1>11, <2>1, <2>3
    <3> QED
      BY <2>2, <3>1, <3>2
  <2>4. CASE u # t
    <3>1. /\ tab'[u] = tab[u] /\ tab[u].sets > 0 /\ tab[u].sets # n /\ tab[u].sets # k
          /\ \A c \in Browser : cookie[c] # tab[u].sets
          /\ \A w \in Tab : tab[w].token # tab[u].sets /\ (w # u => tab[w].sets # tab[u].sets)
      BY <1>7, <1>11, <2>1, <2>4 DEF SessionInv, PendingAlone
    <3>2. \A w \in Tab : tab'[w].token # tab[u].sets /\ (w # u => tab'[w].sets # tab[u].sets)
      BY <1>10, <1>11, <3>1
    <3> QED
      BY <2>2, <3>1, <3>2
  <2> QED
    BY <2>3, <2>4
<1>18. SessionShape'
  <2>1. \A s \in sessions' : /\ s \in Session /\ s.hash \in Nat \ {0} /\ s.hash <= n
                             /\ s.prev \in Nat /\ s.prev <= n
    <3>1. \A s \in sessions : /\ s \in Session /\ s.hash \in Nat \ {0} /\ s.hash <= issued
                              /\ s.prev \in Nat /\ s.prev <= issued
      BY DEF SessionInv, SessionShape
    <3>2. \A m \in Nat : m <= issued => m <= n
      BY <1>3, <1>8
    <3>3. z.prev \in Nat /\ z.prev <= n /\ z.hash \in Nat \ {0} /\ z.hash <= n
      BY <1>7, <1>8, <1>9, <3>2
    <3> QED
      BY <1>5, <1>6, <1>9, <3>1, <3>2, <3>3
  <2>2. \E m \in Nat : \A s \in sessions' : s.used <= m
    <3>1. z.used \in Nat /\ \A s \in sessions : s.used \in Nat /\ s.used < z.used
      BY <1>9 DEF SessionInv, SessionShape, Session
    <3>2. \A s \in sessions' : s.used <= z.used
      BY <1>5, <1>6, <3>1
    <3> QED
      BY <3>1, <3>2
  <2>3. /\ cookie' = [c \in Browser |-> cookie'[c]]
        /\ \A c \in Browser : cookie'[c] \in Nat /\ cookie'[c] <= n
    BY <1>3, <1>6, <1>8 DEF SessionInv, SessionShape
  <2>4. parted' \in [Browser -> SUBSET {"evicted", "revoked", "outrun", "lost", "left"}]
    BY <1>6 DEF Part, SessionInv, SessionShape
  <2>5. oldToken' \in Nat /\ oldToken' <= n
    BY <1>3, <1>6, <1>8 DEF SessionInv, SessionShape
  <2> QED
    BY <1>6, <1>8, <1>11, <2>1, <2>2, <2>3, <2>4, <2>5 DEF SessionShape
<1>19. ASSUME NEW c \in Browser, parted'[c] = {}, c # b PROVE WellServed(c)'
  <2>1. WellServed(c)
    BY <1>6, <1>19 DEF Part, SessionInv
  <2>2. \A s \in sessions : Uses(s, c) => s \in list
    <3> SUFFICES ASSUME NEW s \in sessions, Uses(s, c), s.hash = k PROVE FALSE
      BY <1>5
    <3>1. Uses(s, b)
      BY <1>7 DEF Uses
    <3> QED
      BY <1>7, <1>19, <3>1 DEF SessionInv, OneUser
  <2>3. \A s \in sessions : Uses(s, c) => \E q \in sessions' : Same(q, s) /\ (s.grace => q.grace)
    BY <1>6, <2>2 DEF Same
  <2>4. cookie'[c] = cookie[c] /\ \A u \in Tab : BrowserOf[u] = c => tab'[u] = tab[u]
    BY <1>2, <1>6, <1>11, <1>19
  <2> QED
    BY <1>6, <2>1, <2>3, <2>4, ServedKept
<1>20. ASSUME parted'[b] = {} PROVE WellServed(b)'
  <2>1. parted[b] = {} /\ b \notin Overtaken(list, oldToken)
    BY <1>6, <1>7, <1>20 DEF Part
  <2>2. WellServed(b)
    BY <1>7, <2>1 DEF SessionInv
  <2>3. \A j : Has(b, j) /\ Holds(sessions, j) => j = k
    BY <1>12, <1>13 DEF Holds, Uses
  <2>4. ASSUME NEW u \in Tab, BrowserOf[u] = b, tab[u].sets > 0 PROVE FALSE
    <3>1. Has(b, tab[u].sets)
      BY <2>4 DEF Has
    <3>2. Holds(sessions, tab[u].sets)
      BY <2>2, <2>4 DEF WellServed
    <3>3. tab[u].sets = k
      BY <2>3, <3>1, <3>2
    <3> QED
      BY <1>7, <2>4, <3>3
  <2>5. cookie[b] = k
    <3>1. cookie[b] # 0
      BY <1>2, <1>6, <2>2 DEF WellServed
    <3>2. cookie[b] \in Nat /\ cookie[b] > 0
      BY <1>7, <3>1 DEF SessionInv, SessionShape
    <3>3. Has(b, cookie[b])
      BY <3>2 DEF Has
    <3>4. cookie[b] # oldToken
      BY <1>14, <3>3
    <3>5. Holds(sessions, cookie[b])
      BY <2>2, <2>4, <3>1, <3>4 DEF WellServed
    <3> QED
      BY <2>3, <3>3, <3>5
  <2>6. Serves(list, oldToken, k) /\ Holds(list, n)
    BY <1>5, <1>9 DEF Serves, Holds, Graced
  <2>7. ASSUME NEW u \in Tab, BrowserOf[u] = b, tab[u].pc = "asked" PROVE Serves(list, oldToken, tab[u].token)
    BY <1>7, <2>1, <2>7 DEF Overtaken, TabsOf, Serves
  <2>8. n > 0 /\ n # Clear
    BY <1>8 DEF Clear
  <2> HIDE DEF Serves, Holds
  <2>9. ASSUME NEW u \in Tab, BrowserOf[u] = b
        PROVE  /\ tab'[u].pc = "asked" => Serves(sessions', oldToken', tab'[u].token)
               /\ tab'[u].sets # Clear
               /\ tab'[u].sets > 0 => Holds(sessions', tab'[u].sets)
    <3>1. CASE u = t
      BY <1>6, <1>10, <1>11, <2>6, <2>8, <3>1
    <3>2. CASE u # t
      BY <1>6, <1>11, <2>2, <2>4, <2>7, <2>9, <3>2 DEF WellServed
    <3> QED
      BY <3>1, <3>2
  <2>10. \E u \in Tab : BrowserOf[u] = b /\ tab'[u].sets > 0
    BY <1>2, <1>10, <1>11, <2>8
  <2>11. cookie'[b] = k /\ k # 0 /\ Serves(sessions', oldToken', k)
    BY <1>6, <1>7, <2>5, <2>6
  <2> QED
    BY <2>9, <2>10, <2>11 DEF WellServed
<1> QED
  BY <1>11, <1>16, <1>17, <1>18, <1>19, <1>20 DEF SessionInv

-----------------------------------------------------------------------------
(* The invariant holds.                                                    *)

LEMMA SessionBegins == SessionInit => SessionInv
<1> SUFFICES ASSUME SessionInit PROVE SessionInv
  OBVIOUS
<1>1. PICK b \in OldHolder : /\ oldToken = 1 /\ issued = 1
                             /\ cookie = [c \in Browser |-> IF c = b THEN 1 ELSE 0]
  BY DEF SessionInit, NoToken
<1>2. PICK x : x = NoTab
  OBVIOUS
<1>3. /\ x.pc = "idle" /\ x.token = 0 /\ x.sets = Keep
      /\ x \in [pc : {"idle", "asked", "current", "adopting", "answered"}, token : Nat, sets : Nat \cup {Clear, Keep}]
  BY <1>2 DEF NoTab, NoToken
<1>4. sessions = {} /\ tab = [t \in Tab |-> x] /\ parted = [c \in Browser |-> {}]
  BY <1>2 DEF SessionInit
<1>5. SessionShape
  <2>1. 1 <= MaxTokens
    BY SessionAssumption
  <2> QED
    BY <1>1, <1>4, <2>1 DEF SessionShape
<1>6. \A t \in Tab : RequestShape(tab[t])
  <2>1. RequestShape(x)
    BY <1>1, <1>2, <1>3 DEF RequestShape, Keep
  <2> QED
    BY <1>4, <2>1
<1>7. \A c \in Browser : \A k : Has(c, k) <=> c = b /\ k = 1
  BY <1>1, <1>3, <1>4, SessionAssumption DEF Has, Keep
<1> HIDE DEF Has
<1>8. OneBrowser /\ OneUser /\ OneSession /\ OldAlone
  BY <1>1, <1>4, <1>7 DEF OneBrowser, OneUser, OneSession, OldAlone
<1>9. PendingAlone
  BY <1>3, <1>4 DEF PendingAlone, Keep
<1>10. \A c \in Browser : WellServed(c)
  BY <1>1, <1>3, <1>4 DEF WellServed, Serves, Keep, Clear
<1> QED
  BY <1>5, <1>6, <1>8, <1>9, <1>10 DEF SessionInv

LEMMA SessionKeeps == SessionInv /\ [SessionNext]_sessionVars => SessionInv'
<1> SUFFICES ASSUME SessionInv, [SessionNext]_sessionVars PROVE SessionInv'
  OBVIOUS
<1>1. CASE \E b \in Browser : SignsIn(b)
  BY <1>1, SignsInKeeps
<1>2. CASE \E b \in Browser : SignsOut(b)
  BY <1>2, SignsOutKeeps
<1>3. CASE \E b \in Browser : ChangesPassword(b)
  BY <1>3, ChangesPasswordKeeps
<1>4. CASE RevokesAll
  BY <1>4, RevokesAllKeeps
<1>5. CASE \E t \in Tab : AsksRefresh(t)
  BY <1>5, AsksRefreshKeeps
<1>6. CASE \E t \in Tab : LooksUp(t)
  BY <1>6, LooksUpKeeps
<1>7. CASE \E t \in Tab : Adopts(t)
  BY <1>7, AdoptsKeeps
<1>8. CASE \E t \in Tab : Rotates(t)
  BY <1>8, RotatesInVain, RotatesNow
<1>9. CASE \E t \in Tab : AnswerArrives(t)
  BY <1>9, AnswerKeptKeeps, AnswerSetsKeeps
<1>10. CASE \E t \in Tab : AnswerLost(t)
  BY <1>10, AnswerLostKeeps
<1>11. CASE \E s \in sessions : GraceEnds(s)
  BY <1>11, GraceEndsKeeps
<1>12. CASE UNCHANGED sessionVars
  <2>1. /\ \A r \in sessions' : r \in Session /\ \E s \in sessions : Same(r, s) /\ r.used = s.used
        /\ \A q, r \in sessions' : \E p, s \in sessions : Same(p, q) /\ Same(s, r) /\ (p = s => q = r)
    BY <1>12, FewerSessions DEF sessionVars
  <2>2. UNCHANGED <<sessions, oldToken, cookie, tab, issued, parted>>
    BY <1>12 DEF sessionVars
  <2>3. \A b \in Browser : parted'[b] = {} => WellServed(b)'
    BY <2>2 DEF SessionInv, WellServed, Serves, Holds, Graced
  <2>4. /\ cookie' = [b \in Browser |-> cookie'[b]] /\ \A b \in Browser : cookie'[b] \in {0, cookie[b]}
        /\ parted' \in [Browser -> SUBSET {"evicted", "revoked", "outrun", "lost", "left"}]
    BY <2>2 DEF SessionInv, SessionShape
  <2> QED
    BY <2>1, <2>2, <2>3, <2>4, SessionsDropped
<1> QED
  BY <1>1, <1>2, <1>3, <1>4, <1>5, <1>6, <1>7, <1>8, <1>9, <1>10, <1>11, <1>12 DEF SessionNext

\* A browser whose tabs refresh at once, in any order, however many there are, is not
\* signed out by it: tokens.js's grace and auth.controller.js's compare-and-swap.
THEOREM BrowsersStaySignedIn == SessionSpec => []StaysSignedIn
<1>1. SessionInv => StaysSignedIn
  <2> SUFFICES ASSUME SessionInv, NEW b \in Browser, parted[b] = {}
               PROVE  /\ \A t \in TabsOf(b) : tab[t].pc = "answered" => tab[t].sets # Clear
                      /\ Quiet(b) /\ cookie[b] # NoToken => Holds(sessions, cookie[b]) \/ cookie[b] = oldToken
    BY DEF StaysSignedIn
  <2>1. WellServed(b)
    BY DEF SessionInv
  <2>2. ASSUME NEW t \in Tab, tab[t].pc = "idle" PROVE ~(tab[t].sets > 0)
    BY <2>2 DEF SessionInv, RequestShape, Keep
  <2> QED
    BY <2>1, <2>2 DEF WellServed, TabsOf, Quiet, NoToken
<1> QED
  BY <1>1, SessionBegins, SessionKeeps, PTL DEF SessionSpec

-----------------------------------------------------------------------------
(* The timeline of a booking.                                              *)

\* Request m has moved a row to s and has not recorded that.
Announces(m, s) ==
  mover[m].to = s /\ mover[m].moved /\ mover[m].pc \in {"moving", "counting", "inserting"}

\* Request m is sending the mail of an event at s.
Mails(m, s) == mover[m].to = s /\ mover[m].pc \in {"mailing", "stamping"}

TimelineShape ==
  /\ rowStage \in [OrderLine -> Status]
  /\ timeline \subseteq Event
  /\ IsFiniteSet(timeline)
  /\ mover \in [Mover -> MoverState]
  /\ asked \in Nat
  /\ entered \in [Status -> Nat]
  /\ astray \in [Status -> SUBSET Astray]

\* An event has a key of its own.
KeysAreUnique ==
  \A e, f \in timeline : e.to = f.to /\ e.nth = f.nth => e = f

\* A request that counts has moved the booking, one that mails has an event to mail about.
RequestsAreWhole ==
  \A m \in Mover :
    /\ mover[m].pc \in {"counting", "inserting"} => mover[m].moved
    /\ mover[m].pc = "moving" => mover[m].to # Cancelled
    /\ mover[m].pc \in {"mailing", "stamping"} =>
         /\ mover[m].to # Cancelled
         /\ \E e \in timeline : e.to = mover[m].to /\ e.nth = mover[m].nth
    /\ mover[m].pc = "stamping" => mover[m].outcome # "none"

TimelineTypes == TimelineShape /\ KeysAreUnique /\ RequestsAreWhole

\* Every entry to s is an event, but for the one that is being recorded; that one will
\* have the next number.
AnnouncedAt(s) ==
  /\ \A m, n \in Mover : Announces(m, s) /\ Announces(n, s) => m = n
  /\ entered[s] = Cardinality(EventsOf(s)) + (IF \E m \in Mover : Announces(m, s) THEN 1 ELSE 0)
  /\ \A e \in EventsOf(s) : e.nth < Cardinality(EventsOf(s))
  /\ \A m \in Mover : Announces(m, s) /\ mover[m].pc = "inserting" =>
       mover[m].nth = Cardinality(EventsOf(s))

\* One request at most mails about an event, and what has left can be read off where it
\* stands, or off the event when nobody does.
MailedAt(s) ==
  /\ \A m, n \in Mover :
       Mails(m, s) /\ Mails(n, s) /\ mover[m].nth = mover[n].nth => m = n
  /\ \A e \in EventsOf(s) :
       /\ e.sent <= 1
       /\ s # Cancelled /\ (\A m \in Mover : Mails(m, s) => mover[m].nth # e.nth) =>
            (e.mail = "sent" <=> e.sent = 1)
       /\ \A m \in Mover : Mails(m, s) /\ mover[m].nth = e.nth =>
            IF mover[m].pc = "mailing" THEN e.sent = 0
                                       ELSE mover[m].outcome = "sent" <=> e.sent = 1

EntriesAreAnnounced == \A s \in Status : astray[s] \cap {"shared", "lost"} = {} => AnnouncedAt(s)
MailsAreTrue == \A s \in Status : astray[s] \cap {"again", "unsaid"} = {} => MailedAt(s)

TimelineInv == TimelineTypes /\ EntriesAreAnnounced /\ MailsAreTrue

-----------------------------------------------------------------------------
\* Lemmas about one step.

USE TimelineAssumption

LEMMA StageFacts == Cancelled \in Status /\ Stage \subseteq Status /\ Cancelled \notin Stage /\ Status \subseteq Nat
BY DEF Cancelled, Status

LEMMA EventsAreFinite ==
  ASSUME TimelineShape, NEW s
  PROVE  IsFiniteSet(EventsOf(s)) /\ Cardinality(EventsOf(s)) \in Nat
<1>1. EventsOf(s) \subseteq timeline
  BY DEF EventsOf
<1>2. IsFiniteSet(EventsOf(s))
  BY <1>1, FS_Subset DEF TimelineShape
<1> QED BY <1>2, FS_CardinalityType

LEMMA NoMoverFits == NoMover \in MoverState /\ NoMover.pc = "idle"
BY StageFacts DEF NoMover, MoverState

\* Request m comes to k.
LEMMA SetsMover ==
  ASSUME TimelineShape, NEW m \in Mover, NEW k \in MoverState, mover' = [mover EXCEPT ![m] = k]
  PROVE  /\ mover' \in [Mover -> MoverState] /\ mover'[m] = k
         /\ \A n \in Mover : n # m => mover'[n] = mover[n]
BY DEF TimelineShape

\* What happened at s beyond the code is added to.
LEMMA StrayEffect ==
  ASSUME TimelineShape, NEW s \in Status, NEW what \in SUBSET Astray, Strays(s, what)
  PROVE  /\ astray' \in [Status -> SUBSET Astray]
         /\ astray'[s] = astray[s] \cup what
         /\ \A t \in Status : t # s => astray'[t] = astray[t]
BY DEF TimelineShape, Strays

\* Nothing about announcing at s changes.
LEMMA KeepsAnnounced ==
  ASSUME NEW s \in Status, AnnouncedAt(s),
         Cardinality(EventsOf(s))' = Cardinality(EventsOf(s)),
         \A e \in EventsOf(s)' : \E f \in EventsOf(s) : f.nth = e.nth,
         entered'[s] = entered[s],
         \A m \in Mover : Announces(m, s)' <=> Announces(m, s),
         \A m \in Mover : Announces(m, s)' /\ mover'[m].pc = "inserting" =>
           mover[m].pc = "inserting" /\ mover'[m].nth = mover[m].nth
  PROVE  AnnouncedAt(s)'
<1>1. \A m, n \in Mover : Announces(m, s)' /\ Announces(n, s)' => m = n
  BY DEF AnnouncedAt
<1>2. (\E m \in Mover : Announces(m, s)') <=> (\E m \in Mover : Announces(m, s))
  OBVIOUS
<1>3. entered'[s] = Cardinality(EventsOf(s))' + (IF \E m \in Mover : Announces(m, s)' THEN 1 ELSE 0)
  BY <1>2 DEF AnnouncedAt
<1>4. \A e \in EventsOf(s)' : e.nth < Cardinality(EventsOf(s))'
  BY DEF AnnouncedAt
<1>5. \A m \in Mover : Announces(m, s)' /\ mover'[m].pc = "inserting" =>
         mover'[m].nth = Cardinality(EventsOf(s))'
  BY DEF AnnouncedAt
<1> QED BY <1>1, <1>3, <1>4, <1>5 DEF AnnouncedAt

\* Nothing about mailing at s changes.
LEMMA KeepsMailed ==
  ASSUME NEW s \in Status, MailedAt(s),
         EventsOf(s)' = EventsOf(s),
         \A m \in Mover : Mails(m, s)' <=> Mails(m, s),
         \A m \in Mover : Mails(m, s) =>
           /\ mover'[m].pc = mover[m].pc /\ mover'[m].nth = mover[m].nth
           /\ mover'[m].outcome = mover[m].outcome
  PROVE  MailedAt(s)'
<1>1. \A m, n \in Mover : Mails(m, s)' /\ Mails(n, s)' /\ mover'[m].nth = mover'[n].nth => m = n
  BY DEF MailedAt
<1>2. ASSUME NEW e \in EventsOf(s)
      PROVE  /\ e.sent <= 1
             /\ s # Cancelled /\ (\A m \in Mover : Mails(m, s)' => mover'[m].nth # e.nth) =>
                  (e.mail = "sent" <=> e.sent = 1)
             /\ \A m \in Mover : Mails(m, s)' /\ mover'[m].nth = e.nth =>
                  IF mover'[m].pc = "mailing" THEN e.sent = 0
                                              ELSE mover'[m].outcome = "sent" <=> e.sent = 1
  BY <1>2 DEF MailedAt
<1> QED BY <1>1, <1>2 DEF MailedAt

\* An event is replaced by one with the same key.
LEMMA ReplaceEffect ==
  ASSUME TimelineShape, KeysAreUnique, NEW e \in timeline, NEW f \in Event,
         f.to = e.to, f.nth = e.nth, Replaces(e, f)
  PROVE  /\ timeline' \subseteq Event /\ IsFiniteSet(timeline')
         /\ \A g : g \in timeline' <=> g = f \/ (g \in timeline /\ g # e)
         /\ KeysAreUnique'
         /\ \A s : Cardinality(EventsOf(s))' = Cardinality(EventsOf(s))
         /\ \A s : \A g \in EventsOf(s)' : \E h \in EventsOf(s) : h.nth = g.nth
         /\ \A s : s # e.to => EventsOf(s)' = EventsOf(s)
<1>1. timeline' = (timeline \ {e}) \cup {f}
  BY DEF Replaces
<1>2. timeline' \subseteq Event
  BY <1>1 DEF TimelineShape
<1>3. IsFiniteSet(timeline')
  <2>1. IsFiniteSet(timeline \ {e})
    BY FS_RemoveElement DEF TimelineShape
  <2> QED BY <1>1, <2>1, FS_AddElement
<1>4. \A g : g \in timeline' <=> g = f \/ (g \in timeline /\ g # e)
  BY <1>1
<1>5. KeysAreUnique'
  BY <1>4 DEF KeysAreUnique
<1>6. \A g \in timeline : g.to = f.to /\ g.nth = f.nth => g = e
  BY DEF KeysAreUnique
<1>7. ASSUME NEW s, s # e.to PROVE EventsOf(s)' = EventsOf(s)
  BY <1>1, <1>7 DEF EventsOf
<1>8. ASSUME NEW s PROVE Cardinality(EventsOf(s))' = Cardinality(EventsOf(s))
  <2>1. CASE s # e.to
    BY <1>7, <2>1
  <2>2. CASE s = e.to
    <3> DEFINE R == EventsOf(s) \ {e}
    <3>1. EventsOf(s)' = R \cup {f}
      BY <1>1, <2>2 DEF EventsOf
    <3>2. e \in EventsOf(s) /\ IsFiniteSet(EventsOf(s)) /\ Cardinality(EventsOf(s)) \in Nat
      BY <2>2, EventsAreFinite DEF EventsOf
    <3>3. IsFiniteSet(R) /\ Cardinality(R) = Cardinality(EventsOf(s)) - 1
      BY <3>2, FS_RemoveElement
    <3>4. f \notin R
      BY <1>6 DEF EventsOf
    <3> HIDE DEF R
    <3>5. Cardinality(R \cup {f}) = Cardinality(R) + 1
      BY <3>3, <3>4, FS_AddElement
    <3> QED BY <3>1, <3>2, <3>3, <3>5
  <2> QED BY <2>1, <2>2
<1>9. ASSUME NEW s, NEW g \in EventsOf(s)' PROVE \E h \in EventsOf(s) : h.nth = g.nth
  BY <1>1, <1>9 DEF EventsOf
<1> QED BY <1>2, <1>3, <1>4, <1>5, <1>7, <1>8, <1>9

\* The event a request mails about is its own.
LEMMA EventOfFacts ==
  ASSUME TimelineTypes, NEW m \in Mover, mover[m].pc \in {"mailing", "stamping"}
  PROVE  /\ EventOf(m) \in timeline /\ EventOf(m) \in Event
         /\ EventOf(m).to = mover[m].to /\ EventOf(m).nth = mover[m].nth
         /\ EventOf(m) \in EventsOf(mover[m].to)
<1>1. \E e \in timeline : e.to = mover[m].to /\ e.nth = mover[m].nth
  BY DEF TimelineTypes, RequestsAreWhole
<1>2. EventOf(m) \in timeline /\ EventOf(m).to = mover[m].to /\ EventOf(m).nth = mover[m].nth
  BY <1>1 DEF EventOf
<1> QED BY <1>2 DEF TimelineTypes, TimelineShape, EventsOf

-----------------------------------------------------------------------------
\* What the actions do, request by request.

LEMMA MoverFacts ==
  ASSUME TimelineShape, NEW m \in Mover
  PROVE  /\ mover[m] \in MoverState
         /\ mover[m].pc \in {"idle", "moving", "counting", "inserting", "mailing", "stamping"}
         /\ mover[m].to \in Status /\ mover[m].rows \in SUBSET OrderLine
         /\ mover[m].moved \in BOOLEAN /\ mover[m].nth \in Nat
         /\ mover[m].outcome \in {"none", "sent", "failed"}
BY DEF TimelineShape, MoverState

LEMMA AsksMoveEffect ==
  ASSUME TimelineTypes, NEW m \in Mover, NEW s \in Stage, AsksMove(m, s)
  PROVE  /\ TimelineTypes'
         /\ mover[m].pc = "idle" /\ mover'[m].pc = "moving" /\ ~mover'[m].moved
         /\ \A n \in Mover : n # m => mover'[n] = mover[n]
         /\ UNCHANGED <<timeline, entered, astray>>
<1> DEFINE k == [NoMover EXCEPT !.pc = "moving", !.to = s, !.rows = OrderLine]
<1>1. /\ mover[m].pc = "idle" /\ asked' = asked + 1 /\ mover' = [mover EXCEPT ![m] = k]
      /\ UNCHANGED <<rowStage, timeline, entered, astray>>
  BY DEF AsksMove
<1>2. k \in MoverState /\ k.pc = "moving" /\ k.to = s /\ ~k.moved
  BY StageFacts DEF NoMover, MoverState
<1> HIDE DEF k
<1>3. /\ mover' \in [Mover -> MoverState] /\ mover'[m] = k
      /\ \A n \in Mover : n # m => mover'[n] = mover[n]
  BY <1>1, <1>2, SetsMover DEF TimelineTypes
<1>4. TimelineShape'
  BY <1>1, <1>3 DEF TimelineTypes, TimelineShape
<1>5. KeysAreUnique'
  BY <1>1 DEF TimelineTypes, KeysAreUnique
<1>6. RequestsAreWhole'
  BY <1>1, <1>2, <1>3, StageFacts DEF TimelineTypes, RequestsAreWhole
<1> QED BY <1>1, <1>2, <1>3, <1>4, <1>5, <1>6 DEF TimelineTypes

LEMMA VisitsRowEffect ==
  ASSUME TimelineTypes, NEW m \in Mover, NEW l \in OrderLine, VisitsRow(m, l),
         NEW s \in Status, s = mover[m].to
  PROVE  /\ TimelineTypes'
         /\ mover[m].pc = "moving" /\ mover'[m].pc \in {"moving", "counting", "idle"}
         /\ LET first == rowStage[l] # s /\ ~mover[m].moved
            IN  /\ Announces(m, s)' <=> mover[m].moved \/ first
                /\ \A t : t # s => ~Announces(m, t)'
                /\ entered'[s] = entered[s] + (IF first THEN 1 ELSE 0)
                /\ astray[s] \subseteq astray'[s]
                /\ astray'[s] \cap {"again", "unsaid"} = astray[s] \cap {"again", "unsaid"}
                /\ first /\ Unrecorded(m, s) => "shared" \in astray'[s]
                /\ \A t \in Status : t # s => entered'[t] = entered[t] /\ astray'[t] = astray[t]
         /\ \A n \in Mover : n # m => mover'[n] = mover[n]
         /\ UNCHANGED timeline
<1> DEFINE p == mover[m]
           rest == p.rows \ {l}
           first == rowStage[l] # s /\ ~p.moved
           moved == p.moved \/ rowStage[l] # s
           k == IF rest # {} THEN [p EXCEPT !.rows = rest, !.moved = moved]
                ELSE IF moved THEN [p EXCEPT !.rows = {}, !.moved = TRUE, !.pc = "counting"]
                ELSE NoMover
           what == IF first /\ Unrecorded(m, s) THEN {"shared"} ELSE {}
<1>1. /\ p.pc = "moving" /\ rowStage' = [rowStage EXCEPT ![l] = s]
      /\ mover' = [mover EXCEPT ![m] = k]
      /\ entered' = [entered EXCEPT ![s] = @ + (IF first THEN 1 ELSE 0)]
      /\ Strays(s, what) /\ UNCHANGED <<timeline, asked>>
  BY DEF VisitsRow, Matches
<1>2. p \in MoverState /\ s = p.to /\ rest \in SUBSET OrderLine /\ moved \in BOOLEAN
  BY MoverFacts DEF TimelineTypes
<1>3. /\ k \in MoverState /\ k.pc \in {"moving", "counting", "idle"}
      /\ k.pc # "idle" => k.to = s /\ k.moved = moved
      /\ k.pc = "counting" => k.moved
      /\ k.pc = "idle" => ~moved
  BY <1>1, <1>2, NoMoverFits DEF MoverState
<1>4. what \in SUBSET Astray /\ what \subseteq {"shared"}
  BY DEF Astray
<1>5. moved <=> p.moved \/ first
  BY <1>2
<1> HIDE DEF k, moved
<1>6. /\ mover' \in [Mover -> MoverState] /\ mover'[m] = k
      /\ \A n \in Mover : n # m => mover'[n] = mover[n]
  BY <1>1, <1>3, SetsMover DEF TimelineTypes
<1>7. /\ astray' \in [Status -> SUBSET Astray] /\ astray'[s] = astray[s] \cup what
      /\ \A t \in Status : t # s => astray'[t] = astray[t]
  BY <1>1, <1>2, <1>4, StrayEffect DEF TimelineTypes
<1>8. /\ entered' \in [Status -> Nat] /\ entered'[s] = entered[s] + (IF first THEN 1 ELSE 0)
      /\ \A t \in Status : t # s => entered'[t] = entered[t]
  BY <1>1, <1>2 DEF TimelineTypes, TimelineShape
<1>9. rowStage' \in [OrderLine -> Status]
  BY <1>1, <1>2 DEF TimelineTypes, TimelineShape
<1>10. TimelineShape'
  BY <1>1, <1>6, <1>7, <1>8, <1>9 DEF TimelineTypes, TimelineShape
<1>11. KeysAreUnique'
  BY <1>1 DEF TimelineTypes, KeysAreUnique
<1>12. RequestsAreWhole'
  BY <1>1, <1>3, <1>6 DEF TimelineTypes, RequestsAreWhole
<1>13. (Announces(m, s)' <=> moved) /\ \A t : t # s => ~Announces(m, t)'
  BY <1>2, <1>3, <1>6 DEF Announces
<1> QED
  BY <1>1, <1>3, <1>4, <1>5, <1>6, <1>7, <1>8, <1>10, <1>11, <1>12, <1>13 DEF TimelineTypes

LEMMA CancelsBookingEffect ==
  ASSUME TimelineTypes, NEW m \in Mover, CancelsBooking(m)
  PROVE  /\ TimelineTypes'
         /\ mover[m].pc = "idle" /\ mover'[m].pc = "counting"
         /\ mover'[m].to = Cancelled /\ mover'[m].moved
         /\ entered[Cancelled] = 0 /\ entered'[Cancelled] = 1
         /\ \A t \in Status : t # Cancelled => entered'[t] = entered[t]
         /\ \A n \in Mover : n # m => mover'[n] = mover[n]
         /\ UNCHANGED <<timeline, astray>>
<1> DEFINE k == [NoMover EXCEPT !.pc = "counting", !.moved = TRUE]
<1>1. /\ mover[m].pc = "idle" /\ asked' = asked + 1 /\ mover' = [mover EXCEPT ![m] = k]
      /\ entered[Cancelled] = 0 /\ entered' = [entered EXCEPT ![Cancelled] = 1]
      /\ rowStage' = [l \in OrderLine |-> Cancelled]
      /\ UNCHANGED <<timeline, astray>>
  BY DEF CancelsBooking
<1>2. k \in MoverState /\ k.pc = "counting" /\ k.to = Cancelled /\ k.moved
  BY StageFacts DEF NoMover, MoverState
<1> HIDE DEF k
<1>3. /\ mover' \in [Mover -> MoverState] /\ mover'[m] = k
      /\ \A n \in Mover : n # m => mover'[n] = mover[n]
  BY <1>1, <1>2, SetsMover DEF TimelineTypes
<1>4. /\ entered' \in [Status -> Nat] /\ entered'[Cancelled] = 1
      /\ \A t \in Status : t # Cancelled => entered'[t] = entered[t]
  BY <1>1, StageFacts DEF TimelineTypes, TimelineShape
<1>5. rowStage' \in [OrderLine -> Status]
  BY <1>1, StageFacts
<1>6. TimelineShape'
  BY <1>1, <1>3, <1>4, <1>5 DEF TimelineTypes, TimelineShape
<1>7. KeysAreUnique'
  BY <1>1 DEF TimelineTypes, KeysAreUnique
<1>8. RequestsAreWhole'
  BY <1>1, <1>2, <1>3 DEF TimelineTypes, RequestsAreWhole
<1> QED BY <1>1, <1>2, <1>3, <1>4, <1>6, <1>7, <1>8 DEF TimelineTypes

LEMMA CountsEventsEffect ==
  ASSUME TimelineTypes, NEW m \in Mover, CountsEvents(m)
  PROVE  /\ TimelineTypes'
         /\ mover[m].pc = "counting" /\ mover'[m].pc = "inserting"
         /\ mover'[m].to = mover[m].to /\ mover'[m].moved = mover[m].moved
         /\ mover'[m].nth = Cardinality(EventsOf(mover[m].to))
         /\ \A n \in Mover : n # m => mover'[n] = mover[n]
         /\ UNCHANGED <<timeline, entered, astray>>
<1> DEFINE p == mover[m]
           c == Cardinality(EventsOf(p.to))
           k == [p EXCEPT !.pc = "inserting", !.nth = c]
<1>1. /\ p.pc = "counting" /\ mover' = [mover EXCEPT ![m] = k]
      /\ UNCHANGED <<rowStage, timeline, asked, entered, astray>>
  BY MoverFacts DEF CountsEvents, Occurrence, TimelineTypes, TimelineShape
<1>2. p \in MoverState /\ c \in Nat
  BY MoverFacts, EventsAreFinite DEF TimelineTypes
<1> HIDE DEF c
<1>3. /\ k \in MoverState /\ k.pc = "inserting" /\ k.to = p.to /\ k.moved = p.moved /\ k.nth = c
  BY <1>2 DEF MoverState
<1> HIDE DEF k
<1>4. /\ mover' \in [Mover -> MoverState] /\ mover'[m] = k
      /\ \A n \in Mover : n # m => mover'[n] = mover[n]
  BY <1>1, <1>3, SetsMover DEF TimelineTypes
<1>5. TimelineShape'
  BY <1>1, <1>4 DEF TimelineTypes, TimelineShape
<1>6. KeysAreUnique'
  BY <1>1 DEF TimelineTypes, KeysAreUnique
<1>7. RequestsAreWhole'
  BY <1>1, <1>3, <1>4 DEF TimelineTypes, RequestsAreWhole
<1> QED BY <1>1, <1>3, <1>4, <1>5, <1>6, <1>7 DEF TimelineTypes, c

\* Either the number is taken, or the event is new at its stage.
LEMMA InsertsEventEffect ==
  ASSUME TimelineTypes, NEW m \in Mover, NEW s \in Status, s = mover[m].to, InsertsEvent(m)
  PROVE  /\ TimelineTypes'
         /\ mover[m].pc = "inserting"
         /\ \A n \in Mover : n # m => mover'[n] = mover[n]
         /\ UNCHANGED <<entered, astray>>
         /\ \/ /\ \E e \in EventsOf(s) : e.nth = mover[m].nth
               /\ mover'[m].pc = "idle" /\ UNCHANGED timeline
            \/ /\ \A e \in EventsOf(s) : e.nth # mover[m].nth
               /\ \A t \in Status : t # s => EventsOf(t)' = EventsOf(t)
               /\ Cardinality(EventsOf(s))' = Cardinality(EventsOf(s)) + 1
               /\ \E new \in Event :
                    /\ EventsOf(s)' = EventsOf(s) \cup {new}
                    /\ new.nth = mover[m].nth /\ new.sent = 0 /\ new.mail # "sent"
               /\ IF s = Cancelled THEN mover'[m].pc = "idle"
                  ELSE mover'[m].pc = "mailing" /\ mover'[m].to = s
                       /\ mover'[m].nth = mover[m].nth
<1> DEFINE p == mover[m]
           new == [to |-> p.to, nth |-> p.nth, mail |-> IF p.to = Cancelled THEN "none" ELSE "pending",
                   sent |-> 0]
           taken == <<p.to, p.nth>> \in EventKeys
           k == IF taken \/ p.to = Cancelled THEN NoMover ELSE [p EXCEPT !.pc = "mailing"]
<1>1. /\ p.pc = "inserting" /\ mover' = [mover EXCEPT ![m] = k]
      /\ timeline' = IF taken THEN timeline ELSE timeline \cup {new}
      /\ UNCHANGED <<rowStage, asked, entered, astray>>
  BY DEF InsertsEvent
<1>2. p \in MoverState /\ s = p.to /\ p.nth \in Nat
  BY MoverFacts DEF TimelineTypes
<1>3. /\ k \in MoverState
      /\ k.pc = "idle" \/ (~taken /\ s # Cancelled /\ k.pc = "mailing" /\ k.to = s /\ k.nth = p.nth)
      /\ taken \/ s = Cancelled => k.pc = "idle"
  BY <1>1, <1>2, NoMoverFits DEF MoverState
<1>4. new \in Event /\ new.to = s /\ new.nth = p.nth /\ new.sent = 0 /\ new.mail # "sent"
  BY <1>2 DEF Event
<1>5. taken <=> \E e \in timeline : e.to = s /\ e.nth = p.nth
  BY <1>2 DEF EventKeys
<1> HIDE DEF k, new, taken
<1>6. /\ mover' \in [Mover -> MoverState] /\ mover'[m] = k
      /\ \A n \in Mover : n # m => mover'[n] = mover[n]
  BY <1>1, <1>3, SetsMover DEF TimelineTypes
<1>7. timeline' \subseteq Event /\ IsFiniteSet(timeline')
  <2>1. IsFiniteSet(timeline \cup {new})
    BY FS_AddElement DEF TimelineTypes, TimelineShape
  <2> QED BY <1>1, <1>4, <2>1 DEF TimelineTypes, TimelineShape
<1>8. TimelineShape'
  BY <1>1, <1>6, <1>7 DEF TimelineTypes, TimelineShape
<1>9. KeysAreUnique'
  BY <1>1, <1>4, <1>5 DEF TimelineTypes, KeysAreUnique
<1>10. RequestsAreWhole'
  <2>1. ASSUME NEW n \in Mover, mover'[n].pc \in {"mailing", "stamping"}
        PROVE  /\ mover'[n].to # Cancelled
               /\ \E e \in timeline' : e.to = mover'[n].to /\ e.nth = mover'[n].nth
    <3>1. CASE n = m
      BY <1>1, <1>3, <1>4, <1>6, <2>1, <3>1
    <3>2. CASE n # m
      BY <1>1, <1>6, <2>1, <3>2 DEF TimelineTypes, RequestsAreWhole
    <3> QED BY <3>1, <3>2
  <2>2. ASSUME NEW n \in Mover
        PROVE  /\ mover'[n].pc \in {"counting", "inserting"} => mover'[n].moved
               /\ mover'[n].pc = "moving" => mover'[n].to # Cancelled
               /\ mover'[n].pc = "stamping" => mover'[n].outcome # "none"
    BY <1>3, <1>6 DEF TimelineTypes, RequestsAreWhole
  <2> QED BY <2>1, <2>2 DEF RequestsAreWhole
<1>11. CASE taken
  <2>1. \E e \in EventsOf(s) : e.nth = p.nth
    BY <1>5, <1>11 DEF EventsOf
  <2>2. mover'[m].pc = "idle" /\ UNCHANGED timeline
    BY <1>1, <1>3, <1>6, <1>11
  <2> QED BY <1>1, <1>6, <1>8, <1>9, <1>10, <2>1, <2>2 DEF TimelineTypes
<1>12. CASE ~taken
  <2>1. \A e \in EventsOf(s) : e.nth # p.nth
    BY <1>5, <1>12 DEF EventsOf
  <2>2. \A t \in Status : t # s => EventsOf(t)' = EventsOf(t)
    BY <1>1, <1>4, <1>12 DEF EventsOf
  <2>3. EventsOf(s)' = EventsOf(s) \cup {new}
    BY <1>1, <1>4, <1>12 DEF EventsOf
  <2>4. new \notin EventsOf(s)
    BY <1>4, <2>1
  <2>5. Cardinality(EventsOf(s))' = Cardinality(EventsOf(s)) + 1
    BY <2>3, <2>4, EventsAreFinite, FS_AddElement DEF TimelineTypes
  <2>6. IF s = Cancelled THEN mover'[m].pc = "idle"
        ELSE mover'[m].pc = "mailing" /\ mover'[m].to = s /\ mover'[m].nth = mover[m].nth
    <3>1. s # Cancelled => k = [p EXCEPT !.pc = "mailing"]
      BY <1>12 DEF k
    <3>2. s # Cancelled => k.pc = "mailing" /\ k.to = s /\ k.nth = p.nth
      BY <1>2, <3>1 DEF MoverState
    <3> QED BY <1>3, <1>6, <3>2
  <2>7. \E e \in Event : /\ EventsOf(s)' = EventsOf(s) \cup {e}
                         /\ e.nth = mover[m].nth /\ e.sent = 0 /\ e.mail # "sent"
    BY <1>4, <2>3
  <2> QED BY <1>1, <1>6, <1>8, <1>9, <1>10, <2>1, <2>2, <2>5, <2>6, <2>7 DEF TimelineTypes
<1> QED BY <1>11, <1>12

LEMMA EventIsLostEffect ==
  ASSUME TimelineTypes, NEW m \in Mover, EventIsLost(m)
  PROVE  /\ TimelineTypes'
         /\ mover[m].pc \in {"moving", "counting", "inserting"} /\ mover'[m].pc = "idle"
         /\ mover[m].to \in Status
         /\ astray'[mover[m].to] = astray[mover[m].to] \cup {"lost"}
         /\ \A t \in Status : t # mover[m].to => astray'[t] = astray[t]
         /\ \A n \in Mover : n # m => mover'[n] = mover[n]
         /\ UNCHANGED <<timeline, entered>>
<1>1. /\ mover[m].pc \in {"moving", "counting", "inserting"}
      /\ mover' = [mover EXCEPT ![m] = NoMover] /\ Strays(mover[m].to, {"lost"})
      /\ UNCHANGED <<rowStage, timeline, asked, entered>>
  BY DEF EventIsLost
<1>2. mover[m].to \in Status /\ {"lost"} \in SUBSET Astray
  BY MoverFacts DEF TimelineTypes, Astray
<1>3. /\ mover' \in [Mover -> MoverState] /\ mover'[m] = NoMover
      /\ \A n \in Mover : n # m => mover'[n] = mover[n]
  BY <1>1, NoMoverFits, SetsMover DEF TimelineTypes
<1>4. /\ astray' \in [Status -> SUBSET Astray]
      /\ astray'[mover[m].to] = astray[mover[m].to] \cup {"lost"}
      /\ \A t \in Status : t # mover[m].to => astray'[t] = astray[t]
  BY <1>1, <1>2, StrayEffect DEF TimelineTypes
<1>5. TimelineShape'
  BY <1>1, <1>3, <1>4 DEF TimelineTypes, TimelineShape
<1>6. KeysAreUnique'
  BY <1>1 DEF TimelineTypes, KeysAreUnique
<1>7. RequestsAreWhole'
  BY <1>1, <1>3, NoMoverFits DEF TimelineTypes, RequestsAreWhole
<1> QED BY <1>1, <1>2, <1>3, <1>4, <1>5, <1>6, <1>7, NoMoverFits DEF TimelineTypes

LEMMA MailIsUnsaidEffect ==
  ASSUME TimelineTypes, NEW m \in Mover, MailIsUnsaid(m)
  PROVE  /\ TimelineTypes'
         /\ mover[m].pc \in {"mailing", "stamping"} /\ mover'[m].pc = "idle"
         /\ mover[m].to \in Status
         /\ astray'[mover[m].to] = astray[mover[m].to] \cup {"unsaid"}
         /\ \A t \in Status : t # mover[m].to => astray'[t] = astray[t]
         /\ \A n \in Mover : n # m => mover'[n] = mover[n]
         /\ UNCHANGED <<timeline, entered>>
<1>1. /\ mover[m].pc \in {"mailing", "stamping"}
      /\ mover' = [mover EXCEPT ![m] = NoMover] /\ Strays(mover[m].to, {"unsaid"})
      /\ UNCHANGED <<rowStage, timeline, asked, entered>>
  BY DEF MailIsUnsaid
<1>2. mover[m].to \in Status /\ {"unsaid"} \in SUBSET Astray
  BY MoverFacts DEF TimelineTypes, Astray
<1>3. /\ mover' \in [Mover -> MoverState] /\ mover'[m] = NoMover
      /\ \A n \in Mover : n # m => mover'[n] = mover[n]
  BY <1>1, NoMoverFits, SetsMover DEF TimelineTypes
<1>4. /\ astray' \in [Status -> SUBSET Astray]
      /\ astray'[mover[m].to] = astray[mover[m].to] \cup {"unsaid"}
      /\ \A t \in Status : t # mover[m].to => astray'[t] = astray[t]
  BY <1>1, <1>2, StrayEffect DEF TimelineTypes
<1>5. TimelineShape'
  BY <1>1, <1>3, <1>4 DEF TimelineTypes, TimelineShape
<1>6. KeysAreUnique'
  BY <1>1 DEF TimelineTypes, KeysAreUnique
<1>7. RequestsAreWhole'
  BY <1>1, <1>3, NoMoverFits DEF TimelineTypes, RequestsAreWhole
<1> QED BY <1>1, <1>2, <1>3, <1>4, <1>5, <1>6, <1>7, NoMoverFits DEF TimelineTypes

\* The counter of the event m mails about goes up when the mail has left.
LEMMA SendsMailEffect ==
  ASSUME TimelineTypes, NEW m \in Mover, NEW s \in Status, s = mover[m].to,
         NEW outcome \in {"sent", "failed"}, SendsMail(m, outcome)
  PROVE  /\ TimelineTypes'
         /\ mover[m].pc = "mailing" /\ mover'[m].pc = "stamping" /\ mover'[m].outcome = outcome
         /\ mover'[m].to = mover[m].to /\ mover'[m].nth = mover[m].nth
         /\ \A n \in Mover : n # m => mover'[n] = mover[n]
         /\ UNCHANGED <<entered, astray>>
         /\ \A t : Cardinality(EventsOf(t))' = Cardinality(EventsOf(t))
         /\ \A t : \A e \in EventsOf(t)' : \E f \in EventsOf(t) : f.nth = e.nth
         /\ \A t : t # s => EventsOf(t)' = EventsOf(t)
         /\ \E e \in EventsOf(s), f \in EventsOf(s)' :
              /\ e.nth = mover[m].nth /\ f.nth = e.nth
              /\ f.sent = e.sent + (IF outcome = "sent" THEN 1 ELSE 0)
              /\ \A g \in EventsOf(s)' : g = f \/ (g \in EventsOf(s) /\ g.nth # f.nth)
<1> DEFINE p == mover[m]
           e == EventOf(m)
           f == IF outcome = "sent" THEN [e EXCEPT !.sent = @ + 1] ELSE e
           k == [p EXCEPT !.pc = "stamping", !.outcome = outcome]
<1>1. /\ p.pc = "mailing" /\ mover' = [mover EXCEPT ![m] = k]
      /\ UNCHANGED <<rowStage, asked, entered, astray>>
      /\ IF outcome = "sent" THEN Replaces(e, [e EXCEPT !.sent = @ + 1]) ELSE UNCHANGED timeline
  BY MoverFacts DEF SendsMail, TimelineTypes, TimelineShape
<1>2. p \in MoverState /\ s = p.to
  BY MoverFacts DEF TimelineTypes
<1>3. /\ k \in MoverState /\ k.pc = "stamping" /\ k.outcome = outcome /\ k.to = s /\ k.nth = p.nth
  BY <1>2 DEF MoverState
<1>4. e \in timeline /\ e \in Event /\ e.to = s /\ e.nth = p.nth /\ e \in EventsOf(s)
  BY <1>1, <1>2, EventOfFacts
<1> HIDE DEF e
<1>5. /\ f \in Event /\ f.to = e.to /\ f.nth = e.nth
      /\ f.sent = e.sent + (IF outcome = "sent" THEN 1 ELSE 0)
  BY <1>4 DEF Event
<1>6. Replaces(e, f)
  BY <1>1, <1>4 DEF Replaces
<1> HIDE DEF f, k
<1>7. /\ timeline' \subseteq Event /\ IsFiniteSet(timeline')
      /\ \A g : g \in timeline' <=> g = f \/ (g \in timeline /\ g # e)
      /\ KeysAreUnique'
      /\ \A t : Cardinality(EventsOf(t))' = Cardinality(EventsOf(t))
      /\ \A t : \A g \in EventsOf(t)' : \E h \in EventsOf(t) : h.nth = g.nth
      /\ \A t : t # e.to => EventsOf(t)' = EventsOf(t)
  BY <1>4, <1>5, <1>6, ReplaceEffect DEF TimelineTypes
<1>8. /\ mover' \in [Mover -> MoverState] /\ mover'[m] = k
      /\ \A n \in Mover : n # m => mover'[n] = mover[n]
  BY <1>1, <1>3, SetsMover DEF TimelineTypes
<1>9. TimelineShape'
  BY <1>1, <1>7, <1>8 DEF TimelineTypes, TimelineShape
<1>10. RequestsAreWhole'
  <2>1. ASSUME NEW n \in Mover, mover'[n].pc \in {"mailing", "stamping"}
        PROVE  /\ mover'[n].to # Cancelled
               /\ \E g \in timeline' : g.to = mover'[n].to /\ g.nth = mover'[n].nth
    <3>1. /\ mover[n].pc \in {"mailing", "stamping"}
          /\ mover'[n].to = mover[n].to /\ mover'[n].nth = mover[n].nth
      BY <1>1, <1>3, <1>8, <2>1
    <3>2. /\ mover[n].to # Cancelled
          /\ \E g \in timeline : g.to = mover[n].to /\ g.nth = mover[n].nth
      BY <3>1 DEF TimelineTypes, RequestsAreWhole
    <3> QED BY <1>5, <1>7, <3>1, <3>2
  <2>2. ASSUME NEW n \in Mover
        PROVE  /\ mover'[n].pc \in {"counting", "inserting"} => mover'[n].moved
               /\ mover'[n].pc = "moving" => mover'[n].to # Cancelled
               /\ mover'[n].pc = "stamping" => mover'[n].outcome # "none"
    BY <1>3, <1>8 DEF TimelineTypes, RequestsAreWhole
  <2> QED BY <2>1, <2>2 DEF RequestsAreWhole
<1>11. f \in EventsOf(s)' /\ (\A g \in EventsOf(s)' : g = f \/ (g \in EventsOf(s) /\ g.nth # f.nth))
  BY <1>4, <1>5, <1>7 DEF EventsOf, TimelineTypes, KeysAreUnique
<1>12. \E x \in EventsOf(s), y \in EventsOf(s)' :
         /\ x.nth = p.nth /\ y.nth = x.nth
         /\ y.sent = x.sent + (IF outcome = "sent" THEN 1 ELSE 0)
         /\ \A g \in EventsOf(s)' : g = y \/ (g \in EventsOf(s) /\ g.nth # y.nth)
  BY <1>4, <1>5, <1>11
<1> QED BY <1>1, <1>3, <1>4, <1>7, <1>8, <1>9, <1>10, <1>12 DEF TimelineTypes

LEMMA StampsEventEffect ==
  ASSUME TimelineTypes, NEW m \in Mover, NEW s \in Status, s = mover[m].to,
         StampsEvent(m)
  PROVE  /\ TimelineTypes'
         /\ mover[m].pc = "stamping" /\ mover'[m].pc = "idle"
         /\ \A n \in Mover : n # m => mover'[n] = mover[n]
         /\ UNCHANGED <<entered, astray>>
         /\ \A t : Cardinality(EventsOf(t))' = Cardinality(EventsOf(t))
         /\ \A t : \A e \in EventsOf(t)' : \E f \in EventsOf(t) : f.nth = e.nth
         /\ \A t : t # s => EventsOf(t)' = EventsOf(t)
         /\ \E e \in EventsOf(s), f \in EventsOf(s)' :
              /\ e.nth = mover[m].nth /\ f.nth = e.nth
              /\ f.sent = e.sent /\ f.mail = mover[m].outcome
              /\ \A g \in EventsOf(s)' : g = f \/ (g \in EventsOf(s) /\ g.nth # f.nth)
<1> DEFINE p == mover[m]
           e == EventOf(m)
           f == [e EXCEPT !.mail = p.outcome]
<1>1. /\ p.pc = "stamping" /\ mover' = [mover EXCEPT ![m] = NoMover]
      /\ UNCHANGED <<rowStage, asked, entered, astray>>
      /\ Replaces(e, f)
  BY DEF StampsEvent
<1>2. s = p.to /\ p.outcome \in {"sent", "failed"}
  BY <1>1, MoverFacts DEF TimelineTypes, RequestsAreWhole
<1>3. e \in timeline /\ e \in Event /\ e.to = s /\ e.nth = p.nth /\ e \in EventsOf(s)
  BY <1>1, <1>2, EventOfFacts
<1> HIDE DEF e
<1>4. /\ f \in Event /\ f.to = e.to /\ f.nth = e.nth /\ f.sent = e.sent /\ f.mail = p.outcome
  BY <1>2, <1>3 DEF Event
<1> HIDE DEF f
<1>5. /\ timeline' \subseteq Event /\ IsFiniteSet(timeline')
      /\ \A g : g \in timeline' <=> g = f \/ (g \in timeline /\ g # e)
      /\ KeysAreUnique'
      /\ \A t : Cardinality(EventsOf(t))' = Cardinality(EventsOf(t))
      /\ \A t : \A g \in EventsOf(t)' : \E h \in EventsOf(t) : h.nth = g.nth
      /\ \A t : t # e.to => EventsOf(t)' = EventsOf(t)
  BY <1>1, <1>3, <1>4, ReplaceEffect DEF TimelineTypes
<1>6. /\ mover' \in [Mover -> MoverState] /\ mover'[m] = NoMover
      /\ \A n \in Mover : n # m => mover'[n] = mover[n]
  BY <1>1, NoMoverFits, SetsMover DEF TimelineTypes
<1>7. TimelineShape'
  BY <1>1, <1>5, <1>6 DEF TimelineTypes, TimelineShape
<1>8. RequestsAreWhole'
  <2>1. ASSUME NEW n \in Mover, mover'[n].pc \in {"mailing", "stamping"}
        PROVE  /\ mover'[n].to # Cancelled
               /\ \E g \in timeline' : g.to = mover'[n].to /\ g.nth = mover'[n].nth
    <3>1. mover[n] = mover'[n]
      BY <1>6, <2>1, NoMoverFits
    <3>2. /\ mover[n].to # Cancelled
          /\ \E g \in timeline : g.to = mover[n].to /\ g.nth = mover[n].nth
      BY <2>1, <3>1 DEF TimelineTypes, RequestsAreWhole
    <3> QED BY <1>4, <1>5, <3>1, <3>2
  <2>2. ASSUME NEW n \in Mover
        PROVE  /\ mover'[n].pc \in {"counting", "inserting"} => mover'[n].moved
               /\ mover'[n].pc = "moving" => mover'[n].to # Cancelled
               /\ mover'[n].pc = "stamping" => mover'[n].outcome # "none"
    BY <1>6, NoMoverFits DEF TimelineTypes, RequestsAreWhole
  <2> QED BY <2>1, <2>2 DEF RequestsAreWhole
<1>9. f \in EventsOf(s)' /\ (\A g \in EventsOf(s)' : g = f \/ (g \in EventsOf(s) /\ g.nth # f.nth))
  BY <1>3, <1>4, <1>5 DEF EventsOf, TimelineTypes, KeysAreUnique
<1>10. \E x \in EventsOf(s), y \in EventsOf(s)' :
         /\ x.nth = p.nth /\ y.nth = x.nth /\ y.sent = x.sent /\ y.mail = p.outcome
         /\ \A g \in EventsOf(s)' : g = y \/ (g \in EventsOf(s) /\ g.nth # y.nth)
  BY <1>3, <1>4, <1>9
<1> QED BY <1>1, <1>3, <1>5, <1>6, <1>7, <1>8, <1>10, NoMoverFits DEF TimelineTypes

LEMMA ResendsMailEffect ==
  ASSUME TimelineTypes, NEW m \in Mover, ResendsMail(m)
  PROVE  /\ TimelineTypes'
         /\ mover[m].pc = "idle" /\ mover'[m].pc = "mailing"
         /\ mover'[m].to \in Status /\ mover'[m].to # Cancelled
         /\ \A n \in Mover : n # m => mover'[n] = mover[n]
         /\ UNCHANGED <<timeline, entered>>
         /\ \A s \in Status : astray[s] \subseteq astray'[s]
         /\ \A s \in Status : astray'[s] \cap {"shared", "lost"} = astray[s] \cap {"shared", "lost"}
         /\ \E e \in EventsOf(mover'[m].to) :
              /\ e.nth = mover'[m].nth /\ e.mail # "sent"
              /\ (\E n \in Mover : Mails(n, mover'[m].to) /\ mover[n].nth = e.nth) =>
                   "again" \in astray'[mover'[m].to]
<1>1. PICK e \in timeline :
        /\ Resendable(e)
        /\ mover' = [mover EXCEPT ![m] =
             [NoMover EXCEPT !.pc = "mailing", !.to = e.to, !.nth = e.nth]]
        /\ Strays(e.to, IF UnderWay(e) THEN {"again"} ELSE {})
  BY DEF ResendsMail
<1> DEFINE k == [NoMover EXCEPT !.pc = "mailing", !.to = e.to, !.nth = e.nth]
           what == IF UnderWay(e) THEN {"again"} ELSE {}
<1>2. /\ mover[m].pc = "idle" /\ asked' = asked + 1 /\ UNCHANGED <<rowStage, timeline, entered>>
  BY DEF ResendsMail
<1>3. e \in Event /\ e.to \in Status /\ e.nth \in Nat /\ e.to # Cancelled /\ e.mail # "sent"
  BY <1>1 DEF TimelineTypes, TimelineShape, Event, Resendable
<1>4. k \in MoverState /\ k.pc = "mailing" /\ k.to = e.to /\ k.nth = e.nth
  BY <1>3, NoMoverFits DEF MoverState, NoMover
<1>5. what \in SUBSET Astray /\ what \subseteq {"again"}
  BY DEF Astray
<1>6. /\ mover' \in [Mover -> MoverState] /\ mover'[m] = k
      /\ \A n \in Mover : n # m => mover'[n] = mover[n]
  BY <1>1, <1>4, SetsMover DEF TimelineTypes
<1>7. /\ astray' \in [Status -> SUBSET Astray] /\ astray'[e.to] = astray[e.to] \cup what
      /\ \A t \in Status : t # e.to => astray'[t] = astray[t]
  BY <1>1, <1>3, <1>5, StrayEffect DEF TimelineTypes
<1> HIDE DEF k
<1>8. TimelineShape'
  BY <1>2, <1>6, <1>7 DEF TimelineTypes, TimelineShape
<1>9. KeysAreUnique'
  BY <1>2 DEF TimelineTypes, KeysAreUnique
<1>10. RequestsAreWhole'
  BY <1>2, <1>3, <1>4, <1>6 DEF TimelineTypes, RequestsAreWhole
<1>11. e \in EventsOf(e.to)
  BY DEF EventsOf
<1>12. (\E n \in Mover : Mails(n, e.to) /\ mover[n].nth = e.nth) => "again" \in astray'[e.to]
  BY <1>7 DEF UnderWay, Mails
<1>13. /\ \A s \in Status : astray[s] \subseteq astray'[s]
       /\ \A s \in Status : astray'[s] \cap {"shared", "lost"} = astray[s] \cap {"shared", "lost"}
  BY <1>5, <1>7
<1> QED BY <1>2, <1>3, <1>4, <1>6, <1>8, <1>9, <1>10, <1>11, <1>12, <1>13 DEF TimelineTypes

-----------------------------------------------------------------------------
\* Every entry is announced.

\* Outside of a stage a request is not announcing there.
LEMMA AnnouncesOne ==
  ASSUME NEW m, NEW s, Announces(m, s)
  PROVE  mover[m].to = s /\ mover[m].pc \in {"moving", "counting", "inserting"}
BY DEF Announces

LEMMA VisitsRowAnnounces ==
  ASSUME TimelineTypes, EntriesAreAnnounced, NEW m \in Mover, NEW l \in OrderLine, VisitsRow(m, l)
  PROVE  EntriesAreAnnounced'
<1> DEFINE s == mover[m].to
           first == rowStage[l] # s /\ ~mover[m].moved
<1> SUFFICES ASSUME NEW t \in Status, astray'[t] \cap {"shared", "lost"} = {} PROVE AnnouncedAt(t)'
  BY DEF EntriesAreAnnounced
<1>1. s \in Status
  BY MoverFacts DEF TimelineTypes
<1>2. /\ mover[m].pc = "moving" /\ mover'[m].pc \in {"moving", "counting", "idle"}
      /\ \A u : u # s => ~Announces(m, u)'
      /\ entered'[s] = entered[s] + (IF first THEN 1 ELSE 0)
      /\ astray[s] \subseteq astray'[s]
      /\ first /\ Unrecorded(m, s) => "shared" \in astray'[s]
      /\ \A u \in Status : u # s => entered'[u] = entered[u] /\ astray'[u] = astray[u]
      /\ \A n \in Mover : n # m => mover'[n] = mover[n]
      /\ UNCHANGED timeline
  BY <1>1, VisitsRowEffect
<1>3. ASSUME s = t PROVE Announces(m, t)' <=> mover[m].moved \/ first
  BY <1>1, <1>3, VisitsRowEffect
<1>4. \A n \in Mover : \A u : n # m => (Announces(n, u)' <=> Announces(n, u))
  BY <1>2 DEF Announces
<1>5. Announces(m, s) <=> mover[m].moved
  BY <1>2 DEF Announces
<1>6. \A u : u # s => ~Announces(m, u)
  BY DEF Announces
<1>7. AnnouncedAt(t)
  BY <1>2 DEF EntriesAreAnnounced
<1>8. EventsOf(t)' = EventsOf(t) /\ Cardinality(EventsOf(t))' = Cardinality(EventsOf(t))
  BY <1>2 DEF EventsOf
<1>9. CASE t # s \/ ~first
  <2>1. entered'[t] = entered[t]
    BY <1>2, <1>9, <1>1 DEF TimelineTypes, TimelineShape
  <2>2. \A n \in Mover : Announces(n, t)' <=> Announces(n, t)
    BY <1>2, <1>3, <1>4, <1>5, <1>6, <1>9
  <2>3. \A n \in Mover : Announces(n, t)' /\ mover'[n].pc = "inserting" =>
           mover[n].pc = "inserting" /\ mover'[n].nth = mover[n].nth
    BY <1>2
  <2> HIDE DEF s, first
  <2> QED BY <1>7, <1>8, <2>1, <2>2, <2>3, KeepsAnnounced
<1>10. CASE t = s /\ first
  <2>1. ~Unrecorded(m, s)
    BY <1>2, <1>10
  <2>2. \A n \in Mover : n # m => ~Announces(n, t)
    BY <1>10, <2>1 DEF Unrecorded, Announces
  <2>3. \A n \in Mover : Announces(n, t)' <=> n = m
    BY <1>3, <1>4, <1>10, <2>2
  <2>4. \A n \in Mover : ~Announces(n, t)
    BY <1>5, <1>10, <2>2
  <2>5. entered[t] = Cardinality(EventsOf(t)) /\ entered'[t] = entered[t] + 1
    BY <1>2, <1>7, <1>10, <2>4, <1>1, EventsAreFinite DEF AnnouncedAt, TimelineTypes, TimelineShape
  <2>6. \A e \in EventsOf(t)' : e.nth < Cardinality(EventsOf(t))'
    BY <1>7, <1>8 DEF AnnouncedAt
  <2> HIDE DEF s, first
  <2>7. entered'[t] = Cardinality(EventsOf(t))' + (IF \E n \in Mover : Announces(n, t)' THEN 1 ELSE 0)
    BY <1>8, <2>3, <2>5
  <2> QED BY <1>2, <2>3, <2>6, <2>7 DEF AnnouncedAt
<1> QED BY <1>9, <1>10

LEMMA CancelsBookingAnnounces ==
  ASSUME TimelineTypes, EntriesAreAnnounced, NEW m \in Mover, CancelsBooking(m)
  PROVE  EntriesAreAnnounced'
<1> SUFFICES ASSUME NEW t \in Status, astray'[t] \cap {"shared", "lost"} = {} PROVE AnnouncedAt(t)'
  BY DEF EntriesAreAnnounced
<1>1. /\ mover[m].pc = "idle" /\ mover'[m].pc = "counting"
      /\ mover'[m].to = Cancelled /\ mover'[m].moved
      /\ entered[Cancelled] = 0 /\ entered'[Cancelled] = 1
      /\ \A u \in Status : u # Cancelled => entered'[u] = entered[u]
      /\ \A n \in Mover : n # m => mover'[n] = mover[n]
      /\ UNCHANGED <<timeline, astray>>
  BY CancelsBookingEffect
<1>2. AnnouncedAt(t)
  BY <1>1 DEF EntriesAreAnnounced
<1>3. EventsOf(t)' = EventsOf(t) /\ Cardinality(EventsOf(t))' = Cardinality(EventsOf(t))
  BY <1>1 DEF EventsOf
<1>4. \A n \in Mover : n # m => (Announces(n, t)' <=> Announces(n, t))
  BY <1>1 DEF Announces
<1>5. ~Announces(m, t)
  BY <1>1 DEF Announces
<1>6. CASE t # Cancelled
  <2>1. ~Announces(m, t)'
    BY <1>1, <1>6 DEF Announces
  <2>2. \A n \in Mover : Announces(n, t)' <=> Announces(n, t)
    BY <1>4, <1>5, <2>1
  <2> QED BY <1>1, <1>2, <1>3, <1>6, <2>2, KeepsAnnounced
<1>7. CASE t = Cancelled
  <2>1. Cardinality(EventsOf(t)) = 0 /\ \A n \in Mover : ~Announces(n, t)
    BY <1>1, <1>2, <1>7, EventsAreFinite DEF AnnouncedAt, TimelineTypes
  <2>2. \A n \in Mover : Announces(n, t)' <=> n = m
    BY <1>1, <1>4, <1>7, <2>1 DEF Announces
  <2>3. \A e \in EventsOf(t)' : e.nth < Cardinality(EventsOf(t))'
    BY <1>2, <1>3 DEF AnnouncedAt
  <2>4. entered'[t] = Cardinality(EventsOf(t))' + (IF \E n \in Mover : Announces(n, t)' THEN 1 ELSE 0)
    BY <1>1, <1>3, <1>7, <2>1, <2>2
  <2> QED BY <1>1, <2>2, <2>3, <2>4 DEF AnnouncedAt
<1> QED BY <1>6, <1>7

LEMMA CountsEventsAnnounces ==
  ASSUME TimelineTypes, EntriesAreAnnounced, NEW m \in Mover, CountsEvents(m)
  PROVE  EntriesAreAnnounced'
<1> SUFFICES ASSUME NEW t \in Status, astray'[t] \cap {"shared", "lost"} = {} PROVE AnnouncedAt(t)'
  BY DEF EntriesAreAnnounced
<1>1. /\ mover[m].pc = "counting" /\ mover'[m].pc = "inserting"
      /\ mover'[m].to = mover[m].to /\ mover'[m].moved = mover[m].moved
      /\ mover'[m].nth = Cardinality(EventsOf(mover[m].to))
      /\ \A n \in Mover : n # m => mover'[n] = mover[n]
      /\ UNCHANGED <<timeline, entered, astray>>
  BY CountsEventsEffect
<1>2. AnnouncedAt(t)
  BY <1>1 DEF EntriesAreAnnounced
<1>3. EventsOf(t)' = EventsOf(t) /\ Cardinality(EventsOf(t))' = Cardinality(EventsOf(t))
  BY <1>1 DEF EventsOf
<1>4. \A n \in Mover : Announces(n, t)' <=> Announces(n, t)
  BY <1>1 DEF Announces
<1>5. \A n, o \in Mover : Announces(n, t)' /\ Announces(o, t)' => n = o
  BY <1>2, <1>4 DEF AnnouncedAt
<1>6. entered'[t] = Cardinality(EventsOf(t))' + (IF \E n \in Mover : Announces(n, t)' THEN 1 ELSE 0)
  BY <1>1, <1>2, <1>3, <1>4 DEF AnnouncedAt
<1>7. \A e \in EventsOf(t)' : e.nth < Cardinality(EventsOf(t))'
  BY <1>2, <1>3 DEF AnnouncedAt
<1>8. ASSUME NEW n \in Mover, Announces(n, t)', mover'[n].pc = "inserting"
      PROVE  mover'[n].nth = Cardinality(EventsOf(t))'
  <2>1. CASE n = m
    BY <1>1, <1>3, <1>8, <2>1 DEF Announces
  <2>2. CASE n # m
    BY <1>1, <1>2, <1>3, <1>4, <1>8, <2>2 DEF AnnouncedAt
  <2> QED BY <2>1, <2>2
<1> QED BY <1>5, <1>6, <1>7, <1>8 DEF AnnouncedAt

LEMMA InsertsEventAnnounces ==
  ASSUME TimelineTypes, EntriesAreAnnounced, NEW m \in Mover, InsertsEvent(m)
  PROVE  EntriesAreAnnounced'
<1> SUFFICES ASSUME NEW t \in Status, astray'[t] \cap {"shared", "lost"} = {} PROVE AnnouncedAt(t)'
  BY DEF EntriesAreAnnounced
<1>0. PICK s \in Status : s = mover[m].to
  BY MoverFacts DEF TimelineTypes
<1>1. /\ mover[m].pc = "inserting"
      /\ \A n \in Mover : n # m => mover'[n] = mover[n]
      /\ UNCHANGED <<entered, astray>>
  BY <1>0, InsertsEventEffect
<1>2. \/ /\ \E e \in EventsOf(s) : e.nth = mover[m].nth
         /\ mover'[m].pc = "idle" /\ UNCHANGED timeline
      \/ /\ \A u \in Status : u # s => EventsOf(u)' = EventsOf(u)
         /\ Cardinality(EventsOf(s))' = Cardinality(EventsOf(s)) + 1
         /\ \E new \in Event : EventsOf(s)' = EventsOf(s) \cup {new} /\ new.nth = mover[m].nth
         /\ mover'[m].pc \in {"idle", "mailing"}
  BY <1>0, InsertsEventEffect
<1>3. AnnouncedAt(t)
  BY <1>1 DEF EntriesAreAnnounced
<1>4. \A n \in Mover : \A u : n # m => (Announces(n, u)' <=> Announces(n, u))
  BY <1>1 DEF Announces
<1>5. \A u : ~Announces(m, u)'
  BY <1>2 DEF Announces
<1>6. Announces(m, s) /\ \A u : u # s => ~Announces(m, u)
  BY <1>0, <1>1 DEF Announces, TimelineTypes, RequestsAreWhole
<1>7. CASE t # s
  <2>1. EventsOf(t)' = EventsOf(t) /\ Cardinality(EventsOf(t))' = Cardinality(EventsOf(t))
    <3>1. EventsOf(t)' = EventsOf(t)
      BY <1>2, <1>7 DEF EventsOf
    <3> QED BY <3>1
  <2>2. \A n \in Mover : Announces(n, t)' <=> Announces(n, t)
    BY <1>4, <1>5, <1>6, <1>7
  <2>3. \A n \in Mover : Announces(n, t)' /\ mover'[n].pc = "inserting" =>
          mover[n].pc = "inserting" /\ mover'[n].nth = mover[n].nth
    BY <1>1, <1>5
  <2> QED BY <1>1, <1>3, <2>1, <2>2, <2>3, KeepsAnnounced
<1>8. CASE t = s
  <2>1. mover[m].nth = Cardinality(EventsOf(s))
    BY <1>1, <1>3, <1>6, <1>8 DEF AnnouncedAt
  <2>2. \A e \in EventsOf(s) : e.nth < Cardinality(EventsOf(s))
    BY <1>3, <1>8 DEF AnnouncedAt
  <2>3. Cardinality(EventsOf(s)) \in Nat
    BY EventsAreFinite DEF TimelineTypes
  <2>4. \A e \in EventsOf(s) : e.nth # mover[m].nth
    <3> SUFFICES ASSUME NEW e \in EventsOf(s), e.nth = Cardinality(EventsOf(s)) PROVE FALSE
      BY <2>1
    <3>1. e.nth < e.nth
      BY <2>2
    <3> QED BY <2>3, <3>1
  <2>5. /\ Cardinality(EventsOf(s))' = Cardinality(EventsOf(s)) + 1
        /\ \E new \in Event : EventsOf(s)' = EventsOf(s) \cup {new} /\ new.nth = mover[m].nth
    BY <1>2, <2>4
  <2>6. \A n \in Mover : n # m => ~Announces(n, t)
    BY <1>3, <1>6, <1>8 DEF AnnouncedAt
  <2>7. \A n \in Mover : ~Announces(n, t)'
    BY <1>4, <1>5, <2>6
  <2>8. entered[t] = Cardinality(EventsOf(t)) + 1
    BY <1>3, <1>6, <1>8 DEF AnnouncedAt
  <2>9. entered'[t] = Cardinality(EventsOf(t))' + (IF \E n \in Mover : Announces(n, t)' THEN 1 ELSE 0)
    BY <1>1, <1>8, <2>3, <2>5, <2>7, <2>8
  <2>10. \A e \in EventsOf(t)' : e.nth < Cardinality(EventsOf(t))'
    <3> SUFFICES ASSUME NEW e \in EventsOf(s)' PROVE e.nth < Cardinality(EventsOf(s)) + 1
      BY <1>8, <2>5
    <3>1. CASE e \in EventsOf(s)
      <4>1. e.nth \in Nat
        BY <3>1 DEF EventsOf, TimelineTypes, TimelineShape, Event
      <4> QED BY <2>2, <2>3, <3>1, <4>1
    <3>2. CASE e.nth = mover[m].nth
      BY <2>1, <2>3, <3>2
    <3> QED BY <2>5, <3>1, <3>2
  <2> QED BY <2>7, <2>9, <2>10 DEF AnnouncedAt
<1> QED BY <1>7, <1>8

LEMMA AnnouncedStep ==
  ASSUME TimelineTypes, EntriesAreAnnounced, TimelineNext
  PROVE  EntriesAreAnnounced'
<1> PICK m \in Mover :
      \/ \E s \in Stage : AsksMove(m, s)
      \/ \E l \in OrderLine : VisitsRow(m, l)
      \/ CancelsBooking(m)
      \/ CountsEvents(m)
      \/ InsertsEvent(m)
      \/ EventIsLost(m)
      \/ \E outcome \in {"sent", "failed"} : SendsMail(m, outcome)
      \/ StampsEvent(m)
      \/ MailIsUnsaid(m)
      \/ ResendsMail(m)
  BY DEF TimelineNext
\* A step of a request that announces neither before nor after.
<1>0. ASSUME \A t \in Status : entered'[t] = entered[t] /\ Cardinality(EventsOf(t))' = Cardinality(EventsOf(t)),
             \A t \in Status : \A e \in EventsOf(t)' : \E f \in EventsOf(t) : f.nth = e.nth,
             \A t \in Status : astray[t] \cap {"shared", "lost"} \subseteq astray'[t],
             \A n \in Mover : n # m => mover'[n] = mover[n],
             \A t : ~Announces(m, t) /\ ~Announces(m, t)'
      PROVE  EntriesAreAnnounced'
  <2> SUFFICES ASSUME NEW t \in Status, astray'[t] \cap {"shared", "lost"} = {} PROVE AnnouncedAt(t)'
    BY DEF EntriesAreAnnounced
  <2>1. AnnouncedAt(t)
    BY <1>0 DEF EntriesAreAnnounced
  <2>2. \A n \in Mover : Announces(n, t)' <=> Announces(n, t)
    BY <1>0 DEF Announces
  <2>3. \A n \in Mover : Announces(n, t)' /\ mover'[n].pc = "inserting" =>
          mover[n].pc = "inserting" /\ mover'[n].nth = mover[n].nth
    BY <1>0
  <2> QED BY <1>0, <2>1, <2>2, <2>3, KeepsAnnounced
<1>1. ASSUME NEW s \in Stage, AsksMove(m, s) PROVE EntriesAreAnnounced'
  <2>1. /\ mover[m].pc = "idle" /\ mover'[m].pc = "moving" /\ ~mover'[m].moved
        /\ \A n \in Mover : n # m => mover'[n] = mover[n]
        /\ UNCHANGED <<timeline, entered, astray>>
    BY <1>1, AsksMoveEffect
  <2>2. \A t : EventsOf(t)' = EventsOf(t) /\ ~Announces(m, t) /\ ~Announces(m, t)'
    BY <2>1 DEF EventsOf, Announces
  <2>3. \A t : Cardinality(EventsOf(t))' = Cardinality(EventsOf(t))
    BY <2>2
  <2> QED BY <1>0, <2>1, <2>2, <2>3
<1>2. ASSUME EventIsLost(m) PROVE EntriesAreAnnounced'
  <2> SUFFICES ASSUME NEW t \in Status, astray'[t] \cap {"shared", "lost"} = {} PROVE AnnouncedAt(t)'
    BY DEF EntriesAreAnnounced
  <2>1. /\ mover[m].pc \in {"moving", "counting", "inserting"} /\ mover'[m].pc = "idle"
        /\ astray'[mover[m].to] = astray[mover[m].to] \cup {"lost"}
        /\ \A u \in Status : u # mover[m].to => astray'[u] = astray[u]
        /\ \A n \in Mover : n # m => mover'[n] = mover[n]
        /\ UNCHANGED <<timeline, entered>>
    BY <1>2, EventIsLostEffect
  <2>2. t # mover[m].to
    BY <2>1
  <2>3. AnnouncedAt(t)
    BY <2>1, <2>2 DEF EntriesAreAnnounced
  <2>4. EventsOf(t)' = EventsOf(t) /\ Cardinality(EventsOf(t))' = Cardinality(EventsOf(t))
    BY <2>1 DEF EventsOf
  <2>5. ~Announces(m, t) /\ ~Announces(m, t)'
    BY <2>1, <2>2 DEF Announces
  <2>6. \A n \in Mover : Announces(n, t)' <=> Announces(n, t)
    BY <2>1, <2>5 DEF Announces
  <2>7. \A n \in Mover : Announces(n, t)' /\ mover'[n].pc = "inserting" =>
          mover[n].pc = "inserting" /\ mover'[n].nth = mover[n].nth
    BY <2>1
  <2> QED BY <2>1, <2>3, <2>4, <2>6, <2>7, KeepsAnnounced
<1>3. ASSUME NEW outcome \in {"sent", "failed"}, SendsMail(m, outcome) PROVE EntriesAreAnnounced'
  <2>0. PICK s \in Status : s = mover[m].to
    BY MoverFacts DEF TimelineTypes
  <2>1. /\ mover[m].pc = "mailing" /\ mover'[m].pc = "stamping"
        /\ \A n \in Mover : n # m => mover'[n] = mover[n]
        /\ UNCHANGED <<entered, astray>>
        /\ \A t : Cardinality(EventsOf(t))' = Cardinality(EventsOf(t))
        /\ \A t : \A e \in EventsOf(t)' : \E f \in EventsOf(t) : f.nth = e.nth
    BY <1>3, <2>0, SendsMailEffect
  <2>2. \A t : ~Announces(m, t) /\ ~Announces(m, t)'
    BY <2>1 DEF Announces
  <2> QED BY <1>0, <2>1, <2>2
<1>4. ASSUME StampsEvent(m) PROVE EntriesAreAnnounced'
  <2>0. PICK s \in Status : s = mover[m].to
    BY MoverFacts DEF TimelineTypes
  <2>1. /\ mover[m].pc = "stamping" /\ mover'[m].pc = "idle"
        /\ \A n \in Mover : n # m => mover'[n] = mover[n]
        /\ UNCHANGED <<entered, astray>>
        /\ \A t : Cardinality(EventsOf(t))' = Cardinality(EventsOf(t))
        /\ \A t : \A e \in EventsOf(t)' : \E f \in EventsOf(t) : f.nth = e.nth
    BY <1>4, <2>0, StampsEventEffect
  <2>2. \A t : ~Announces(m, t) /\ ~Announces(m, t)'
    BY <2>1 DEF Announces
  <2> QED BY <1>0, <2>1, <2>2
<1>5. ASSUME MailIsUnsaid(m) PROVE EntriesAreAnnounced'
  <2>1. /\ mover[m].pc \in {"mailing", "stamping"} /\ mover'[m].pc = "idle"
        /\ mover[m].to \in Status
        /\ astray'[mover[m].to] = astray[mover[m].to] \cup {"unsaid"}
        /\ \A u \in Status : u # mover[m].to => astray'[u] = astray[u]
        /\ \A n \in Mover : n # m => mover'[n] = mover[n]
        /\ UNCHANGED <<timeline, entered>>
    BY <1>5, MailIsUnsaidEffect
  <2>2. \A t : EventsOf(t)' = EventsOf(t) /\ ~Announces(m, t) /\ ~Announces(m, t)'
    BY <2>1 DEF EventsOf, Announces
  <2>3. \A t : Cardinality(EventsOf(t))' = Cardinality(EventsOf(t))
    BY <2>2
  <2>4. \A t \in Status : astray[t] \cap {"shared", "lost"} \subseteq astray'[t]
    BY <2>1
  <2> QED BY <1>0, <2>1, <2>2, <2>3, <2>4
<1>6. ASSUME ResendsMail(m) PROVE EntriesAreAnnounced'
  <2>1. /\ mover[m].pc = "idle" /\ mover'[m].pc = "mailing"
        /\ \A n \in Mover : n # m => mover'[n] = mover[n]
        /\ UNCHANGED <<timeline, entered>>
        /\ \A t \in Status : astray[t] \subseteq astray'[t]
    BY <1>6, ResendsMailEffect
  <2>2. \A t : EventsOf(t)' = EventsOf(t) /\ ~Announces(m, t) /\ ~Announces(m, t)'
    BY <2>1 DEF EventsOf, Announces
  <2>3. \A t : Cardinality(EventsOf(t))' = Cardinality(EventsOf(t))
    BY <2>2
  <2> QED BY <1>0, <2>1, <2>2, <2>3
<1> QED
  BY <1>1, <1>2, <1>3, <1>4, <1>5, <1>6, VisitsRowAnnounces, CancelsBookingAnnounces,
     CountsEventsAnnounces, InsertsEventAnnounces

-----------------------------------------------------------------------------
\* Mails are true.

\* A step that leaves the events alone and whose request mails neither before nor after.
LEMMA NotAboutMail ==
  ASSUME MailsAreTrue, NEW m \in Mover,
         UNCHANGED timeline,
         \A t \in Status : astray[t] \cap {"again", "unsaid"} \subseteq astray'[t],
         \A n \in Mover : n # m => mover'[n] = mover[n],
         mover[m].pc \notin {"mailing", "stamping"},
         mover'[m].pc \notin {"mailing", "stamping"}
  PROVE  MailsAreTrue'
<1> SUFFICES ASSUME NEW t \in Status, astray'[t] \cap {"again", "unsaid"} = {} PROVE MailedAt(t)'
  BY DEF MailsAreTrue
<1>1. MailedAt(t)
  BY DEF MailsAreTrue
<1>2. EventsOf(t)' = EventsOf(t)
  BY DEF EventsOf
<1>3. ~Mails(m, t) /\ ~Mails(m, t)'
  BY DEF Mails
<1>4. \A n \in Mover : Mails(n, t)' <=> Mails(n, t)
  BY <1>3 DEF Mails
<1>5. \A n \in Mover : Mails(n, t) =>
        /\ mover'[n].pc = mover[n].pc /\ mover'[n].nth = mover[n].nth
        /\ mover'[n].outcome = mover[n].outcome
  BY <1>3
<1> QED BY <1>1, <1>2, <1>4, <1>5, KeepsMailed

\* A request at another stage does not touch the mails at s.
LEMMA OtherStage ==
  ASSUME NEW m \in Mover, NEW t \in Status, MailedAt(t), EventsOf(t)' = EventsOf(t),
         \A n \in Mover : n # m => mover'[n] = mover[n],
         ~Mails(m, t), ~Mails(m, t)'
  PROVE  MailedAt(t)'
<1>1. \A n \in Mover : Mails(n, t)' <=> Mails(n, t)
  BY DEF Mails
<1>2. \A n \in Mover : Mails(n, t) =>
        /\ mover'[n].pc = mover[n].pc /\ mover'[n].nth = mover[n].nth
        /\ mover'[n].outcome = mover[n].outcome
  OBVIOUS
<1> QED BY <1>1, <1>2, KeepsMailed

\* Who mails at s mails about one of its events, and nobody about a cancelled booking.
LEMMA MailsAboutEvents ==
  ASSUME TimelineTypes, NEW n \in Mover, NEW s \in Status, Mails(n, s)
  PROVE  s # Cancelled /\ \E e \in EventsOf(s) : e.nth = mover[n].nth
BY DEF TimelineTypes, RequestsAreWhole, Mails, EventsOf

LEMMA InsertsEventMails ==
  ASSUME TimelineTypes, MailsAreTrue, NEW m \in Mover, InsertsEvent(m)
  PROVE  MailsAreTrue'
<1> SUFFICES ASSUME NEW t \in Status, astray'[t] \cap {"again", "unsaid"} = {} PROVE MailedAt(t)'
  BY DEF MailsAreTrue
<1>0. PICK s \in Status : s = mover[m].to
  BY MoverFacts DEF TimelineTypes
<1>1. /\ mover[m].pc = "inserting"
      /\ \A n \in Mover : n # m => mover'[n] = mover[n]
      /\ UNCHANGED <<entered, astray>>
  BY <1>0, InsertsEventEffect
<1>2. MailedAt(t)
  BY <1>1 DEF MailsAreTrue
<1>3. \A u : ~Mails(m, u)
  BY <1>1 DEF Mails
<1>4. \A n \in Mover : \A u : n # m => (Mails(n, u)' <=> Mails(n, u))
  BY <1>1 DEF Mails
<1>5. CASE mover'[m].pc = "idle" /\ UNCHANGED timeline
  <2>1. ~Mails(m, t)' /\ EventsOf(t)' = EventsOf(t)
    BY <1>5 DEF Mails, EventsOf
  <2> QED BY <1>1, <1>2, <1>3, <2>1, OtherStage
<1>6. CASE /\ \A e \in EventsOf(s) : e.nth # mover[m].nth
           /\ \A u \in Status : u # s => EventsOf(u)' = EventsOf(u)
           /\ \E new \in Event :
                /\ EventsOf(s)' = EventsOf(s) \cup {new}
                /\ new.nth = mover[m].nth /\ new.sent = 0 /\ new.mail # "sent"
           /\ IF s = Cancelled THEN mover'[m].pc = "idle"
              ELSE mover'[m].pc = "mailing" /\ mover'[m].to = s
                   /\ mover'[m].nth = mover[m].nth
  <2>1. CASE t # s
    <3>1. ~Mails(m, t)'
      BY <1>6, <2>1 DEF Mails
    <3> QED BY <1>1, <1>2, <1>3, <1>6, <2>1, <3>1, OtherStage
  <2>2. CASE t = s
    <3>1. PICK new \in Event :
             /\ EventsOf(s)' = EventsOf(s) \cup {new}
             /\ new.nth = mover[m].nth /\ new.sent = 0 /\ new.mail # "sent"
      BY <1>6
    <3>2. \A n \in Mover : Mails(n, s) => mover[n].nth # mover[m].nth
      BY <1>6, MailsAboutEvents
    <3>3. Mails(m, s)' <=> s # Cancelled
      BY <1>6 DEF Mails
    <3>4. Mails(m, s)' => mover'[m].nth = mover[m].nth /\ mover'[m].pc = "mailing"
      BY <1>6, <3>3
    <3>5. \A n, o \in Mover :
             Mails(n, s)' /\ Mails(o, s)' /\ mover'[n].nth = mover'[o].nth => n = o
      BY <1>1, <1>2, <1>4, <2>2, <3>2, <3>4 DEF MailedAt
    <3>6. ASSUME NEW e \in EventsOf(s)'
          PROVE  /\ e.sent <= 1
                 /\ s # Cancelled /\ (\A n \in Mover : Mails(n, s)' => mover'[n].nth # e.nth) =>
                      (e.mail = "sent" <=> e.sent = 1)
                 /\ \A n \in Mover : Mails(n, s)' /\ mover'[n].nth = e.nth =>
                      IF mover'[n].pc = "mailing" THEN e.sent = 0
                                                  ELSE mover'[n].outcome = "sent" <=> e.sent = 1
      <4>1. CASE e = new
        <5>1. \A n \in Mover : Mails(n, s)' /\ mover'[n].nth = e.nth => n = m
          BY <1>1, <1>4, <3>1, <3>2, <4>1
        <5>2. e.sent = 0 /\ e.mail # "sent"
          BY <3>1, <4>1
        <5> QED BY <3>4, <5>1, <5>2
      <4>2. CASE e \in EventsOf(s)
        <5>1. e.nth # mover[m].nth
          BY <1>6, <4>2
        <5>2. \A n \in Mover : Mails(n, s)' /\ mover'[n].nth = e.nth => n # m
          BY <3>4, <5>1
        <5>3. (\A n \in Mover : Mails(n, s)' => mover'[n].nth # e.nth) =>
                 \A n \in Mover : Mails(n, s) => mover[n].nth # e.nth
          BY <1>1, <1>3, <1>4
        <5>4. /\ e.sent <= 1
              /\ s # Cancelled /\ (\A n \in Mover : Mails(n, s) => mover[n].nth # e.nth) =>
                   (e.mail = "sent" <=> e.sent = 1)
              /\ \A n \in Mover : Mails(n, s) /\ mover[n].nth = e.nth =>
                   IF mover[n].pc = "mailing" THEN e.sent = 0
                                              ELSE mover[n].outcome = "sent" <=> e.sent = 1
          BY <1>2, <2>2, <4>2 DEF MailedAt
        <5> QED BY <1>1, <1>4, <5>2, <5>3, <5>4
      <4> QED BY <3>1, <4>1, <4>2
    <3>7. MailedAt(s)'
      BY <3>5, <3>6 DEF MailedAt
    <3> QED BY <2>2, <3>7
  <2> QED BY <2>1, <2>2
<1>7. \/ mover'[m].pc = "idle" /\ UNCHANGED timeline
      \/ /\ \A e \in EventsOf(s) : e.nth # mover[m].nth
         /\ \A u \in Status : u # s => EventsOf(u)' = EventsOf(u)
         /\ \E new \in Event :
              /\ EventsOf(s)' = EventsOf(s) \cup {new}
              /\ new.nth = mover[m].nth /\ new.sent = 0 /\ new.mail # "sent"
         /\ IF s = Cancelled THEN mover'[m].pc = "idle"
            ELSE mover'[m].pc = "mailing" /\ mover'[m].to = s
                 /\ mover'[m].nth = mover[m].nth
  BY <1>0, InsertsEventEffect
<1> QED BY <1>5, <1>6, <1>7

LEMMA SendsMailMails ==
  ASSUME TimelineTypes, MailsAreTrue, NEW m \in Mover, NEW outcome \in {"sent", "failed"},
         SendsMail(m, outcome)
  PROVE  MailsAreTrue'
<1> SUFFICES ASSUME NEW t \in Status, astray'[t] \cap {"again", "unsaid"} = {} PROVE MailedAt(t)'
  BY DEF MailsAreTrue
<1>0. PICK s \in Status : s = mover[m].to
  BY MoverFacts DEF TimelineTypes
<1>1. /\ mover[m].pc = "mailing" /\ mover'[m].pc = "stamping" /\ mover'[m].outcome = outcome
      /\ mover'[m].to = mover[m].to /\ mover'[m].nth = mover[m].nth
      /\ \A n \in Mover : n # m => mover'[n] = mover[n]
      /\ UNCHANGED <<entered, astray>>
      /\ \A u : u # s => EventsOf(u)' = EventsOf(u)
  BY <1>0, SendsMailEffect
<1>2. PICK e \in EventsOf(s), f \in EventsOf(s)' :
         /\ e.nth = mover[m].nth /\ f.nth = e.nth
         /\ f.sent = e.sent + (IF outcome = "sent" THEN 1 ELSE 0)
         /\ \A g \in EventsOf(s)' : g = f \/ (g \in EventsOf(s) /\ g.nth # f.nth)
  BY <1>0, SendsMailEffect
<1>3. MailedAt(t)
  BY <1>1 DEF MailsAreTrue
<1>4. CASE t # s
  <2>1. ~Mails(m, t) /\ ~Mails(m, t)'
    BY <1>0, <1>1, <1>4 DEF Mails
  <2> QED BY <1>1, <1>3, <1>4, <2>1, OtherStage
<1>5. CASE t = s
  <2>1. \A n \in Mover : Mails(n, s)' <=> Mails(n, s)
    BY <1>1 DEF Mails
  <2>2. \A n \in Mover : mover'[n].nth = mover[n].nth
    BY <1>1
  <2>3. Mails(m, s)
    BY <1>0, <1>1 DEF Mails
  <2>4. \A n, o \in Mover :
           Mails(n, s)' /\ Mails(o, s)' /\ mover'[n].nth = mover'[o].nth => n = o
    BY <1>3, <1>5, <2>1, <2>2 DEF MailedAt
  <2>5. e.sent = 0 /\ s # Cancelled
    BY <1>1, <1>2, <1>3, <1>5, <2>3, MailsAboutEvents DEF MailedAt
  <2>6. ASSUME NEW g \in EventsOf(s)'
        PROVE  /\ g.sent <= 1
               /\ s # Cancelled /\ (\A n \in Mover : Mails(n, s)' => mover'[n].nth # g.nth) =>
                    (g.mail = "sent" <=> g.sent = 1)
               /\ \A n \in Mover : Mails(n, s)' /\ mover'[n].nth = g.nth =>
                    IF mover'[n].pc = "mailing" THEN g.sent = 0
                                                ELSE mover'[n].outcome = "sent" <=> g.sent = 1
    <3>1. CASE g = f
      <4>1. \A n \in Mover : Mails(n, s)' /\ mover'[n].nth = g.nth => n = m
        BY <1>2, <1>3, <1>5, <2>1, <2>2, <2>3, <3>1 DEF MailedAt
      <4>2. Mails(m, s)' /\ mover'[m].nth = g.nth
        BY <1>2, <2>1, <2>2, <2>3, <3>1
      <4>3. g.sent = IF outcome = "sent" THEN 1 ELSE 0
        BY <1>2, <2>5, <3>1
      <4> QED BY <1>1, <4>1, <4>2, <4>3
    <3>2. CASE g \in EventsOf(s) /\ g.nth # f.nth
      <4>1. \A n \in Mover : Mails(n, s)' /\ mover'[n].nth = g.nth => n # m
        BY <1>2, <2>2, <3>2
      <4>2. (\A n \in Mover : Mails(n, s)' => mover'[n].nth # g.nth) =>
               \A n \in Mover : Mails(n, s) => mover[n].nth # g.nth
        BY <2>1, <2>2
      <4>3. /\ g.sent <= 1
            /\ s # Cancelled /\ (\A n \in Mover : Mails(n, s) => mover[n].nth # g.nth) =>
                 (g.mail = "sent" <=> g.sent = 1)
            /\ \A n \in Mover : Mails(n, s) /\ mover[n].nth = g.nth =>
                 IF mover[n].pc = "mailing" THEN g.sent = 0
                                            ELSE mover[n].outcome = "sent" <=> g.sent = 1
        BY <1>3, <1>5, <3>2 DEF MailedAt
      <4> QED BY <1>1, <2>1, <2>2, <4>1, <4>2, <4>3
    <3> QED BY <1>2, <3>1, <3>2
  <2>7. MailedAt(s)'
    BY <2>4, <2>6 DEF MailedAt
  <2> QED BY <1>5, <2>7
<1> QED BY <1>4, <1>5

LEMMA StampsEventMails ==
  ASSUME TimelineTypes, MailsAreTrue, NEW m \in Mover, StampsEvent(m)
  PROVE  MailsAreTrue'
<1> SUFFICES ASSUME NEW t \in Status, astray'[t] \cap {"again", "unsaid"} = {} PROVE MailedAt(t)'
  BY DEF MailsAreTrue
<1>0. PICK s \in Status : s = mover[m].to
  BY MoverFacts DEF TimelineTypes
<1>1. /\ mover[m].pc = "stamping" /\ mover'[m].pc = "idle"
      /\ \A n \in Mover : n # m => mover'[n] = mover[n]
      /\ UNCHANGED <<entered, astray>>
      /\ \A u : u # s => EventsOf(u)' = EventsOf(u)
  BY <1>0, StampsEventEffect
<1>2. PICK e \in EventsOf(s), f \in EventsOf(s)' :
         /\ e.nth = mover[m].nth /\ f.nth = e.nth
         /\ f.sent = e.sent /\ f.mail = mover[m].outcome
         /\ \A g \in EventsOf(s)' : g = f \/ (g \in EventsOf(s) /\ g.nth # f.nth)
  BY <1>0, StampsEventEffect
<1>3. MailedAt(t)
  BY <1>1 DEF MailsAreTrue
<1>4. \A u : ~Mails(m, u)'
  BY <1>1 DEF Mails
<1>5. CASE t # s
  <2>1. ~Mails(m, t)
    BY <1>0, <1>5 DEF Mails
  <2> QED BY <1>1, <1>3, <1>4, <1>5, <2>1, OtherStage
<1>6. CASE t = s
  <2>1. Mails(m, s)
    BY <1>0, <1>1 DEF Mails
  <2>2. \A n \in Mover : Mails(n, s)' => n # m /\ Mails(n, s) /\ mover'[n] = mover[n]
    BY <1>1, <1>4 DEF Mails
  <2>3. \A n \in Mover : Mails(n, s) /\ n # m => Mails(n, s)' /\ mover'[n] = mover[n]
    BY <1>1 DEF Mails
  <2>4. \A n, o \in Mover :
           Mails(n, s)' /\ Mails(o, s)' /\ mover'[n].nth = mover'[o].nth => n = o
    BY <1>3, <1>6, <2>2 DEF MailedAt
  <2>5. e.sent <= 1 /\ (mover[m].outcome = "sent" <=> e.sent = 1)
    BY <1>1, <1>2, <1>3, <1>6, <2>1 DEF MailedAt
  <2>6. ASSUME NEW g \in EventsOf(s)'
        PROVE  /\ g.sent <= 1
               /\ s # Cancelled /\ (\A n \in Mover : Mails(n, s)' => mover'[n].nth # g.nth) =>
                    (g.mail = "sent" <=> g.sent = 1)
               /\ \A n \in Mover : Mails(n, s)' /\ mover'[n].nth = g.nth =>
                    IF mover'[n].pc = "mailing" THEN g.sent = 0
                                                ELSE mover'[n].outcome = "sent" <=> g.sent = 1
    <3>1. CASE g = f
      <4>1. \A n \in Mover : ~(Mails(n, s)' /\ mover'[n].nth = g.nth)
        BY <1>2, <1>3, <1>6, <2>1, <2>2, <3>1 DEF MailedAt
      <4> QED BY <1>2, <2>5, <3>1, <4>1
    <3>2. CASE g \in EventsOf(s) /\ g.nth # f.nth
      <4>1. (\A n \in Mover : Mails(n, s)' => mover'[n].nth # g.nth) =>
               \A n \in Mover : Mails(n, s) => mover[n].nth # g.nth
        BY <1>2, <2>3, <3>2
      <4>2. /\ g.sent <= 1
            /\ s # Cancelled /\ (\A n \in Mover : Mails(n, s) => mover[n].nth # g.nth) =>
                 (g.mail = "sent" <=> g.sent = 1)
            /\ \A n \in Mover : Mails(n, s) /\ mover[n].nth = g.nth =>
                 IF mover[n].pc = "mailing" THEN g.sent = 0
                                            ELSE mover[n].outcome = "sent" <=> g.sent = 1
        BY <1>3, <1>6, <3>2 DEF MailedAt
      <4> QED BY <2>2, <4>1, <4>2
    <3> QED BY <1>2, <3>1, <3>2
  <2>7. MailedAt(s)'
    BY <2>4, <2>6 DEF MailedAt
  <2> QED BY <1>6, <2>7
<1> QED BY <1>5, <1>6

LEMMA ResendsMailMails ==
  ASSUME TimelineTypes, MailsAreTrue, NEW m \in Mover, ResendsMail(m)
  PROVE  MailsAreTrue'
<1> SUFFICES ASSUME NEW t \in Status, astray'[t] \cap {"again", "unsaid"} = {} PROVE MailedAt(t)'
  BY DEF MailsAreTrue
<1> DEFINE s == mover'[m].to
<1>1. /\ mover[m].pc = "idle" /\ mover'[m].pc = "mailing"
      /\ s \in Status /\ s # Cancelled
      /\ \A n \in Mover : n # m => mover'[n] = mover[n]
      /\ UNCHANGED <<timeline, entered>>
      /\ \A u \in Status : astray[u] \subseteq astray'[u]
  BY ResendsMailEffect
<1>2. PICK e \in EventsOf(s) :
         /\ e.nth = mover'[m].nth /\ e.mail # "sent"
         /\ (\E n \in Mover : Mails(n, s) /\ mover[n].nth = e.nth) => "again" \in astray'[s]
  BY ResendsMailEffect
<1>3. MailedAt(t)
  BY <1>1 DEF MailsAreTrue
<1>4. \A u : ~Mails(m, u)
  BY <1>1 DEF Mails
<1>5. EventsOf(t)' = EventsOf(t)
  BY <1>1 DEF EventsOf
<1>6. Mails(m, t)' <=> t = s
  BY <1>1 DEF Mails
<1> HIDE DEF s
<1>7. CASE t # s
  BY <1>1, <1>3, <1>4, <1>5, <1>6, <1>7, OtherStage
<1>8. CASE t = s
  <2>1. \A n \in Mover : Mails(n, t) => mover[n].nth # e.nth
    BY <1>2, <1>8
  <2>2. \A n \in Mover : n # m => (Mails(n, t)' <=> Mails(n, t)) /\ mover'[n] = mover[n]
    BY <1>1 DEF Mails
  <2>3. \A n, o \in Mover :
           Mails(n, t)' /\ Mails(o, t)' /\ mover'[n].nth = mover'[o].nth => n = o
    BY <1>2, <1>3, <2>1, <2>2 DEF MailedAt
  <2>4. e \in EventsOf(t) /\ e.sent = 0
    <3>1. e.sent <= 1 /\ (e.mail = "sent" <=> e.sent = 1)
      BY <1>1, <1>3, <1>8, <2>1 DEF MailedAt
    <3>2. e.sent \in Nat
      BY DEF EventsOf, TimelineTypes, TimelineShape, Event
    <3> QED BY <1>2, <1>8, <3>1, <3>2
  <2>5. ASSUME NEW g \in EventsOf(t)
        PROVE  /\ g.sent <= 1
               /\ t # Cancelled /\ (\A n \in Mover : Mails(n, t)' => mover'[n].nth # g.nth) =>
                    (g.mail = "sent" <=> g.sent = 1)
               /\ \A n \in Mover : Mails(n, t)' /\ mover'[n].nth = g.nth =>
                    IF mover'[n].pc = "mailing" THEN g.sent = 0
                                                ELSE mover'[n].outcome = "sent" <=> g.sent = 1
    <3>1. /\ g.sent <= 1
          /\ t # Cancelled /\ (\A n \in Mover : Mails(n, t) => mover[n].nth # g.nth) =>
               (g.mail = "sent" <=> g.sent = 1)
          /\ \A n \in Mover : Mails(n, t) /\ mover[n].nth = g.nth =>
               IF mover[n].pc = "mailing" THEN g.sent = 0
                                          ELSE mover[n].outcome = "sent" <=> g.sent = 1
      BY <1>3 DEF MailedAt
    <3>2. (\A n \in Mover : Mails(n, t)' => mover'[n].nth # g.nth) =>
             \A n \in Mover : Mails(n, t) => mover[n].nth # g.nth
      BY <1>4, <2>2
    <3>3. g.nth = e.nth => g = e
      BY <2>4 DEF EventsOf, TimelineTypes, KeysAreUnique
    <3>4. ASSUME NEW n \in Mover, Mails(n, t)', mover'[n].nth = g.nth
          PROVE  IF mover'[n].pc = "mailing" THEN g.sent = 0
                                             ELSE mover'[n].outcome = "sent" <=> g.sent = 1
      <4>1. CASE n = m
        BY <1>1, <1>2, <2>4, <3>3, <3>4, <4>1
      <4>2. CASE n # m
        BY <2>2, <3>1, <3>4, <4>2
      <4> QED BY <4>1, <4>2
    <3> QED BY <3>1, <3>2, <3>4
  <2> QED BY <1>5, <2>3, <2>5 DEF MailedAt
<1> QED BY <1>7, <1>8

LEMMA MailedStep ==
  ASSUME TimelineTypes, MailsAreTrue, TimelineNext
  PROVE  MailsAreTrue'
<1> PICK m \in Mover :
      \/ \E s \in Stage : AsksMove(m, s)
      \/ \E l \in OrderLine : VisitsRow(m, l)
      \/ CancelsBooking(m)
      \/ CountsEvents(m)
      \/ InsertsEvent(m)
      \/ EventIsLost(m)
      \/ \E outcome \in {"sent", "failed"} : SendsMail(m, outcome)
      \/ StampsEvent(m)
      \/ MailIsUnsaid(m)
      \/ ResendsMail(m)
  BY DEF TimelineNext
<1>1. ASSUME NEW s \in Stage, AsksMove(m, s) PROVE MailsAreTrue'
  <2>1. /\ mover[m].pc = "idle" /\ mover'[m].pc = "moving"
        /\ \A n \in Mover : n # m => mover'[n] = mover[n]
        /\ UNCHANGED <<timeline, entered, astray>>
    BY <1>1, AsksMoveEffect
  <2> QED BY <2>1, NotAboutMail
<1>2. ASSUME NEW l \in OrderLine, VisitsRow(m, l) PROVE MailsAreTrue'
  <2>0. PICK s \in Status : s = mover[m].to
    BY MoverFacts DEF TimelineTypes
  <2>1. /\ mover[m].pc = "moving" /\ mover'[m].pc \in {"moving", "counting", "idle"}
        /\ astray[s] \subseteq astray'[s]
        /\ \A t \in Status : t # s => astray'[t] = astray[t]
        /\ \A n \in Mover : n # m => mover'[n] = mover[n]
        /\ UNCHANGED timeline
    BY <1>2, <2>0, VisitsRowEffect
  <2>2. \A t \in Status : astray[t] \cap {"again", "unsaid"} \subseteq astray'[t]
    BY <2>1
  <2> QED BY <2>1, <2>2, NotAboutMail
<1>3. ASSUME CancelsBooking(m) PROVE MailsAreTrue'
  <2>1. /\ mover[m].pc = "idle" /\ mover'[m].pc = "counting"
        /\ \A n \in Mover : n # m => mover'[n] = mover[n]
        /\ UNCHANGED <<timeline, astray>>
    BY <1>3, CancelsBookingEffect
  <2> QED BY <2>1, NotAboutMail
<1>4. ASSUME CountsEvents(m) PROVE MailsAreTrue'
  <2>1. /\ mover[m].pc = "counting" /\ mover'[m].pc = "inserting"
        /\ \A n \in Mover : n # m => mover'[n] = mover[n]
        /\ UNCHANGED <<timeline, astray>>
    BY <1>4, CountsEventsEffect
  <2> QED BY <2>1, NotAboutMail
<1>5. ASSUME EventIsLost(m) PROVE MailsAreTrue'
  <2>1. /\ mover[m].pc \in {"moving", "counting", "inserting"} /\ mover'[m].pc = "idle"
        /\ astray'[mover[m].to] = astray[mover[m].to] \cup {"lost"}
        /\ \A t \in Status : t # mover[m].to => astray'[t] = astray[t]
        /\ \A n \in Mover : n # m => mover'[n] = mover[n]
        /\ UNCHANGED timeline
    BY <1>5, EventIsLostEffect
  <2>2. \A t \in Status : astray[t] \cap {"again", "unsaid"} \subseteq astray'[t]
    BY <2>1
  <2> QED BY <2>1, <2>2, NotAboutMail
<1>6. ASSUME MailIsUnsaid(m) PROVE MailsAreTrue'
  <2> SUFFICES ASSUME NEW t \in Status, astray'[t] \cap {"again", "unsaid"} = {} PROVE MailedAt(t)'
    BY DEF MailsAreTrue
  <2>1. /\ mover'[m].pc = "idle"
        /\ astray'[mover[m].to] = astray[mover[m].to] \cup {"unsaid"}
        /\ \A u \in Status : u # mover[m].to => astray'[u] = astray[u]
        /\ \A n \in Mover : n # m => mover'[n] = mover[n]
        /\ UNCHANGED timeline
    BY <1>6, MailIsUnsaidEffect
  <2>2. t # mover[m].to
    BY <2>1
  <2>3. MailedAt(t)
    BY <2>1, <2>2 DEF MailsAreTrue
  <2>4. ~Mails(m, t) /\ ~Mails(m, t)' /\ EventsOf(t)' = EventsOf(t)
    BY <2>1, <2>2 DEF Mails, EventsOf
  <2> QED BY <2>1, <2>3, <2>4, OtherStage
<1> QED
  BY <1>1, <1>2, <1>3, <1>4, <1>5, <1>6, InsertsEventMails, SendsMailMails, StampsEventMails,
     ResendsMailMails

-----------------------------------------------------------------------------
LEMMA TimelineTypesStep ==
  ASSUME TimelineTypes, TimelineNext
  PROVE  TimelineTypes'
<1> PICK m \in Mover :
      \/ \E s \in Stage : AsksMove(m, s)
      \/ \E l \in OrderLine : VisitsRow(m, l)
      \/ CancelsBooking(m)
      \/ CountsEvents(m)
      \/ InsertsEvent(m)
      \/ EventIsLost(m)
      \/ \E outcome \in {"sent", "failed"} : SendsMail(m, outcome)
      \/ StampsEvent(m)
      \/ MailIsUnsaid(m)
      \/ ResendsMail(m)
  BY DEF TimelineNext
<1>1. mover[m].to \in Status
  BY MoverFacts DEF TimelineTypes
<1> QED
  BY <1>1, AsksMoveEffect, VisitsRowEffect, CancelsBookingEffect, CountsEventsEffect,
     InsertsEventEffect, EventIsLostEffect, SendsMailEffect, StampsEventEffect,
     MailIsUnsaidEffect, ResendsMailEffect

LEMMA TimelineInvStep == TimelineInv /\ [TimelineNext]_timelineVars => TimelineInv'
<1> SUFFICES ASSUME TimelineInv, [TimelineNext]_timelineVars PROVE TimelineInv'
  OBVIOUS
<1>1. CASE TimelineNext
  BY <1>1, TimelineTypesStep, AnnouncedStep, MailedStep DEF TimelineInv
<1>2. CASE UNCHANGED timelineVars
  <2>1. TimelineTypes'
    BY <1>2 DEF timelineVars, TimelineInv, TimelineTypes, TimelineShape, KeysAreUnique, RequestsAreWhole
  <2>2. /\ \A t : EventsOf(t)' = EventsOf(t) /\ Cardinality(EventsOf(t))' = Cardinality(EventsOf(t))
        /\ \A n, t : Announces(n, t)' <=> Announces(n, t)
        /\ \A n, t : Mails(n, t)' <=> Mails(n, t)
        /\ UNCHANGED <<mover, entered, astray>>
    <3>1. \A t : EventsOf(t)' = EventsOf(t)
      BY <1>2 DEF timelineVars, EventsOf
    <3> QED BY <1>2, <3>1 DEF timelineVars, Announces, Mails
  <2>3. EntriesAreAnnounced'
    BY <2>2, KeepsAnnounced DEF TimelineInv, EntriesAreAnnounced
  <2>4. MailsAreTrue'
    BY <2>2, KeepsMailed DEF TimelineInv, MailsAreTrue
  <2> QED BY <2>1, <2>3, <2>4 DEF TimelineInv
<1> QED BY <1>1, <1>2

LEMMA InitTimelineInv == TimelineInit => TimelineInv
<1> SUFFICES ASSUME TimelineInit PROVE TimelineInv
  OBVIOUS
<1>1. /\ rowStage = [l \in OrderLine |-> 1] /\ timeline = {}
      /\ mover = [m \in Mover |-> NoMover] /\ asked = 0
      /\ entered = [s \in Status |-> 0] /\ astray = [s \in Status |-> {}]
  BY DEF TimelineInit
<1>2. \A m \in Mover : mover[m].pc = "idle"
  BY <1>1, NoMoverFits
<1>3. \A s : EventsOf(s) = {}
  BY <1>1 DEF EventsOf
<1>4. Cardinality({}) = 0 /\ IsFiniteSet({})
  BY FS_EmptySet
<1>5. TimelineShape
  BY <1>1, <1>4, NoMoverFits, StageFacts DEF TimelineShape
<1>6. KeysAreUnique /\ RequestsAreWhole
  BY <1>1, <1>2 DEF KeysAreUnique, RequestsAreWhole
<1>7. \A s : \A m \in Mover : ~Announces(m, s) /\ ~Mails(m, s)
  BY <1>2 DEF Announces, Mails
<1>8. \A s \in Status : AnnouncedAt(s)
  BY <1>1, <1>3, <1>4, <1>7 DEF AnnouncedAt
<1>9. \A s \in Status : MailedAt(s)
  BY <1>3, <1>7 DEF MailedAt
<1> QED BY <1>5, <1>6, <1>8, <1>9 DEF TimelineInv, TimelineTypes, EntriesAreAnnounced, MailsAreTrue

\* When nobody is at work at s, the entries are the events and the events are true.
LEMMA TimelineInvAnnounces == TimelineInv => AnnouncedOnce
<1> SUFFICES ASSUME TimelineInv, NEW s \in Status
             PROVE  /\ Settled(s) /\ astray[s] \cap {"shared", "lost"} = {} =>
                         Cardinality(EventsOf(s)) = entered[s]
                    /\ astray[s] \cap {"again", "unsaid"} = {} =>
                         \A e \in EventsOf(s) :
                           e.sent <= 1 /\ (Settled(s) /\ e.to # Cancelled => (e.mail = "sent" <=> e.sent = 1))
  BY DEF AnnouncedOnce
<1>1. Settled(s) => \A m \in Mover : ~Announces(m, s) /\ ~Mails(m, s)
  BY DEF Settled, Announces, Mails
<1>2. ASSUME Settled(s), astray[s] \cap {"shared", "lost"} = {}
      PROVE  Cardinality(EventsOf(s)) = entered[s]
  BY <1>1, <1>2, EventsAreFinite DEF TimelineInv, TimelineTypes, EntriesAreAnnounced, AnnouncedAt
<1>3. ASSUME astray[s] \cap {"again", "unsaid"} = {}, NEW e \in EventsOf(s)
      PROVE  e.sent <= 1 /\ (Settled(s) /\ e.to # Cancelled => (e.mail = "sent" <=> e.sent = 1))
  <2>1. MailedAt(s) /\ e.to = s
    BY <1>3 DEF TimelineInv, MailsAreTrue, EventsOf
  <2> QED BY <1>1, <1>3, <2>1 DEF MailedAt
<1> QED BY <1>2, <1>3

\* A stage entered is one event, and an event is mailed at most once and says whether it
\* was (the unique key, recordEvent and notifyCustomer of bookingStatus.service.js).
THEOREM AlwaysAnnouncedOnce == TimelineSpec => []AnnouncedOnce
<1>1. TimelineInit => TimelineInv
  BY InitTimelineInv
<1>2. TimelineInv /\ [TimelineNext]_timelineVars => TimelineInv'
  BY TimelineInvStep
<1>3. TimelineInv => AnnouncedOnce
  BY TimelineInvAnnounces
<1> QED BY <1>1, <1>2, <1>3, PTL DEF TimelineSpec

-----------------------------------------------------------------------------
(* The import: types.                                                      *)

USE ImportAssumption

WorkStep == Processing \cup {"none", "confirm", "cancel", "purge", "claim"}
Work == [step : WorkStep, chunk : Nat, rows : SUBSET Row, lines : Quantities,
         refused : SUBSET Row, replayed : BOOLEAN]

ImportTypes ==
  /\ jobStatus \in JobStatus
  /\ rowState \in [Row -> {"pending", "processed", "failed", "gone"}]
  /\ onHand \in [Row -> Int]
  /\ chunkBatch \in [Chunk -> Quantities]
  /\ tally \in [good : Nat, bad : Nat]
  /\ worker \in [Worker -> Work]
  /\ importMode \in Mode

\* Quantities are functions from some of the rows.
LEMMA QuantityFacts ==
  /\ NoLines \in Quantities /\ DOMAIN NoLines = {}
  /\ \A q \in Quantities : DOMAIN q \subseteq Row /\ \A r \in DOMAIN q : q[r] \in Int
  /\ \A q \in Quantities : DOMAIN q = {} => q = NoLines
<1>1. NoLines \in [{} -> Int] /\ {} \in SUBSET Row
  BY DEF NoLines
<1>2. NoLines \in Quantities /\ DOMAIN NoLines = {}
  BY <1>1 DEF Quantities, NoLines
<1>3. ASSUME NEW q \in Quantities
      PROVE  /\ DOMAIN q \subseteq Row /\ \A r \in DOMAIN q : q[r] \in Int
             /\ DOMAIN q = {} => q = NoLines
  BY <1>3 DEF Quantities, NoLines
<1> QED BY <1>2, <1>3

\* A worker that begins from nothing.
LEMMA NoWorkFits == NoWork \in Work /\ NoWork.step = "none"
BY QuantityFacts DEF NoWork, Work, WorkStep

LEMMA LeavesWork ==
  ASSUME ImportTypes, NEW w \in Worker, Leaves(w)
  PROVE  /\ worker' \in [Worker -> Work] /\ worker'[w] = NoWork
         /\ \A v \in Worker : v # w => worker'[v] = worker[v]
BY NoWorkFits DEF ImportTypes, Leaves

\* Only the step of a worker changes.
LEMMA StepsWork ==
  ASSUME ImportTypes, NEW w \in Worker, NEW step \in WorkStep, StepsTo(w, step)
  PROVE  /\ worker' \in [Worker -> Work] /\ worker'[w].step = step
         /\ worker'[w].chunk = worker[w].chunk /\ worker'[w].rows = worker[w].rows
         /\ worker'[w].lines = worker[w].lines /\ worker'[w].refused = worker[w].refused
         /\ worker'[w].replayed = worker[w].replayed
         /\ \A v \in Worker : v # w => worker'[v] = worker[v]
<1> DEFINE k == [worker[w] EXCEPT !.step = step]
<1>1. worker[w] \in Work
  BY DEF ImportTypes
<1>2. /\ k \in Work /\ k.step = step /\ k.chunk = worker[w].chunk /\ k.rows = worker[w].rows
      /\ k.lines = worker[w].lines /\ k.refused = worker[w].refused
      /\ k.replayed = worker[w].replayed
  BY <1>1 DEF Work
<1>3. worker' = [worker EXCEPT ![w] = k]
  BY DEF StepsTo
<1> HIDE DEF k
<1> QED BY <1>2, <1>3 DEF ImportTypes

-----------------------------------------------------------------------------
(* The import: what each action does.                                      *)

\* An action that moves a worker on and touches neither balances nor batches nor rows.
Still == UNCHANGED <<onHand, chunkBatch, rowState, tally, importMode>>

LEMMA PicksEffect ==
  ASSUME ImportTypes, NEW w \in Worker, PicksChunk(w)
  PROVE  /\ ImportTypes' /\ Still /\ UNCHANGED <<jobStatus, importOdd>>
         /\ worker[w].step = "pick"
         /\ Pending = {} => worker'[w].step = "finish"
         /\ Pending # {} =>
              /\ worker'[w].step = "read" /\ worker'[w].refused = {}
              /\ \E r \in Pending : worker'[w].chunk = ChunkOf[r]
              /\ worker'[w].rows = {r \in Pending : ChunkOf[r] = worker'[w].chunk}
         /\ \A v \in Worker : v # w => worker'[v] = worker[v]
<1>0. Still /\ UNCHANGED <<jobStatus, importOdd>> /\ worker[w].step = "pick"
  BY DEF PicksChunk, Still
<1>1. CASE Pending = {}
  <2>1. StepsTo(w, "finish")
    BY <1>1 DEF PicksChunk
  <2>2. "finish" \in WorkStep
    BY DEF WorkStep, Processing
  <2> QED BY <1>0, <1>1, <2>1, <2>2, StepsWork DEF ImportTypes, Still
<1>2. CASE Pending # {}
  <2> DEFINE Ks == {ChunkOf[r] : r \in Pending}
             k == CHOOSE n \in Ks : \A r \in Pending : n <= ChunkOf[r]
             rows == {r \in Pending : ChunkOf[r] = k}
             new == [NoWork EXCEPT !.step = "read", !.chunk = k, !.rows = rows]
  <2>1. worker' = [worker EXCEPT ![w] = new]
    BY <1>2 DEF PicksChunk
  <2>2. Ks \in SUBSET Nat /\ Ks # {}
    BY <1>2 DEF Pending
  <2>3. \E n \in Ks : \A r \in Pending : n <= ChunkOf[r]
    <3>1. \A r \in Pending : ChunkOf[r] \in Ks
      OBVIOUS
    <3> HIDE DEF Ks
    <3>2. \E n \in Ks : \A m \in Ks : n <= m
      BY <2>2, LeastOf
    <3> QED BY <3>1, <3>2
  <2>4. k \in Ks
    BY <2>3
  <2>5. k \in Nat /\ rows \in SUBSET Row /\ \E r \in Pending : k = ChunkOf[r]
    BY <2>2, <2>4 DEF Pending
  <2>6. rows = {r \in Pending : ChunkOf[r] = k}
    OBVIOUS
  <2> HIDE DEF Ks, k, rows
  <2>7. /\ new \in Work /\ new.step = "read" /\ new.chunk = k /\ new.rows = rows /\ new.refused = {}
    BY <2>5, NoWorkFits DEF NoWork, Work, WorkStep, Processing
  <2> HIDE DEF new
  <2>8. /\ worker' \in [Worker -> Work] /\ worker'[w] = new
        /\ \A v \in Worker : v # w => worker'[v] = worker[v]
    BY <2>1, <2>7 DEF ImportTypes
  <2>9. ImportTypes'
    BY <1>0, <2>8 DEF ImportTypes, Still
  <2> QED BY <1>0, <1>2, <2>5, <2>6, <2>7, <2>8, <2>9
<1> QED BY <1>1, <1>2

LEMMA ReadsBalancesEffect ==
  ASSUME ImportTypes, NEW w \in Worker, ReadsBalances(w)
  PROVE  /\ ImportTypes' /\ Still /\ UNCHANGED <<jobStatus, importOdd>>
         /\ worker[w].step = "read"
         /\ worker'[w].rows = worker[w].rows /\ worker'[w].chunk = worker[w].chunk
         /\ worker'[w].refused = {r \in worker[w].rows : Refused(r)}
         /\ DOMAIN worker'[w].lines = {r \in worker[w].rows : ~Refused(r) /\ LineOf(r) # 0}
         /\ \A r \in DOMAIN worker'[w].lines : worker'[w].lines[r] = LineOf(r)
         /\ worker'[w].step = IF DOMAIN worker'[w].lines = {} THEN "mark" ELSE "post"
         /\ \A v \in Worker : v # w => worker'[v] = worker[v]
<1> DEFINE rows == worker[w].rows
           moving == {r \in rows : ~Refused(r) /\ LineOf(r) # 0}
           lines == [r \in moving |-> LineOf(r)]
           refused == {r \in rows : Refused(r)}
           step == IF moving = {} THEN "mark" ELSE "post"
<1>0. /\ Still /\ UNCHANGED <<jobStatus, importOdd>> /\ worker[w].step = "read"
      /\ worker' = [worker EXCEPT ![w].lines = lines, ![w].refused = refused, ![w].step = step]
  BY DEF ReadsBalances, Still
<1>1. worker[w] \in Work
  BY DEF ImportTypes
<1>2. moving \in SUBSET Row /\ refused \in SUBSET Row /\ rows \in SUBSET Row
  BY <1>1 DEF Work
<1>3. \A r \in Row : LineOf(r) \in Int
  BY DEF LineOf, ImportTypes, Mode
<1>4. lines \in [moving -> Int]
  BY <1>2, <1>3
<1>5. /\ lines \in Quantities /\ DOMAIN lines = moving /\ \A r \in moving : lines[r] = LineOf(r)
  BY <1>2, <1>4 DEF Quantities
<1>6. step \in WorkStep /\ step = IF moving = {} THEN "mark" ELSE "post"
  BY DEF WorkStep, Processing
<1> DEFINE new == [worker[w] EXCEPT !.lines = lines, !.refused = refused, !.step = step]
<1> HIDE DEF lines, step
<1>7. /\ new \in Work /\ new.step = step /\ new.lines = lines /\ new.refused = refused
      /\ new.rows = rows /\ new.chunk = worker[w].chunk
  BY <1>1, <1>2, <1>5, <1>6 DEF Work
<1> HIDE DEF moving, refused, rows
<1>8. worker' = [worker EXCEPT ![w] = new]
  BY <1>0 DEF ImportTypes
<1> HIDE DEF new
<1>9. /\ worker' \in [Worker -> Work] /\ worker'[w] = new
      /\ \A v \in Worker : v # w => worker'[v] = worker[v]
  BY <1>7, <1>8 DEF ImportTypes
<1>10. ImportTypes'
  BY <1>0, <1>9 DEF ImportTypes, Still
<1> QED BY <1>0, <1>5, <1>6, <1>7, <1>9, <1>10 DEF moving, refused, rows

LEMMA PostsChunkEffect ==
  ASSUME ImportTypes, NEW w \in Worker, PostsChunk(w), worker[w].chunk \in Chunk
  PROVE  /\ ImportTypes'
         /\ UNCHANGED <<onHand, rowState, tally, importMode, jobStatus, importOdd>>
         /\ worker[w].step = "post" /\ worker'[w].step = "fold"
         /\ worker'[w].rows = worker[w].rows /\ worker'[w].chunk = worker[w].chunk
         /\ worker'[w].refused = worker[w].refused
         /\ worker'[w].replayed <=> chunkBatch[worker[w].chunk] # NoLines
         /\ chunkBatch'[worker[w].chunk] =
              IF chunkBatch[worker[w].chunk] # NoLines THEN chunkBatch[worker[w].chunk] ELSE worker[w].lines
         /\ \A k \in Chunk : k # worker[w].chunk => chunkBatch'[k] = chunkBatch[k]
         /\ \A v \in Worker : v # w => worker'[v] = worker[v]
<1> DEFINE k == worker[w].chunk
           replay == chunkBatch[k] # NoLines
           lines == worker[w].lines
<1>0. /\ UNCHANGED <<onHand, rowState, tally, importMode, jobStatus, importOdd>>
      /\ worker[w].step = "post"
      /\ chunkBatch' = IF replay THEN chunkBatch ELSE [chunkBatch EXCEPT ![k] = lines]
      /\ worker' = [worker EXCEPT ![w].step = "fold", ![w].replayed = replay]
  BY DEF PostsChunk
<1>1. worker[w] \in Work
  BY DEF ImportTypes
<1>2. k \in Chunk /\ lines \in Quantities /\ replay \in BOOLEAN
  BY <1>1 DEF Work
<1>3. /\ chunkBatch' \in [Chunk -> Quantities]
      /\ chunkBatch'[k] = IF replay THEN chunkBatch[k] ELSE lines
      /\ \A j \in Chunk : j # k => chunkBatch'[j] = chunkBatch[j]
  BY <1>0, <1>2 DEF ImportTypes
<1> DEFINE new == [worker[w] EXCEPT !.step = "fold", !.replayed = replay]
<1> HIDE DEF replay
<1>4. /\ new \in Work /\ new.step = "fold" /\ new.replayed = replay /\ new.rows = worker[w].rows
      /\ new.chunk = k /\ new.refused = worker[w].refused
  BY <1>1, <1>2 DEF Work, WorkStep, Processing
<1>5. worker' = [worker EXCEPT ![w] = new]
  BY <1>0 DEF ImportTypes
<1> HIDE DEF new
<1>6. /\ worker' \in [Worker -> Work] /\ worker'[w] = new
      /\ \A v \in Worker : v # w => worker'[v] = worker[v]
  BY <1>4, <1>5 DEF ImportTypes
<1>7. ImportTypes'
  BY <1>0, <1>3, <1>6 DEF ImportTypes
<1> QED BY <1>0, <1>3, <1>4, <1>6, <1>7 DEF replay

LEMMA FoldsChunkEffect ==
  ASSUME ImportTypes, NEW w \in Worker, FoldsChunk(w), worker[w].chunk \in Chunk
  PROVE  /\ ImportTypes'
         /\ UNCHANGED <<chunkBatch, rowState, tally, importMode, jobStatus, importOdd>>
         /\ worker[w].step = "fold" /\ worker'[w].step = "mark"
         /\ worker'[w].rows = worker[w].rows /\ worker'[w].chunk = worker[w].chunk
         /\ worker'[w].refused = worker[w].refused
         /\ \A r \in Row : onHand'[r] =
              IF ~worker[w].replayed /\ r \in DOMAIN chunkBatch[worker[w].chunk]
              THEN onHand[r] + chunkBatch[worker[w].chunk][r] ELSE onHand[r]
         /\ \A v \in Worker : v # w => worker'[v] = worker[v]
<1> DEFINE lines == chunkBatch[worker[w].chunk]
<1>0. /\ UNCHANGED <<chunkBatch, rowState, tally, importMode, jobStatus, importOdd>>
      /\ worker[w].step = "fold" /\ StepsTo(w, "mark")
      /\ onHand' = IF worker[w].replayed THEN onHand
                   ELSE [r \in Row |-> IF r \in DOMAIN lines THEN onHand[r] + lines[r] ELSE onHand[r]]
  BY DEF FoldsChunk
<1>1. "mark" \in WorkStep
  BY DEF WorkStep, Processing
<1>2. lines \in Quantities
  BY DEF ImportTypes
<1> HIDE DEF lines
<1>3. DOMAIN lines \subseteq Row /\ \A r \in DOMAIN lines : lines[r] \in Int
  BY <1>2, QuantityFacts
<1>4. onHand' \in [Row -> Int]
  BY <1>0, <1>3 DEF ImportTypes
<1>5. \A r \in Row : onHand'[r] =
        IF ~worker[w].replayed /\ r \in DOMAIN lines THEN onHand[r] + lines[r] ELSE onHand[r]
  BY <1>0
<1>6. ImportTypes'
  BY <1>0, <1>1, <1>4, StepsWork DEF ImportTypes
<1> QED BY <1>0, <1>1, <1>5, <1>6, StepsWork DEF lines

LEMMA RetriesCommittedEffect ==
  ASSUME ImportTypes, NEW w \in Worker, RetriesCommitted(w), worker[w].chunk \in Chunk
  PROVE  /\ ImportTypes'
         /\ UNCHANGED <<onHand, rowState, tally, importMode, jobStatus>>
         /\ importOdd' # {}
         /\ worker[w].step = "post" /\ worker'[w].step = "read"
         /\ worker'[w].rows = worker[w].rows /\ worker'[w].chunk = worker[w].chunk
         /\ chunkBatch[worker[w].chunk] = NoLines
         /\ chunkBatch'[worker[w].chunk] = worker[w].lines
         /\ \A k \in Chunk : k # worker[w].chunk => chunkBatch'[k] = chunkBatch[k]
         /\ \A v \in Worker : v # w => worker'[v] = worker[v]
<1>0. /\ UNCHANGED <<onHand, rowState, tally, importMode, jobStatus>>
      /\ importOdd' # {}
      /\ worker[w].step = "post" /\ StepsTo(w, "read")
      /\ chunkBatch[worker[w].chunk] = NoLines
      /\ chunkBatch' = [chunkBatch EXCEPT ![worker[w].chunk] = worker[w].lines]
  BY DEF RetriesCommitted, Befalls
<1>1. "read" \in WorkStep
  BY DEF WorkStep, Processing
<1>2. worker[w].lines \in Quantities
  BY DEF ImportTypes, Work
<1>3. /\ chunkBatch' \in [Chunk -> Quantities]
      /\ chunkBatch'[worker[w].chunk] = worker[w].lines
      /\ \A j \in Chunk : j # worker[w].chunk => chunkBatch'[j] = chunkBatch[j]
  BY <1>0, <1>2 DEF ImportTypes
<1>4. ImportTypes'
  BY <1>0, <1>1, <1>3, StepsWork DEF ImportTypes
<1> QED BY <1>0, <1>1, <1>3, <1>4, StepsWork

LEMMA PostFailsEffect ==
  ASSUME ImportTypes, NEW w \in Worker, PostFails(w)
  PROVE  /\ ImportTypes' /\ Still /\ UNCHANGED <<jobStatus, importOdd>>
         /\ worker[w].step = "post" /\ worker'[w].step = "mark"
         /\ worker'[w].rows = worker[w].rows /\ worker'[w].chunk = worker[w].chunk
         /\ worker'[w].refused = worker[w].refused \cup DOMAIN worker[w].lines
         /\ \A v \in Worker : v # w => worker'[v] = worker[v]
<1> DEFINE refused == worker[w].refused \cup DOMAIN worker[w].lines
<1>0. /\ Still /\ UNCHANGED <<jobStatus, importOdd>> /\ worker[w].step = "post"
      /\ worker' = [worker EXCEPT ![w].step = "mark", ![w].refused = refused]
  BY DEF PostFails, Still
<1>1. worker[w] \in Work
  BY DEF ImportTypes
<1>2. refused \in SUBSET Row
  BY <1>1, QuantityFacts DEF Work
<1> DEFINE new == [worker[w] EXCEPT !.step = "mark", !.refused = refused]
<1> HIDE DEF refused
<1>3. /\ new \in Work /\ new.step = "mark" /\ new.refused = refused
      /\ new.rows = worker[w].rows /\ new.chunk = worker[w].chunk
  BY <1>1, <1>2 DEF Work, WorkStep, Processing
<1>4. worker' = [worker EXCEPT ![w] = new]
  BY <1>0 DEF ImportTypes
<1> HIDE DEF new
<1>5. /\ worker' \in [Worker -> Work] /\ worker'[w] = new
      /\ \A v \in Worker : v # w => worker'[v] = worker[v]
  BY <1>3, <1>4 DEF ImportTypes
<1>6. ImportTypes'
  BY <1>0, <1>5 DEF ImportTypes, Still
<1> QED BY <1>0, <1>3, <1>5, <1>6 DEF refused

LEMMA MarksEffect ==
  ASSUME ImportTypes, NEW w \in Worker, MarksRows(w)
  PROVE  /\ ImportTypes'
         /\ UNCHANGED <<onHand, chunkBatch, tally, importMode, jobStatus, importOdd>>
         /\ worker[w].step = "mark" /\ worker'[w].step = "count"
         /\ worker'[w].rows = worker[w].rows /\ worker'[w].chunk = worker[w].chunk
         /\ worker'[w].refused = worker[w].refused
         /\ \A r \in Row :
              /\ rowState[r] # "pending" => rowState'[r] = rowState[r]
              /\ rowState[r] = "pending" =>
                   /\ rowState'[r] \in {"pending", "processed", "failed"}
                   /\ rowState'[r] = "failed" => r \in worker[w].refused
                   /\ rowState'[r] = "processed" => r \in worker[w].rows
                   /\ rowState'[r] = "pending" => r \notin worker[w].rows
                   /\ rowState'[r] # "pending" => r \in worker[w].rows \cup worker[w].refused
         /\ \A v \in Worker : v # w => worker'[v] = worker[v]
<1>0. /\ UNCHANGED <<onHand, chunkBatch, tally, importMode, jobStatus, importOdd>>
      /\ worker[w].step = "mark" /\ StepsTo(w, "count")
  BY DEF MarksRows
<1>1. PICK failing \in SUBSET (worker[w].refused \cap Successes(w)) :
        rowState' = [r \in Row |->
          IF rowState[r] # "pending" THEN rowState[r]
          ELSE IF r \in Successes(w) \ failing THEN "processed"
          ELSE IF r \in worker[w].refused THEN "failed" ELSE "pending"]
  BY DEF MarksRows
<1>2. "count" \in WorkStep
  BY DEF WorkStep, Processing
<1>3. Successes(w) \subseteq worker[w].rows /\ worker[w].rows \subseteq Successes(w) \cup worker[w].refused
  BY DEF Successes
<1>4. rowState' \in [Row -> {"pending", "processed", "failed", "gone"}]
  BY <1>1 DEF ImportTypes
<1>5. \A r \in Row :
        /\ rowState[r] # "pending" => rowState'[r] = rowState[r]
        /\ rowState[r] = "pending" =>
             /\ rowState'[r] \in {"pending", "processed", "failed"}
             /\ rowState'[r] = "failed" => r \in worker[w].refused
             /\ rowState'[r] = "processed" => r \in worker[w].rows
             /\ rowState'[r] = "pending" => r \notin worker[w].rows
             /\ rowState'[r] # "pending" => r \in worker[w].rows \cup worker[w].refused
  BY <1>1, <1>3
<1>6. ImportTypes'
  BY <1>0, <1>2, <1>4, StepsWork DEF ImportTypes
<1> QED BY <1>0, <1>2, <1>5, <1>6, StepsWork

LEMMA CountsEffect ==
  ASSUME ImportTypes, NEW w \in Worker, CountsRows(w)
  PROVE  /\ ImportTypes'
         /\ UNCHANGED <<onHand, chunkBatch, rowState, importMode, jobStatus, importOdd>>
         /\ worker[w].step = "count" /\ worker'[w].step = "pick"
         /\ tally'.bad >= tally.bad
         /\ worker[w].refused # {} => tally'.bad > 0
         /\ \A v \in Worker : v # w => worker'[v] = worker[v]
<1>0. /\ UNCHANGED <<onHand, chunkBatch, rowState, importMode, jobStatus, importOdd>>
      /\ worker[w].step = "count" /\ StepsTo(w, "pick")
      /\ tally' = [good |-> tally.good + Cardinality(Successes(w)),
                   bad |-> tally.bad + Cardinality(worker[w].refused)]
  BY DEF CountsRows
<1>1. worker[w].rows \subseteq Row /\ worker[w].refused \subseteq Row
  BY DEF ImportTypes, Work
<1>2. Successes(w) \subseteq Row
  BY <1>1 DEF Successes
<1>3. IsFiniteSet(Successes(w)) /\ IsFiniteSet(worker[w].refused)
  BY <1>1, <1>2, FS_Subset
<1>4. Cardinality(Successes(w)) \in Nat /\ Cardinality(worker[w].refused) \in Nat
  BY <1>3, FS_CardinalityType
<1>5. worker[w].refused # {} => Cardinality(worker[w].refused) # 0
  BY <1>3, FS_EmptySet
<1>6. "pick" \in WorkStep
  BY DEF WorkStep, Processing
<1>7. tally.good \in Nat /\ tally.bad \in Nat
  BY DEF ImportTypes
<1>8. /\ tally' \in [good : Nat, bad : Nat] /\ tally'.bad >= tally.bad
      /\ worker[w].refused # {} => tally'.bad > 0
  <2> DEFINE n == Cardinality(Successes(w))
             m == Cardinality(worker[w].refused)
  <2>1. /\ n \in Nat /\ m \in Nat /\ (worker[w].refused # {} => m # 0)
        /\ tally' = [good |-> tally.good + n, bad |-> tally.bad + m]
    BY <1>0, <1>4, <1>5
  <2> HIDE DEF n, m
  <2> QED BY <1>7, <2>1
<1>9. ImportTypes'
  BY <1>0, <1>6, <1>8, StepsWork DEF ImportTypes
<1> QED BY <1>0, <1>6, <1>8, <1>9, StepsWork

-----------------------------------------------------------------------------
(* The import: a row moves once.                                           *)

BatchIsAsked ==
  \A k \in Chunk : \A r \in DOMAIN chunkBatch[k] : ChunkOf[r] = k /\ chunkBatch[k][r] = Asked(r)

MovedOnce ==
  \A r \in Row :
    \/ onHand[r] = OnHand[r]
    \/ r \in DOMAIN chunkBatch[ChunkOf[r]] /\ onHand[r] = OnHand[r] + Asked(r)

\* The lines of a chunk not posted yet are what its rows ask.
LinesAsk ==
  \A w \in Worker :
    /\ worker[w].step \in {"read", "post"} => \A r \in worker[w].rows : ChunkOf[r] = worker[w].chunk
    /\ worker[w].step = "post" =>
         /\ worker[w].chunk \in Chunk
         /\ DOMAIN worker[w].lines # {} /\ DOMAIN worker[w].lines \subseteq worker[w].rows
         /\ chunkBatch[worker[w].chunk] = NoLines =>
              \A r \in DOMAIN worker[w].lines : worker[w].lines[r] = Asked(r)

\* The worker that posted a batch is the one to fold it.
Folds(w) == worker[w].step = "fold" /\ ~worker[w].replayed

PosterFolds ==
  \A w \in Worker :
    /\ worker[w].step = "fold" =>
         worker[w].chunk \in Chunk /\ chunkBatch[worker[w].chunk] # NoLines
    /\ Folds(w) =>
         /\ \A r \in DOMAIN chunkBatch[worker[w].chunk] : onHand[r] = OnHand[r]
         /\ \A v \in Worker : Folds(v) /\ worker[v].chunk = worker[w].chunk => v = w

MoveInv == BatchIsAsked /\ MovedOnce /\ LinesAsk /\ PosterFolds

\* A worker that does not come to post or to fold changes nothing of that.
LEMMA MovesNothing ==
  ASSUME MoveInv, NEW w \in Worker, worker'[w].step \notin {"post", "fold"},
         worker'[w].step = "read" => \A r \in worker'[w].rows : ChunkOf[r] = worker'[w].chunk,
         \A v \in Worker : v # w => worker'[v] = worker[v],
         UNCHANGED <<onHand, chunkBatch, importMode>>
  PROVE  MoveInv'
<1>1. \A r \in Row : Asked(r)' = Asked(r)
  BY DEF Asked
<1>2. BatchIsAsked'
  BY DEF MoveInv, BatchIsAsked, Asked
<1>3. MovedOnce'
  BY DEF MoveInv, MovedOnce, Asked
<1>4. LinesAsk'
  BY DEF MoveInv, LinesAsk, Asked
<1>5. PosterFolds'
  BY DEF MoveInv, PosterFolds, Folds
<1> QED BY <1>2, <1>3, <1>4, <1>5 DEF MoveInv

\* What has not been moved asks for what it asked for at first.
LEMMA AsksTheSame ==
  ASSUME ImportTypes, NEW r \in Row, onHand[r] = OnHand[r] PROVE LineOf(r) = Asked(r)
BY DEF LineOf, Asked, ImportTypes

LEMMA AskedIsNumber == importMode \in Mode => \A r \in Row : Asked(r) \in Int
BY DEF Asked, Mode

LEMMA ReadsMoveInv ==
  ASSUME ImportTypes, MoveInv, NEW w \in Worker, ReadsBalances(w) PROVE MoveInv'
<1>1. BatchIsAsked' /\ MovedOnce'
  BY ReadsBalancesEffect DEF MoveInv, BatchIsAsked, MovedOnce, Asked, Still
<1>2. PosterFolds'
  BY ReadsBalancesEffect DEF MoveInv, PosterFolds, Folds, Still
<1>3. ASSUME DOMAIN worker'[w].lines # {}
      PROVE  /\ worker[w].chunk \in Chunk /\ DOMAIN worker'[w].lines \subseteq worker[w].rows
             /\ chunkBatch[worker[w].chunk] = NoLines =>
                  \A r \in DOMAIN worker'[w].lines : worker'[w].lines[r] = Asked(r)
  <2>1. DOMAIN worker'[w].lines \subseteq worker[w].rows /\ worker[w].rows \subseteq Row
    BY ReadsBalancesEffect DEF ImportTypes, Work
  <2>2. \A r \in worker[w].rows : ChunkOf[r] = worker[w].chunk
    BY ReadsBalancesEffect DEF MoveInv, LinesAsk
  <2>3. worker[w].chunk \in Chunk
    BY <1>3, <2>1, <2>2 DEF Chunk
  <2>4. ASSUME chunkBatch[worker[w].chunk] = NoLines, NEW r \in DOMAIN worker'[w].lines
        PROVE  worker'[w].lines[r] = Asked(r)
    <3>1. onHand[r] = OnHand[r]
      BY <2>1, <2>2, <2>4, QuantityFacts DEF MoveInv, MovedOnce
    <3> QED BY <2>1, <3>1, AsksTheSame, ReadsBalancesEffect
  <2> QED BY <2>1, <2>3, <2>4
<1>4. LinesAsk'
  <2>1. \A v \in Worker : v # w =>
          worker'[v] = worker[v] /\ UNCHANGED <<chunkBatch, importMode>>
    BY ReadsBalancesEffect DEF Still
  <2>2. /\ worker'[w].rows = worker[w].rows /\ worker'[w].chunk = worker[w].chunk
        /\ worker'[w].step = IF DOMAIN worker'[w].lines = {} THEN "mark" ELSE "post"
        /\ UNCHANGED <<chunkBatch, importMode>>
        /\ \A r \in worker[w].rows : ChunkOf[r] = worker[w].chunk
    BY ReadsBalancesEffect DEF Still, MoveInv, LinesAsk
  <2> QED BY <1>3, <2>1, <2>2 DEF MoveInv, LinesAsk, Asked
<1> QED BY <1>1, <1>2, <1>4 DEF MoveInv

LEMMA PostsMoveInv ==
  ASSUME ImportTypes, MoveInv, NEW w \in Worker, PostsChunk(w) PROVE MoveInv'
<1> DEFINE k == worker[w].chunk
<1>1. /\ k \in Chunk /\ DOMAIN worker[w].lines # {} /\ DOMAIN worker[w].lines \subseteq worker[w].rows
      /\ \A r \in worker[w].rows : ChunkOf[r] = k
      /\ chunkBatch[k] = NoLines => \A r \in DOMAIN worker[w].lines : worker[w].lines[r] = Asked(r)
  BY DEF PostsChunk, MoveInv, LinesAsk
<1>2. /\ UNCHANGED <<onHand, importMode>>
      /\ \A j \in Chunk : chunkBatch[j] # NoLines => chunkBatch'[j] = chunkBatch[j]
      /\ chunkBatch[k] = NoLines => chunkBatch'[k] = worker[w].lines
      /\ \A j \in Chunk : j # k => chunkBatch'[j] = chunkBatch[j]
      /\ worker'[w].step = "fold" /\ worker'[w].chunk = k
      /\ worker'[w].replayed <=> chunkBatch[k] # NoLines
      /\ \A v \in Worker : v # w => worker'[v] = worker[v]
  BY <1>1, PostsChunkEffect
<1>3. DOMAIN NoLines = {} /\ worker[w].lines # NoLines
  BY <1>1, QuantityFacts
<1>4. BatchIsAsked'
  BY <1>1, <1>2 DEF MoveInv, BatchIsAsked, Asked
<1>5. MovedOnce'
  <2>1. \A r \in Row : ChunkOf[r] \in Chunk
    BY DEF Chunk
  <2>2. \A r \in Row : r \in DOMAIN chunkBatch[ChunkOf[r]] => chunkBatch[ChunkOf[r]] # NoLines
    BY <1>3
  <2> QED BY <1>2, <2>1, <2>2 DEF MoveInv, MovedOnce, Asked
<1>6. LinesAsk'
  BY <1>2 DEF MoveInv, LinesAsk, Asked
<1>7. PosterFolds'
  <2>1. chunkBatch'[k] # NoLines
    BY <1>1, <1>2, <1>3
  <2>2. chunkBatch[k] = NoLines => \A r \in DOMAIN chunkBatch'[k] : onHand'[r] = OnHand[r]
    <3> SUFFICES ASSUME chunkBatch[k] = NoLines, NEW r \in DOMAIN worker[w].lines
                 PROVE  onHand[r] = OnHand[r]
      BY <1>2
    <3>1. r \in Row /\ ChunkOf[r] = k
      BY <1>1 DEF ImportTypes, Work
    <3> QED BY <1>3, <3>1 DEF MoveInv, MovedOnce
  <2>3. \A v \in Worker : v # w => (Folds(v)' <=> Folds(v))
    BY <1>2 DEF Folds
  <2>4. Folds(w)' <=> chunkBatch[k] = NoLines
    BY <1>2 DEF Folds
  <2>5. \A v \in Worker : worker[v].step = "fold" =>
          worker[v].chunk \in Chunk /\ chunkBatch[worker[v].chunk] # NoLines
    BY DEF MoveInv, PosterFolds
  <2>6. \A v \in Worker : v # w /\ worker[v].step = "fold" =>
          chunkBatch'[worker[v].chunk] = chunkBatch[worker[v].chunk]
    BY <1>2, <2>5
  <2>7. \A v \in Worker : Folds(v) => worker[v].step = "fold"
    BY DEF Folds
  <2>8. \A v \in Worker :
          /\ worker'[v].step = "fold" =>
               worker'[v].chunk \in Chunk /\ chunkBatch'[worker'[v].chunk] # NoLines
          /\ Folds(v)' => \A r \in DOMAIN chunkBatch'[worker'[v].chunk] : onHand'[r] = OnHand[r]
    BY <1>1, <1>2, <2>1, <2>2, <2>3, <2>4, <2>5, <2>6, <2>7 DEF MoveInv, PosterFolds
  <2>9. ASSUME NEW u \in Worker, NEW v \in Worker, Folds(u)', Folds(v)', worker'[u].chunk = worker'[v].chunk
        PROVE  u = v
    <3>1. CASE u # w /\ v # w
      BY <1>2, <2>3, <2>9, <3>1 DEF MoveInv, PosterFolds
    <3>2. CASE u = w /\ v # w
      BY <1>2, <2>3, <2>4, <2>5, <2>7, <2>9, <3>2
    <3>3. CASE v = w /\ u # w
      BY <1>2, <2>3, <2>4, <2>5, <2>7, <2>9, <3>3
    <3> QED BY <3>1, <3>2, <3>3
  <2> QED BY <2>8, <2>9 DEF PosterFolds
<1> QED BY <1>4, <1>5, <1>6, <1>7 DEF MoveInv

LEMMA FoldsMoveInv ==
  ASSUME ImportTypes, MoveInv, NEW w \in Worker, FoldsChunk(w) PROVE MoveInv'
<1> DEFINE k == worker[w].chunk
<1>1. worker[w].step = "fold" /\ k \in Chunk /\ chunkBatch[k] # NoLines
  BY DEF FoldsChunk, MoveInv, PosterFolds
<1>2. /\ UNCHANGED <<chunkBatch, importMode>>
      /\ worker'[w].step = "mark"
      /\ \A v \in Worker : v # w => worker'[v] = worker[v]
      /\ \A r \in Row : ~(Folds(w) /\ r \in DOMAIN chunkBatch[k]) => onHand'[r] = onHand[r]
      /\ \A r \in Row : Folds(w) /\ r \in DOMAIN chunkBatch[k] =>
           onHand'[r] = onHand[r] + chunkBatch[k][r]
  BY <1>1, FoldsChunkEffect DEF Folds
<1>3. \A r \in DOMAIN chunkBatch[k] : r \in Row /\ ChunkOf[r] = k /\ chunkBatch[k][r] = Asked(r)
  BY <1>1, QuantityFacts DEF MoveInv, BatchIsAsked, ImportTypes
<1>4. BatchIsAsked'
  BY <1>2 DEF MoveInv, BatchIsAsked, Asked
<1>5. MovedOnce'
  <2> SUFFICES ASSUME NEW r \in Row
               PROVE  \/ onHand'[r] = OnHand[r]
                      \/ r \in DOMAIN chunkBatch'[ChunkOf[r]] /\ onHand'[r] = OnHand[r] + Asked(r)'
    BY DEF MovedOnce
  <2>1. Asked(r)' = Asked(r)
    BY <1>2 DEF Asked
  <2>2. CASE Folds(w) /\ r \in DOMAIN chunkBatch[k]
    BY <1>2, <1>3, <2>1, <2>2 DEF MoveInv, PosterFolds
  <2>3. CASE ~(Folds(w) /\ r \in DOMAIN chunkBatch[k])
    BY <1>2, <2>1, <2>3 DEF MoveInv, MovedOnce
  <2> QED BY <2>2, <2>3
<1>6. LinesAsk'
  BY <1>2 DEF MoveInv, LinesAsk, Asked
<1>7. PosterFolds'
  <2>1. \A v \in Worker : Folds(v)' => v # w /\ Folds(v)
    BY <1>2 DEF Folds
  <2>2. \A v \in Worker : v # w /\ Folds(v) =>
          \A r \in DOMAIN chunkBatch[worker[v].chunk] : onHand'[r] = onHand[r]
    <3> SUFFICES ASSUME NEW v \in Worker, v # w, Folds(v), NEW r \in DOMAIN chunkBatch[worker[v].chunk]
                 PROVE  onHand'[r] = onHand[r]
      OBVIOUS
    <3>1. worker[v].chunk \in Chunk
      BY DEF MoveInv, PosterFolds, Folds
    <3>2. r \in Row /\ ChunkOf[r] = worker[v].chunk
      BY <3>1, QuantityFacts DEF MoveInv, BatchIsAsked, ImportTypes
    <3>3. Folds(w) => worker[v].chunk # k
      BY DEF MoveInv, PosterFolds
    <3> QED BY <1>2, <1>3, <3>2, <3>3
  <2> QED BY <1>2, <2>1, <2>2 DEF MoveInv, PosterFolds
<1> QED BY <1>4, <1>5, <1>6, <1>7 DEF MoveInv

LEMMA CommittedMoveInv ==
  ASSUME ImportTypes, MoveInv, NEW w \in Worker, RetriesCommitted(w) PROVE MoveInv'
<1> DEFINE k == worker[w].chunk
<1>1. /\ k \in Chunk /\ DOMAIN worker[w].lines \subseteq worker[w].rows
      /\ \A r \in worker[w].rows : ChunkOf[r] = k
      /\ chunkBatch[k] = NoLines /\ \A r \in DOMAIN worker[w].lines : worker[w].lines[r] = Asked(r)
  BY DEF RetriesCommitted, MoveInv, LinesAsk
<1>2. /\ UNCHANGED <<onHand, importMode>>
      /\ chunkBatch'[k] = worker[w].lines
      /\ \A j \in Chunk : j # k => chunkBatch'[j] = chunkBatch[j]
      /\ worker'[w].step = "read" /\ worker'[w].chunk = k /\ worker'[w].rows = worker[w].rows
      /\ \A v \in Worker : v # w => worker'[v] = worker[v]
  BY <1>1, RetriesCommittedEffect
<1>3. BatchIsAsked'
  BY <1>1, <1>2 DEF MoveInv, BatchIsAsked, Asked
<1>4. MovedOnce'
  <2>1. \A r \in Row : ChunkOf[r] \in Chunk
    BY DEF Chunk
  <2>2. \A r \in Row : r \in DOMAIN chunkBatch[ChunkOf[r]] => ChunkOf[r] # k
    BY <1>1, QuantityFacts
  <2> QED BY <1>2, <2>1, <2>2 DEF MoveInv, MovedOnce, Asked
<1>5. LinesAsk'
  <2>1. \A v \in Worker : v # w /\ worker[v].step = "post" =>
          worker[v].chunk \in Chunk /\ (chunkBatch'[worker[v].chunk] = NoLines => chunkBatch[worker[v].chunk] = NoLines)
    BY <1>1, <1>2 DEF MoveInv, LinesAsk
  <2> QED BY <1>1, <1>2, <2>1 DEF MoveInv, LinesAsk, Asked
<1>6. PosterFolds'
  <2>1. \A v \in Worker : worker'[v].step = "fold" =>
          /\ v # w /\ worker'[v] = worker[v] /\ worker[v].step = "fold"
          /\ worker[v].chunk \in Chunk /\ chunkBatch[worker[v].chunk] # NoLines
    BY <1>2 DEF MoveInv, PosterFolds
  <2>2. \A v \in Worker : worker'[v].step = "fold" => chunkBatch'[worker[v].chunk] = chunkBatch[worker[v].chunk]
    BY <1>1, <1>2, <2>1
  <2>3. \A v \in Worker : Folds(v)' => worker'[v].step = "fold" /\ Folds(v)
    BY <2>1 DEF Folds
  <2> QED BY <1>2, <2>1, <2>2, <2>3 DEF MoveInv, PosterFolds
<1> QED BY <1>3, <1>4, <1>5, <1>6 DEF MoveInv

\* The actions that only move a worker on, and the job with it.
Moves(w, step) ==
  /\ worker' \in [Worker -> Work] /\ worker'[w].step = step
  /\ worker'[w].chunk = worker[w].chunk /\ worker'[w].rows = worker[w].rows
  /\ \A v \in Worker : v # w => worker'[v] = worker[v]

Goes(w) ==
  /\ worker' \in [Worker -> Work] /\ worker'[w] = NoWork
  /\ \A v \in Worker : v # w => worker'[v] = worker[v]

LEMMA RequestsEffect ==
  ASSUME ImportTypes, NEW w \in Worker
  PROVE  /\ ReadsToConfirm(w) =>
              /\ Still /\ UNCHANGED <<jobStatus, importOdd>>
              /\ Moves(w, "confirm") \/ Moves(w, "claim")
         /\ ReadsToResume(w) => Still /\ UNCHANGED <<jobStatus, importOdd>> /\ Moves(w, "claim")
         /\ ReadsToCancelJob(w) => Still /\ UNCHANGED <<jobStatus, importOdd>> /\ Moves(w, "cancel")
         /\ ReadsToConfirm(w) \/ ReadsToResume(w) \/ ReadsToCancelJob(w) => worker[w].step = "none"
         /\ ConfirmsJob(w) =>
              /\ Still /\ jobStatus' = "Processing" /\ Moves(w, "claim")
              /\ worker[w].step = "confirm" /\ importOdd \subseteq importOdd'
              /\ importOdd' = {} => jobStatus = "Validated"
         /\ CancelsJob(w) =>
              /\ Still /\ jobStatus' = "Cancelled" /\ Moves(w, "purge")
              /\ worker[w].step = "cancel" /\ importOdd \subseteq importOdd'
              /\ importOdd' = {} => jobStatus = "Validated"
         /\ PurgesRows(w) =>
              /\ UNCHANGED <<onHand, chunkBatch, tally, importMode, jobStatus, importOdd>> /\ Goes(w)
              /\ worker[w].step = "purge" /\ \A r \in Row : rowState'[r] = "gone"
              /\ rowState' = [r \in Row |-> "gone"]
<1>1. {"confirm", "claim", "cancel", "purge"} \subseteq WorkStep
  BY DEF WorkStep
<1>2. ReadsToConfirm(w) =>
        /\ Still /\ UNCHANGED <<jobStatus, importOdd>> /\ worker[w].step = "none"
        /\ Moves(w, "confirm") \/ Moves(w, "claim")
  BY <1>1, StepsWork, NoWorkFits DEF ReadsToConfirm, Still, Moves
<1>3. ReadsToResume(w) =>
        Still /\ UNCHANGED <<jobStatus, importOdd>> /\ Moves(w, "claim") /\ worker[w].step = "none"
  BY <1>1, StepsWork, NoWorkFits DEF ReadsToResume, Still, Moves
<1>4. ReadsToCancelJob(w) =>
        Still /\ UNCHANGED <<jobStatus, importOdd>> /\ Moves(w, "cancel") /\ worker[w].step = "none"
  BY <1>1, StepsWork, NoWorkFits DEF ReadsToCancelJob, Still, Moves
<1>5. ConfirmsJob(w) =>
        /\ Still /\ jobStatus' = "Processing" /\ Moves(w, "claim")
        /\ worker[w].step = "confirm" /\ importOdd \subseteq importOdd'
        /\ importOdd' = {} => jobStatus = "Validated"
  BY <1>1, StepsWork DEF ConfirmsJob, Befalls, Still, Moves
<1>6. CancelsJob(w) =>
        /\ Still /\ jobStatus' = "Cancelled" /\ Moves(w, "purge")
        /\ worker[w].step = "cancel" /\ importOdd \subseteq importOdd'
        /\ importOdd' = {} => jobStatus = "Validated"
  BY <1>1, StepsWork DEF CancelsJob, Befalls, Still, Moves
<1>7. PurgesRows(w) =>
        /\ UNCHANGED <<onHand, chunkBatch, tally, importMode, jobStatus, importOdd>> /\ Goes(w)
        /\ worker[w].step = "purge" /\ \A r \in Row : rowState'[r] = "gone"
        /\ rowState' = [r \in Row |-> "gone"]
  BY LeavesWork DEF PurgesRows, Goes
<1> HIDE DEF Still
<1> QED BY <1>2, <1>3, <1>4, <1>5, <1>6, <1>7

LEMMA ProcessorEffect ==
  ASSUME ImportTypes, NEW w \in Worker
  PROVE  /\ ClaimsJob(w) =>
              /\ Still /\ jobStatus' = jobStatus /\ worker[w].step = "claim"
              /\ importOdd \subseteq importOdd'
              /\ \/ Goes(w)
                 \/ /\ jobStatus = "Processing" /\ Moves(w, "pick")
                    /\ importOdd' = {} => Working = {}
         /\ RetriesChunk(w) =>
              Still /\ UNCHANGED <<jobStatus, importOdd>> /\ worker[w].step = "post" /\ Moves(w, "read")
         /\ FinishesJob(w) =>
              /\ Still /\ worker[w].step = "finish" /\ Goes(w) /\ importOdd \subseteq importOdd'
              /\ jobStatus' = IF tally.bad > 0 THEN "Partial" ELSE "Completed"
         /\ ThrowsProcessing(w) =>
              /\ Still /\ jobStatus' = jobStatus /\ Moves(w, "failing")
              /\ importOdd \subseteq importOdd'
              /\ worker[w].step \in Processing
              /\ Folds(w) \/ worker[w].step = "count" => importOdd' # {}
         /\ FailsJob(w) =>
              /\ Still /\ worker[w].step = "failing" /\ Goes(w) /\ importOdd \subseteq importOdd'
              /\ jobStatus' = "Failed"
         /\ DiesImporting(w) =>
              /\ Still /\ jobStatus' = jobStatus /\ Goes(w)
              /\ importOdd \subseteq importOdd'
              /\ Folds(w) \/ worker[w].step = "count" => importOdd' # {}
<1>1. {"pick", "read", "failing"} \subseteq WorkStep
  BY DEF WorkStep, Processing
<1>2. Folds(w) \/ worker[w].step = "count" => Loses(w) # {}
  BY DEF Loses, Folds
<1>3. ClaimsJob(w) =>
        /\ Still /\ jobStatus' = jobStatus /\ worker[w].step = "claim"
        /\ importOdd \subseteq importOdd'
        /\ \/ Goes(w)
           \/ /\ jobStatus = "Processing" /\ Moves(w, "pick")
              /\ importOdd' = {} => Working = {}
  BY <1>1, StepsWork, LeavesWork DEF ClaimsJob, Befalls, Still, Moves, Goes
<1>4. RetriesChunk(w) =>
        Still /\ UNCHANGED <<jobStatus, importOdd>> /\ worker[w].step = "post" /\ Moves(w, "read")
  BY <1>1, StepsWork DEF RetriesChunk, Still, Moves
<1>5. FinishesJob(w) =>
        /\ Still /\ worker[w].step = "finish" /\ Goes(w) /\ importOdd \subseteq importOdd'
        /\ jobStatus' = IF tally.bad > 0 THEN "Partial" ELSE "Completed"
  BY LeavesWork DEF FinishesJob, Befalls, Still, Goes
<1>6. ThrowsProcessing(w) =>
        /\ Still /\ jobStatus' = jobStatus /\ Moves(w, "failing")
        /\ importOdd \subseteq importOdd' /\ worker[w].step \in Processing
        /\ Folds(w) \/ worker[w].step = "count" => importOdd' # {}
  BY <1>1, <1>2, StepsWork DEF ThrowsProcessing, Befalls, Still, Moves
<1>7. FailsJob(w) =>
        /\ Still /\ worker[w].step = "failing" /\ Goes(w) /\ importOdd \subseteq importOdd'
        /\ jobStatus' = "Failed"
  BY LeavesWork DEF FailsJob, Befalls, Still, Goes
<1>8. DiesImporting(w) =>
        /\ Still /\ jobStatus' = jobStatus /\ Goes(w)
        /\ importOdd \subseteq importOdd'
        /\ Folds(w) \/ worker[w].step = "count" => importOdd' # {}
  BY <1>2, LeavesWork DEF DiesImporting, Befalls, Still, Goes
<1> QED BY <1>3, <1>4, <1>5, <1>6, <1>7, <1>8

\* Every step keeps it.
LEMMA StepMoveInv ==
  ImportTypes /\ MoveInv /\ [ImportNext]_importVars => ImportTypes' /\ MoveInv'
<1> SUFFICES ASSUME ImportTypes, MoveInv, [ImportNext]_importVars PROVE ImportTypes' /\ MoveInv'
  OBVIOUS
<1>1. {"Processing", "Cancelled", "Partial", "Completed", "Failed"} \subseteq JobStatus
  BY DEF JobStatus
<1>2. ASSUME NEW w \in Worker, Still, jobStatus' \in JobStatus,
             \/ Goes(w)
             \/ \E step \in {"confirm", "claim", "cancel", "purge", "pick", "failing"} : Moves(w, step)
             \/ worker[w].step = "post" /\ Moves(w, "read")
      PROVE  ImportTypes' /\ MoveInv'
  <2>1. ImportTypes'
    BY <1>2 DEF ImportTypes, Still, Moves, Goes
  <2>2. /\ worker'[w].step \notin {"post", "fold"}
        /\ worker'[w].step = "read" => \A r \in worker'[w].rows : ChunkOf[r] = worker'[w].chunk
        /\ \A v \in Worker : v # w => worker'[v] = worker[v]
        /\ UNCHANGED <<onHand, chunkBatch, importMode>>
    BY <1>2, NoWorkFits DEF Still, Moves, Goes, MoveInv, LinesAsk
  <2> QED BY <2>1, <2>2, MovesNothing
<1>3. jobStatus \in JobStatus
  BY DEF ImportTypes
<1>4. ASSUME NEW w \in Worker,
             ReadsToConfirm(w) \/ ConfirmsJob(w) \/ ReadsToResume(w) \/ ReadsToCancelJob(w) \/ CancelsJob(w)
      PROVE  ImportTypes' /\ MoveInv'
  BY <1>1, <1>2, <1>3, <1>4, RequestsEffect
<1>5. ASSUME NEW w \in Worker, PurgesRows(w) PROVE ImportTypes' /\ MoveInv'
  <2>1. ImportTypes'
    BY <1>5, RequestsEffect DEF ImportTypes, Goes
  <2>2. /\ worker'[w].step = "none" /\ \A v \in Worker : v # w => worker'[v] = worker[v]
        /\ UNCHANGED <<onHand, chunkBatch, importMode>>
    BY <1>5, RequestsEffect, NoWorkFits DEF Goes
  <2> QED BY <2>1, <2>2, MovesNothing
<1>6. ASSUME NEW w \in Worker,
             \/ ClaimsJob(w) \/ RetriesChunk(w) \/ FinishesJob(w) \/ ThrowsProcessing(w)
             \/ FailsJob(w) \/ DiesImporting(w)
      PROVE  ImportTypes' /\ MoveInv'
  BY <1>1, <1>2, <1>3, <1>6, ProcessorEffect
<1>7. ASSUME NEW w \in Worker, PicksChunk(w) PROVE ImportTypes' /\ MoveInv'
  <2>1. /\ ImportTypes' /\ UNCHANGED <<onHand, chunkBatch, importMode>>
        /\ worker'[w].step \in {"finish", "read"}
        /\ worker'[w].step = "read" => \A r \in worker'[w].rows : ChunkOf[r] = worker'[w].chunk
        /\ \A v \in Worker : v # w => worker'[v] = worker[v]
    BY <1>7, PicksEffect DEF Still
  <2> QED BY <2>1, MovesNothing
<1>8. ASSUME NEW w \in Worker, ReadsBalances(w) PROVE ImportTypes' /\ MoveInv'
  BY <1>8, ReadsMoveInv, ReadsBalancesEffect
<1>9. ASSUME NEW w \in Worker, PostsChunk(w) PROVE ImportTypes' /\ MoveInv'
  BY <1>9, PostsMoveInv, PostsChunkEffect DEF MoveInv, LinesAsk, PostsChunk
<1>10. ASSUME NEW w \in Worker, RetriesCommitted(w) PROVE ImportTypes' /\ MoveInv'
  BY <1>10, CommittedMoveInv, RetriesCommittedEffect DEF MoveInv, LinesAsk, RetriesCommitted
<1>11. ASSUME NEW w \in Worker, PostFails(w) PROVE ImportTypes' /\ MoveInv'
  BY <1>11, PostFailsEffect, MovesNothing DEF Still
<1>12. ASSUME NEW w \in Worker, FoldsChunk(w) PROVE ImportTypes' /\ MoveInv'
  BY <1>12, FoldsMoveInv, FoldsChunkEffect DEF MoveInv, PosterFolds, FoldsChunk
<1>13. ASSUME NEW w \in Worker, MarksRows(w) PROVE ImportTypes' /\ MoveInv'
  BY <1>13, MarksEffect, MovesNothing
<1>14. ASSUME NEW w \in Worker, CountsRows(w) PROVE ImportTypes' /\ MoveInv'
  BY <1>14, CountsEffect, MovesNothing
<1>15. CASE LockAges \/ UNCHANGED importVars
  BY <1>15 DEF LockAges, importVars, ImportTypes, MoveInv, BatchIsAsked, MovedOnce, LinesAsk,
     PosterFolds, Folds, Asked
<1> QED BY <1>4, <1>5, <1>6, <1>7, <1>8, <1>9, <1>10, <1>11, <1>12, <1>13, <1>14, <1>15 DEF ImportNext

LEMMA InitMoveInv == ImportInit => ImportTypes /\ MoveInv
<1> SUFFICES ASSUME ImportInit PROVE ImportTypes /\ MoveInv
  OBVIOUS
<1>1. \A w \in Worker : worker[w] = NoWork
  BY DEF ImportInit
<1>2. \A k \in Chunk : chunkBatch[k] = NoLines
  BY DEF ImportInit
<1>3. ImportTypes
  BY NoWorkFits, QuantityFacts DEF ImportInit, ImportTypes, JobStatus, Mode
<1>4. MoveInv
  BY <1>1, <1>2, NoWorkFits, QuantityFacts
     DEF ImportInit, MoveInv, BatchIsAsked, MovedOnce, LinesAsk, PosterFolds, Folds
<1> QED BY <1>3, <1>4

\* A row moves its balance once or not at all, whatever is retried, resumed, taken over or
\* cancelled under way (postBatch under the chunk's key, applyMovements by its poster).
THEOREM ImportMovesOnce == ImportSpec => []RowsMoveOnce
<1>1. ImportTypes /\ MoveInv => RowsMoveOnce
  BY DEF MoveInv, MovedOnce, RowsMoveOnce
<1> QED BY <1>1, InitMoveInv, StepMoveInv, PTL DEF ImportSpec

-----------------------------------------------------------------------------
(* The import: what the job says.                                          *)

IsMoved(r) == onHand[r] = OnHand[r] + Asked(r)

\* What the first attempt at a chunk posts.
RefusedAtFirst(r) ==
  IF importMode = "receive"
  THEN /\ Figure["receive"][r] < 0
       /\ OnHand[r] + Figure["receive"][r] < 0 \/ OnHand[r] + Figure["receive"][r] < Reserved[r]
  ELSE Figure["restate"][r] # OnHand[r] /\ Figure["restate"][r] < Reserved[r]
Moving(k) == {r \in Row : ChunkOf[r] = k /\ ~RefusedAtFirst(r) /\ Asked(r) # 0}

OneWorker ==
  /\ \A v, w \in Working : v = w
  /\ Working # {} => jobStatus = "Processing"

PurgedIsCancelled ==
  /\ \A w \in Worker : worker[w].step = "purge" => jobStatus = "Cancelled"
  /\ \A r \in Row : rowState[r] = "gone" => jobStatus = "Cancelled"

Untouched ==
  jobStatus \in {"Validated", "Cancelled"} =>
    onHand = OnHand /\ \A k \in Chunk : chunkBatch[k] = NoLines

\* The rows of a chunk are done with together, and a worker has all that are left.
ChunksWhole ==
  /\ \A q, r \in Row : ChunkOf[q] = ChunkOf[r] => (rowState[q] = "pending" <=> rowState[r] = "pending")
  /\ \A w \in Worker : worker[w].step \in {"read", "post", "fold", "mark"} =>
       worker[w].rows = {r \in Row : rowState[r] = "pending" /\ ChunkOf[r] = worker[w].chunk}
  /\ \A w \in Worker : worker[w].step \in {"post", "fold", "mark"} =>
       worker[w].refused \subseteq worker[w].rows

BatchIsWhole == \A k \in Chunk : chunkBatch[k] # NoLines => DOMAIN chunkBatch[k] = Moving(k)

BatchIsFolded ==
  \A k \in Chunk : chunkBatch[k] # NoLines =>
    \/ \E w \in Worker : Folds(w) /\ worker[w].chunk = k
    \/ \A r \in Moving(k) : IsMoved(r)

\* A row that is not refused is moved by the time it is marked.
RowsGetThere ==
  \A w \in Worker :
    /\ worker[w].step = "post" =>
         /\ DOMAIN worker[w].lines \subseteq Moving(worker[w].chunk)
         /\ chunkBatch[worker[w].chunk] = NoLines => DOMAIN worker[w].lines = Moving(worker[w].chunk)
         /\ \A r \in worker[w].rows \ worker[w].refused : r \in DOMAIN worker[w].lines \/ IsMoved(r)
    /\ worker[w].step = "fold" =>
         \A r \in worker[w].rows \ worker[w].refused : r \in Moving(worker[w].chunk) \/ IsMoved(r)
    /\ worker[w].step = "mark" =>
         \A r \in worker[w].rows \ worker[w].refused : IsMoved(r)

Unwell == tally.bad > 0 \/ \E w \in Worker : worker[w].step = "count" /\ worker[w].refused # {}

RowsAreTrue ==
  Unwell \/ \A r \in Row : rowState[r] # "failed" /\ (rowState[r] = "processed" => IsMoved(r))

EndIsTrue ==
  /\ \A w \in Worker : worker[w].step = "finish" => Pending = {}
  /\ jobStatus = "Completed" => Pending = {} /\ tally.bad = 0

JobFacts ==
  /\ OneWorker /\ PurgedIsCancelled /\ Untouched /\ ChunksWhole /\ BatchIsWhole /\ BatchIsFolded
  /\ RowsGetThere /\ RowsAreTrue /\ EndIsTrue

JobInv == importOdd = {} => JobFacts

\* What a row asks depends on the job's mode, which stays.
LEMMA SameAsked ==
  ASSUME importMode' = importMode
  PROVE  /\ \A r \in Row : Asked(r)' = Asked(r)
         /\ \A k \in Chunk : Moving(k)' = Moving(k)
BY DEF Asked, Moving, RefusedAtFirst

\* What has not moved is refused now as it was at first.
LEMMA RefusedTheSame ==
  ASSUME ImportTypes, NEW r \in Row, onHand[r] = OnHand[r] PROVE Refused(r) <=> RefusedAtFirst(r)
BY DEF Refused, RefusedAtFirst, After, ImportTypes

\* A row whose line comes to nothing has what it asked for.
LEMMA NothingToMove ==
  ASSUME ImportTypes, MoveInv, NEW r \in Row, LineOf(r) = 0 PROVE IsMoved(r)
<1>1. onHand[r] \in Int /\ OnHand[r] \in Int
  BY DEF ImportTypes
<1>2. onHand[r] = OnHand[r] \/ onHand[r] = OnHand[r] + Asked(r)
  BY DEF MoveInv, MovedOnce
<1> QED BY <1>1, <1>2 DEF LineOf, Asked, IsMoved, Mode, ImportTypes

LEMMA AloneAtWork ==
  ASSUME OneWorker, NEW w \in Worker, worker[w].step \in Processing
  PROVE  /\ \A v \in Worker : v # w => worker[v].step \notin Processing
         /\ jobStatus = "Processing"
BY DEF OneWorker, Working

\* A worker that goes, or moves on to a step without a chunk.
LEMMA StillJobFacts ==
  ASSUME ImportTypes, JobFacts, Still, NEW w \in Worker,
         \A v \in Worker : v # w => worker'[v] = worker[v],
         worker'[w].step \notin {"read", "post", "fold", "mark", "count", "finish"},
         ~Folds(w), worker[w].step # "count"
  PROVE  /\ ChunksWhole' /\ BatchIsWhole' /\ BatchIsFolded' /\ RowsGetThere' /\ RowsAreTrue'
         /\ \A v \in Worker : worker'[v].step = "finish" => Pending' = {}
         /\ Pending' = Pending
<1>1. /\ \A r \in Row : Asked(r)' = Asked(r)
      /\ \A k \in Chunk : Moving(k)' = Moving(k)
      /\ \A r \in Row : IsMoved(r)' <=> IsMoved(r)
  BY SameAsked DEF Still, IsMoved
<1>2. Pending' = Pending
  BY DEF Pending, Still
<1>3. ChunksWhole'
  BY DEF JobFacts, ChunksWhole, Still
<1>4. BatchIsWhole'
  BY <1>1 DEF JobFacts, BatchIsWhole, Still
<1>5. BatchIsFolded'
  <2>1. \A v \in Worker : v # w => (Folds(v)' <=> Folds(v))
    BY DEF Folds
  <2>2. \A k \in Chunk : \A r \in Moving(k) : r \in Row
    BY DEF Moving
  <2> QED BY <1>1, <2>1, <2>2 DEF JobFacts, BatchIsFolded, Still
<1>6. RowsGetThere'
  <2>1. \A v \in Worker : worker[v].rows \subseteq Row
    BY DEF ImportTypes, Work
  <2>2. \A v \in Worker : Moving(worker[v].chunk)' = Moving(worker'[v].chunk)
    BY DEF Moving, RefusedAtFirst, Asked, Still
  <2> QED BY <1>1, <2>1, <2>2 DEF JobFacts, RowsGetThere, Still, Moving, RefusedAtFirst
<1>7. RowsAreTrue'
  BY <1>1 DEF JobFacts, RowsAreTrue, Unwell, Still
<1>8. \A v \in Worker : worker'[v].step = "finish" => Pending' = {}
  BY <1>2 DEF JobFacts, EndIsTrue
<1> QED BY <1>2, <1>3, <1>4, <1>5, <1>6, <1>7, <1>8

LEMMA RequestsJob ==
  ASSUME ImportTypes, JobFacts, NEW w \in Worker, importOdd' = {},
         ReadsToConfirm(w) \/ ConfirmsJob(w) \/ ReadsToResume(w) \/ ReadsToCancelJob(w) \/ CancelsJob(w)
  PROVE  JobFacts'
<1>1. /\ Still /\ \A v \in Worker : v # w => worker'[v] = worker[v]
      /\ worker[w].step \in {"none", "confirm", "cancel"}
      /\ worker'[w].step \in {"confirm", "claim", "cancel", "purge"}
      /\ worker'[w].step = "purge" => jobStatus' = "Cancelled"
      /\ \/ jobStatus' = jobStatus
         \/ jobStatus = "Validated" /\ jobStatus' \in {"Processing", "Cancelled"}
  BY RequestsEffect DEF Moves
<1>2. ~Folds(w) /\ worker[w].step # "count"
  BY <1>1 DEF Folds
<1>3. /\ ChunksWhole' /\ BatchIsWhole' /\ BatchIsFolded' /\ RowsGetThere' /\ RowsAreTrue'
      /\ \A v \in Worker : worker'[v].step = "finish" => Pending' = {}
      /\ Pending' = Pending
  BY <1>1, <1>2, StillJobFacts
<1>4. Working' = Working
  BY <1>1 DEF Working, Processing
<1>5. jobStatus = "Validated" => Working = {}
  BY DEF JobFacts, OneWorker
<1>6. OneWorker'
  BY <1>1, <1>4, <1>5 DEF JobFacts, OneWorker
<1>7. PurgedIsCancelled'
  BY <1>1 DEF JobFacts, PurgedIsCancelled, Still
<1>8. Untouched'
  BY <1>1 DEF JobFacts, Untouched, Still
<1>9. EndIsTrue'
  BY <1>1, <1>3 DEF JobFacts, EndIsTrue, Still
<1> QED BY <1>3, <1>6, <1>7, <1>8, <1>9 DEF JobFacts

\* The claim, the end of a job, a failure and a death.
LEMMA ProcessorJob ==
  ASSUME ImportTypes, JobFacts, NEW w \in Worker, importOdd' = {},
         ClaimsJob(w) \/ FinishesJob(w) \/ ThrowsProcessing(w) \/ FailsJob(w) \/ DiesImporting(w)
  PROVE  JobFacts'
<1>1. /\ Still /\ \A v \in Worker : v # w => worker'[v] = worker[v]
      /\ ~Folds(w) /\ worker[w].step # "count"
      /\ worker'[w].step \in {"none", "pick", "failing"}
  <2>1. CASE ClaimsJob(w)
    BY <2>1, ProcessorEffect, NoWorkFits DEF Moves, Goes, Folds
  <2>2. CASE FinishesJob(w) \/ FailsJob(w)
    BY <2>2, ProcessorEffect, NoWorkFits DEF Goes, Folds
  <2>3. CASE ThrowsProcessing(w) \/ DiesImporting(w)
    BY <2>3, ProcessorEffect, NoWorkFits DEF Goes, Moves
  <2> QED BY <2>1, <2>2, <2>3
<1>2. /\ ChunksWhole' /\ BatchIsWhole' /\ BatchIsFolded' /\ RowsGetThere' /\ RowsAreTrue'
      /\ \A v \in Worker : worker'[v].step = "finish" => Pending' = {}
      /\ Pending' = Pending
  BY <1>1, StillJobFacts
<1>3. /\ OneWorker' /\ (jobStatus' \in {"Validated", "Cancelled"} => jobStatus' = jobStatus)
      /\ jobStatus' # jobStatus => jobStatus = "Processing"
      /\ jobStatus' = "Completed" => jobStatus' = jobStatus \/ (Pending = {} /\ tally.bad = 0)
  <2>1. CASE ClaimsJob(w)
    <3>1. CASE Goes(w)
      <4>1. jobStatus' = jobStatus /\ Working' = Working
        BY <2>1, <3>1, ProcessorEffect, NoWorkFits DEF Goes, Working, Processing
      <4> QED BY <4>1 DEF JobFacts, OneWorker
    <3>2. CASE ~Goes(w)
      <4>1. /\ jobStatus' = jobStatus /\ jobStatus = "Processing" /\ Working = {}
            /\ worker'[w].step = "pick"
        BY <2>1, <3>2, ProcessorEffect DEF Moves
      <4>2. Working' = {w}
        BY <1>1, <4>1 DEF Working, Processing
      <4> QED BY <4>1, <4>2 DEF OneWorker
    <3> QED BY <3>1, <3>2
  <2>2. CASE FinishesJob(w) \/ FailsJob(w)
    <3>1. /\ worker[w].step \in {"finish", "failing"} /\ worker'[w].step = "none"
          /\ jobStatus' \in {"Partial", "Completed", "Failed"}
          /\ jobStatus' = "Completed" => worker[w].step = "finish" /\ ~(tally.bad > 0)
      BY <2>2, ProcessorEffect, NoWorkFits DEF Goes
    <3>2. jobStatus = "Processing" /\ \A v \in Worker : v # w => worker[v].step \notin Processing
      BY <3>1, AloneAtWork DEF JobFacts, Processing
    <3>3. Working' = {}
      BY <1>1, <3>1, <3>2 DEF Working, Processing
    <3>4. tally.bad \in Nat
      BY DEF ImportTypes
    <3> QED BY <3>1, <3>2, <3>3, <3>4 DEF OneWorker, JobFacts, EndIsTrue
  <2>3. CASE ThrowsProcessing(w)
    <3>1. worker[w].step \in Processing /\ worker'[w].step = "failing" /\ jobStatus' = jobStatus
      BY <2>3, ProcessorEffect DEF Moves
    <3>2. Working' = Working
      BY <1>1, <3>1 DEF Working, Processing
    <3> QED BY <3>1, <3>2 DEF JobFacts, OneWorker
  <2>4. CASE DiesImporting(w)
    <3>1. worker'[w].step = "none" /\ jobStatus' = jobStatus
      BY <2>4, ProcessorEffect, NoWorkFits DEF Goes
    <3>2. Working' \subseteq Working
      BY <1>1, <3>1 DEF Working, Processing
    <3> QED BY <3>1, <3>2 DEF JobFacts, OneWorker
  <2> QED BY <2>1, <2>2, <2>3, <2>4
<1>4. PurgedIsCancelled'
  BY <1>1, <1>3 DEF JobFacts, PurgedIsCancelled, Still
<1>5. Untouched'
  BY <1>1, <1>3 DEF JobFacts, Untouched, Still
<1>6. EndIsTrue'
  BY <1>1, <1>2, <1>3 DEF JobFacts, EndIsTrue, Still
<1> QED BY <1>2, <1>3, <1>4, <1>5, <1>6 DEF JobFacts

LEMMA PurgesJob ==
  ASSUME ImportTypes, JobFacts, NEW w \in Worker, PurgesRows(w) PROVE JobFacts'
<1>1. /\ UNCHANGED <<onHand, chunkBatch, tally, importMode, jobStatus>>
      /\ worker[w].step = "purge" /\ worker'[w].step = "none"
      /\ \A v \in Worker : v # w => worker'[v] = worker[v]
      /\ \A r \in Row : rowState'[r] = "gone"
  BY RequestsEffect, NoWorkFits DEF Goes
<1>2. jobStatus = "Cancelled" /\ Working = {}
  BY <1>1 DEF JobFacts, PurgedIsCancelled, OneWorker
<1>3. \A v \in Worker : worker'[v].step \notin Processing
  BY <1>1, <1>2 DEF Working, Processing
<1>4. OneWorker'
  BY <1>3 DEF OneWorker, Working
<1>5. PurgedIsCancelled' /\ Untouched'
  BY <1>1, <1>2 DEF JobFacts, PurgedIsCancelled, Untouched
<1>6. ChunksWhole'
  BY <1>1, <1>3 DEF ChunksWhole, Processing
<1>7. \A k \in Chunk : chunkBatch'[k] = NoLines
  BY <1>1, <1>2 DEF JobFacts, Untouched
<1>8. BatchIsWhole' /\ BatchIsFolded'
  BY <1>7 DEF BatchIsWhole, BatchIsFolded
<1>9. RowsGetThere'
  BY <1>3 DEF RowsGetThere, Processing
<1>10. RowsAreTrue' /\ EndIsTrue'
  BY <1>1, <1>2, <1>3 DEF RowsAreTrue, EndIsTrue, Processing
<1> QED BY <1>4, <1>5, <1>6, <1>8, <1>9, <1>10 DEF JobFacts

\* A worker that stays at work leaves it the only one.
LEMMA StaysAtWork ==
  ASSUME JobFacts, NEW w \in Worker, worker[w].step \in Processing, worker'[w].step \in Processing,
         \A v \in Worker : v # w => worker'[v] = worker[v], jobStatus' = jobStatus
  PROVE  /\ OneWorker' /\ jobStatus = "Processing"
         /\ \A v \in Worker : v # w => worker'[v].step \notin Processing
         /\ \A v \in Worker : worker'[v].step = "purge" => jobStatus' = "Cancelled"
         /\ Untouched'
<1>1. jobStatus = "Processing" /\ \A v \in Worker : v # w => worker[v].step \notin Processing
  BY AloneAtWork DEF JobFacts
<1>2. \A v \in Worker : v # w => worker'[v].step \notin Processing
  BY <1>1
<1>3. OneWorker'
  BY <1>1, <1>2 DEF OneWorker, Working
<1>4. worker'[w].step # "purge"
  BY DEF Processing
<1> QED BY <1>1, <1>2, <1>3, <1>4 DEF JobFacts, PurgedIsCancelled, Untouched

LEMMA PicksJob ==
  ASSUME ImportTypes, JobFacts, NEW w \in Worker, PicksChunk(w) PROVE JobFacts'
<1>1. /\ Still /\ jobStatus' = jobStatus /\ worker[w].step = "pick"
      /\ worker'[w].step \in {"finish", "read"}
      /\ worker'[w].step = "finish" => Pending = {}
      /\ worker'[w].step = "read" =>
           worker'[w].rows = {r \in Row : rowState[r] = "pending" /\ ChunkOf[r] = worker'[w].chunk}
      /\ \A v \in Worker : v # w => worker'[v] = worker[v]
  BY PicksEffect DEF Pending
<1>2. /\ OneWorker' /\ jobStatus = "Processing" /\ Untouched'
      /\ \A v \in Worker : v # w => worker'[v].step \notin Processing
      /\ \A v \in Worker : worker'[v].step = "purge" => jobStatus' = "Cancelled"
  BY <1>1, StaysAtWork DEF Processing
<1>3. /\ \A r \in Row : Asked(r)' = Asked(r)
      /\ \A k \in Chunk : Moving(k)' = Moving(k)
      /\ \A r \in Row : IsMoved(r)' <=> IsMoved(r)
  BY <1>1, SameAsked DEF Still, IsMoved
<1>4. PurgedIsCancelled'
  BY <1>1, <1>2 DEF JobFacts, PurgedIsCancelled, Still
<1>5. ChunksWhole'
  BY <1>1, <1>2 DEF JobFacts, ChunksWhole, Still, Processing
<1>6. BatchIsWhole'
  BY <1>1, <1>3 DEF JobFacts, BatchIsWhole, Still
<1>7. BatchIsFolded'
  <2>1. ~Folds(w) /\ \A v \in Worker : v # w => (Folds(v)' <=> Folds(v))
    BY <1>1 DEF Folds
  <2>2. \A k \in Chunk : \A r \in Moving(k) : r \in Row
    BY DEF Moving
  <2> QED BY <1>1, <1>3, <2>1, <2>2 DEF JobFacts, BatchIsFolded, Still
<1>8. RowsGetThere'
  BY <1>1, <1>2 DEF RowsGetThere, Processing
<1>9. RowsAreTrue'
  BY <1>1, <1>3 DEF JobFacts, RowsAreTrue, Unwell, Still
<1>10. EndIsTrue'
  BY <1>1, <1>2 DEF EndIsTrue, Processing, Pending, Still
<1> QED BY <1>2, <1>4, <1>5, <1>6, <1>7, <1>8, <1>9, <1>10 DEF JobFacts

LEMMA ReadsJob ==
  ASSUME ImportTypes, MoveInv, JobFacts, NEW w \in Worker, ReadsBalances(w) PROVE JobFacts'
<1> DEFINE k == worker[w].chunk
           lines == worker'[w].lines
<1>1. /\ Still /\ jobStatus' = jobStatus /\ worker[w].step = "read"
      /\ worker'[w].step \in {"mark", "post"}
      /\ worker'[w].step = "mark" => DOMAIN lines = {}
      /\ worker'[w].step = "post" => DOMAIN lines # {}
      /\ worker'[w].rows = worker[w].rows /\ worker'[w].chunk = k
      /\ worker'[w].refused = {r \in worker[w].rows : Refused(r)}
      /\ DOMAIN lines = {r \in worker[w].rows : ~Refused(r) /\ LineOf(r) # 0}
      /\ \A v \in Worker : v # w => worker'[v] = worker[v]
  BY ReadsBalancesEffect
<1>2. /\ OneWorker' /\ jobStatus = "Processing" /\ Untouched'
      /\ \A v \in Worker : v # w => worker'[v].step \notin Processing
      /\ \A v \in Worker : worker'[v].step = "purge" => jobStatus' = "Cancelled"
  BY <1>1, StaysAtWork DEF Processing
<1>3. /\ \A r \in Row : Asked(r)' = Asked(r)
      /\ \A j \in Chunk : Moving(j)' = Moving(j)
      /\ \A r \in Row : IsMoved(r)' <=> IsMoved(r)
  BY <1>1, SameAsked DEF Still, IsMoved
<1>4. worker[w].rows = {r \in Row : rowState[r] = "pending" /\ ChunkOf[r] = k}
  BY <1>1 DEF JobFacts, ChunksWhole
<1>5. PurgedIsCancelled'
  BY <1>1, <1>2 DEF JobFacts, PurgedIsCancelled, Still
<1>6. ChunksWhole'
  BY <1>1, <1>2, <1>4 DEF JobFacts, ChunksWhole, Still, Processing
<1>7. BatchIsWhole'
  BY <1>1, <1>3 DEF JobFacts, BatchIsWhole, Still
<1>8. BatchIsFolded'
  <2>1. ~Folds(w) /\ \A v \in Worker : v # w => (Folds(v)' <=> Folds(v))
    BY <1>1 DEF Folds
  <2>2. \A j \in Chunk : \A r \in Moving(j) : r \in Row
    BY DEF Moving
  <2> QED BY <1>1, <1>3, <2>1, <2>2 DEF JobFacts, BatchIsFolded, Still
<1>9. \A r \in worker[w].rows \ worker'[w].refused : r \in DOMAIN lines \/ IsMoved(r)
  BY <1>1, <1>4, NothingToMove
<1>10. DOMAIN lines \subseteq Moving(k)
  <2> SUFFICES ASSUME NEW r \in DOMAIN lines PROVE r \in Moving(k)
    OBVIOUS
  <2>1. r \in Row /\ ChunkOf[r] = k /\ ~Refused(r) /\ LineOf(r) # 0 /\ k \in Chunk
    BY <1>1, <1>4 DEF Chunk
  <2>2. CASE onHand[r] = OnHand[r]
    BY <2>1, <2>2, RefusedTheSame, AsksTheSame DEF Moving
  <2>3. CASE onHand[r] # OnHand[r]
    <3>1. r \in DOMAIN chunkBatch[k]
      BY <2>1, <2>3 DEF MoveInv, MovedOnce
    <3>2. chunkBatch[k] # NoLines
      BY <3>1, QuantityFacts
    <3> QED BY <2>1, <3>1, <3>2 DEF JobFacts, BatchIsWhole
  <2> QED BY <2>2, <2>3
<1>11. DOMAIN lines # {} /\ chunkBatch[k] = NoLines => Moving(k) \subseteq DOMAIN lines
  <2> SUFFICES ASSUME DOMAIN lines # {}, chunkBatch[k] = NoLines, NEW r \in Moving(k)
               PROVE  r \in DOMAIN lines
    OBVIOUS
  <2>1. r \in Row /\ ChunkOf[r] = k /\ ~RefusedAtFirst(r) /\ Asked(r) # 0
    BY DEF Moving
  <2>2. PICK q \in Row : rowState[q] = "pending" /\ ChunkOf[q] = k
    BY <1>1, <1>4
  <2>3. r \in worker[w].rows
    BY <1>4, <2>1, <2>2 DEF JobFacts, ChunksWhole
  <2>4. onHand[r] = OnHand[r]
    BY <2>1, QuantityFacts DEF MoveInv, MovedOnce
  <2> QED BY <1>1, <2>1, <2>3, <2>4, RefusedTheSame, AsksTheSame
<1>12. RowsGetThere'
  <2>1. Moving(k)' = Moving(k)
    BY <1>1 DEF Moving, RefusedAtFirst, Asked, Still
  <2>2. \A v \in Worker : worker'[v].step \in {"post", "fold", "mark"} => v = w
    BY <1>2 DEF Processing
  <2>3. \A r \in worker[w].rows : r \in Row
    BY <1>4
  <2>4. /\ worker'[w].step = "post" =>
             /\ DOMAIN lines \subseteq Moving(k)
             /\ chunkBatch[k] = NoLines => DOMAIN lines = Moving(k)
             /\ \A r \in worker[w].rows \ worker'[w].refused : r \in DOMAIN lines \/ IsMoved(r)
        /\ worker'[w].step = "mark" =>
             \A r \in worker[w].rows \ worker'[w].refused : IsMoved(r)
        /\ worker'[w].step # "fold"
    BY <1>1, <1>9, <1>10, <1>11
  <2>5. chunkBatch' = chunkBatch
    BY <1>1 DEF Still
  <2> QED BY <1>1, <1>3, <2>1, <2>2, <2>3, <2>4, <2>5 DEF RowsGetThere
<1>13. RowsAreTrue'
  BY <1>1, <1>3 DEF JobFacts, RowsAreTrue, Unwell, Still
<1>14. EndIsTrue'
  BY <1>1, <1>2 DEF EndIsTrue, Processing
<1> QED BY <1>2, <1>5, <1>6, <1>7, <1>8, <1>12, <1>13, <1>14 DEF JobFacts

LEMMA PostsJob ==
  ASSUME ImportTypes, MoveInv, JobFacts, NEW w \in Worker, PostsChunk(w) PROVE JobFacts'
<1> DEFINE k == worker[w].chunk
<1>0. k \in Chunk /\ DOMAIN worker[w].lines # {}
  BY DEF PostsChunk, MoveInv, LinesAsk
<1>1. /\ UNCHANGED <<onHand, rowState, tally, importMode, jobStatus>>
      /\ worker[w].step = "post" /\ worker'[w].step = "fold"
      /\ worker'[w].rows = worker[w].rows /\ worker'[w].chunk = k
      /\ worker'[w].refused = worker[w].refused
      /\ worker'[w].replayed <=> chunkBatch[k] # NoLines
      /\ chunkBatch'[k] = IF chunkBatch[k] # NoLines THEN chunkBatch[k] ELSE worker[w].lines
      /\ \A j \in Chunk : j # k => chunkBatch'[j] = chunkBatch[j]
      /\ \A v \in Worker : v # w => worker'[v] = worker[v]
  BY <1>0, PostsChunkEffect
<1>2. /\ OneWorker' /\ jobStatus = "Processing"
      /\ \A v \in Worker : v # w => worker'[v].step \notin Processing
      /\ \A v \in Worker : worker'[v].step = "purge" => jobStatus' = "Cancelled"
  BY <1>1, StaysAtWork DEF Processing
<1>3. /\ \A r \in Row : Asked(r)' = Asked(r)
      /\ \A j \in Chunk : Moving(j)' = Moving(j)
      /\ \A r \in Row : IsMoved(r)' <=> IsMoved(r)
  BY <1>1, SameAsked DEF IsMoved
<1>4. PurgedIsCancelled' /\ Untouched'
  BY <1>1, <1>2 DEF JobFacts, PurgedIsCancelled, Untouched
<1>5. ChunksWhole'
  BY <1>1, <1>2 DEF JobFacts, ChunksWhole, Processing
<1>6. /\ DOMAIN worker[w].lines \subseteq Moving(k)
      /\ chunkBatch[k] = NoLines => DOMAIN worker[w].lines = Moving(k)
      /\ \A r \in worker[w].rows \ worker[w].refused : r \in DOMAIN worker[w].lines \/ IsMoved(r)
  BY <1>1 DEF JobFacts, RowsGetThere
<1>7. BatchIsWhole'
  BY <1>0, <1>1, <1>3, <1>6 DEF JobFacts, BatchIsWhole
<1>8. BatchIsFolded'
  <2>1. Folds(w)' <=> chunkBatch[k] = NoLines
    BY <1>1 DEF Folds
  <2>2. \A v \in Worker : v # w => (Folds(v)' <=> Folds(v))
    BY <1>1 DEF Folds
  <2>3. ~Folds(w) /\ \A j \in Chunk : \A r \in Moving(j) : r \in Row
    BY <1>1 DEF Moving, Folds
  <2> QED BY <1>1, <1>3, <2>1, <2>2, <2>3 DEF JobFacts, BatchIsFolded
<1>9. RowsGetThere'
  <2>1. \A v \in Worker : worker'[v].step \in {"post", "fold", "mark"} => v = w
    BY <1>2 DEF Processing
  <2>2. Moving(k)' = Moving(k)
    BY <1>1 DEF Moving, RefusedAtFirst, Asked
  <2>3. worker[w].rows \subseteq Row
    BY DEF ImportTypes, Work
  <2> QED BY <1>1, <1>3, <1>6, <2>1, <2>2, <2>3 DEF RowsGetThere
<1>10. RowsAreTrue'
  BY <1>1, <1>3 DEF JobFacts, RowsAreTrue, Unwell
<1>11. EndIsTrue'
  BY <1>1, <1>2 DEF EndIsTrue, Processing
<1> QED BY <1>2, <1>4, <1>5, <1>7, <1>8, <1>9, <1>10, <1>11 DEF JobFacts

\* A chunk tried again, and a posting that fails for good.
LEMMA PostingFailsJob ==
  ASSUME ImportTypes, MoveInv, JobFacts, NEW w \in Worker, RetriesChunk(w) \/ PostFails(w)
  PROVE  JobFacts'
<1> DEFINE k == worker[w].chunk
<1>1. /\ Still /\ jobStatus' = jobStatus /\ worker[w].step = "post"
      /\ worker'[w].step \in {"read", "mark"}
      /\ worker'[w].rows = worker[w].rows /\ worker'[w].chunk = k
      /\ worker'[w].step = "mark" => worker'[w].refused = worker[w].refused \cup DOMAIN worker[w].lines
      /\ \A v \in Worker : v # w => worker'[v] = worker[v]
  BY ProcessorEffect, PostFailsEffect DEF Moves
<1>2. /\ OneWorker' /\ jobStatus = "Processing" /\ Untouched'
      /\ \A v \in Worker : v # w => worker'[v].step \notin Processing
      /\ \A v \in Worker : worker'[v].step = "purge" => jobStatus' = "Cancelled"
  BY <1>1, StaysAtWork DEF Processing
<1>3. /\ \A r \in Row : Asked(r)' = Asked(r)
      /\ \A j \in Chunk : Moving(j)' = Moving(j)
      /\ \A r \in Row : IsMoved(r)' <=> IsMoved(r)
  BY <1>1, SameAsked DEF Still, IsMoved
<1>4. PurgedIsCancelled'
  BY <1>1, <1>2 DEF JobFacts, PurgedIsCancelled, Still
<1>5. worker[w].refused \subseteq worker[w].rows /\ DOMAIN worker[w].lines \subseteq worker[w].rows
  BY <1>1 DEF JobFacts, ChunksWhole, MoveInv, LinesAsk
<1>6. ChunksWhole'
  BY <1>1, <1>2, <1>5 DEF JobFacts, ChunksWhole, Still, Processing
<1>7. BatchIsWhole'
  BY <1>1, <1>3 DEF JobFacts, BatchIsWhole, Still
<1>8. BatchIsFolded'
  <2>1. ~Folds(w) /\ \A v \in Worker : v # w => (Folds(v)' <=> Folds(v))
    BY <1>1 DEF Folds
  <2>2. \A j \in Chunk : \A r \in Moving(j) : r \in Row
    BY DEF Moving
  <2> QED BY <1>1, <1>3, <2>1, <2>2 DEF JobFacts, BatchIsFolded, Still
<1>9. RowsGetThere'
  <2>1. \A v \in Worker : worker'[v].step \in {"post", "fold", "mark"} => v = w /\ worker'[v].step = "mark"
    BY <1>1, <1>2 DEF Processing
  <2>2. worker[w].rows \subseteq Row
    BY DEF ImportTypes, Work
  <2>3. \A r \in worker[w].rows \ worker[w].refused : r \in DOMAIN worker[w].lines \/ IsMoved(r)
    BY <1>1 DEF JobFacts, RowsGetThere
  <2> QED BY <1>1, <1>3, <2>1, <2>2, <2>3 DEF RowsGetThere
<1>10. RowsAreTrue'
  BY <1>1, <1>3 DEF JobFacts, RowsAreTrue, Unwell, Still
<1>11. EndIsTrue'
  BY <1>1, <1>2 DEF EndIsTrue, Processing
<1> QED BY <1>2, <1>4, <1>6, <1>7, <1>8, <1>9, <1>10, <1>11 DEF JobFacts

LEMMA FoldsJob ==
  ASSUME ImportTypes, MoveInv, JobFacts, NEW w \in Worker, FoldsChunk(w) PROVE JobFacts'
<1> DEFINE k == worker[w].chunk
<1>0. k \in Chunk /\ chunkBatch[k] # NoLines /\ worker[w].step = "fold"
  BY DEF FoldsChunk, MoveInv, PosterFolds
<1>1. /\ UNCHANGED <<chunkBatch, rowState, tally, importMode, jobStatus>>
      /\ worker'[w].step = "mark"
      /\ worker'[w].rows = worker[w].rows /\ worker'[w].chunk = k
      /\ worker'[w].refused = worker[w].refused
      /\ \A r \in Row : onHand'[r] =
           IF ~worker[w].replayed /\ r \in DOMAIN chunkBatch[k] THEN onHand[r] + chunkBatch[k][r]
                                                                ELSE onHand[r]
      /\ \A v \in Worker : v # w => worker'[v] = worker[v]
  BY <1>0, FoldsChunkEffect
<1>2. /\ OneWorker' /\ jobStatus = "Processing"
      /\ \A v \in Worker : v # w => worker'[v].step \notin Processing
      /\ \A v \in Worker : worker'[v].step = "purge" => jobStatus' = "Cancelled"
  BY <1>0, <1>1, StaysAtWork DEF Processing
<1>3. /\ \A r \in Row : Asked(r)' = Asked(r)
      /\ \A j \in Chunk : Moving(j)' = Moving(j)
  BY <1>1, SameAsked
<1>4. DOMAIN chunkBatch[k] = Moving(k)
  BY <1>0 DEF JobFacts, BatchIsWhole
<1>5. \A r \in Row : IsMoved(r) => IsMoved(r)'
  <2> SUFFICES ASSUME NEW r \in Row, IsMoved(r) PROVE onHand'[r] = onHand[r] \/ IsMoved(r)'
    BY <1>1, <1>3 DEF IsMoved
  <2>1. CASE Folds(w) /\ r \in DOMAIN chunkBatch[k]
    <3>1. chunkBatch[k][r] = Asked(r) /\ onHand[r] = OnHand[r]
      BY <1>0, <2>1 DEF MoveInv, BatchIsAsked, PosterFolds
    <3> QED BY <1>1, <1>3, <2>1, <3>1 DEF IsMoved, Folds
  <2>2. CASE ~(Folds(w) /\ r \in DOMAIN chunkBatch[k])
    BY <1>0, <1>1, <2>2 DEF Folds
  <2> QED BY <2>1, <2>2
<1>6. \A r \in Moving(k) : IsMoved(r)'
  <2> SUFFICES ASSUME NEW r \in Moving(k) PROVE IsMoved(r)'
    OBVIOUS
  <2>1. r \in Row
    BY DEF Moving
  <2>2. CASE Folds(w)
    <3>1. chunkBatch[k][r] = Asked(r) /\ onHand[r] = OnHand[r] /\ r \in DOMAIN chunkBatch[k]
      BY <1>0, <1>4, <2>2 DEF MoveInv, BatchIsAsked, PosterFolds
    <3> QED BY <1>1, <1>3, <2>1, <2>2, <3>1 DEF IsMoved, Folds
  <2>3. CASE ~Folds(w)
    <3>1. \A v \in Worker : ~Folds(v)
      BY <1>0, <1>1, <1>2, <2>3 DEF Folds, Processing
    <3>2. IsMoved(r)
      BY <1>0, <3>1 DEF JobFacts, BatchIsFolded
    <3> QED BY <1>5, <2>1, <3>2
  <2> QED BY <2>2, <2>3
<1>7. PurgedIsCancelled' /\ Untouched'
  BY <1>1, <1>2 DEF JobFacts, PurgedIsCancelled, Untouched
<1>8. ChunksWhole'
  BY <1>0, <1>1, <1>2 DEF JobFacts, ChunksWhole, Processing
<1>9. BatchIsWhole'
  BY <1>1, <1>3 DEF JobFacts, BatchIsWhole
<1>10. BatchIsFolded'
  <2>1. \A v \in Worker : Folds(v) => v = w
    BY <1>1, <1>2 DEF Folds, Processing
  <2>2. \A j \in Chunk : \A r \in Moving(j) : r \in Row
    BY DEF Moving
  <2> QED BY <1>1, <1>3, <1>5, <1>6, <2>1, <2>2 DEF JobFacts, BatchIsFolded
<1>11. RowsGetThere'
  <2>1. \A v \in Worker : worker'[v].step \in {"post", "fold", "mark"} => v = w /\ worker'[v].step = "mark"
    BY <1>1, <1>2 DEF Processing
  <2>2. worker[w].rows \subseteq Row
    BY DEF ImportTypes, Work
  <2>3. \A r \in worker[w].rows \ worker[w].refused : r \in Moving(k) \/ IsMoved(r)
    BY <1>0 DEF JobFacts, RowsGetThere
  <2> QED BY <1>1, <1>5, <1>6, <2>1, <2>2, <2>3 DEF RowsGetThere
<1>12. RowsAreTrue'
  BY <1>0, <1>1, <1>5 DEF JobFacts, RowsAreTrue, Unwell
<1>13. EndIsTrue'
  BY <1>1, <1>2 DEF EndIsTrue, Processing
<1> QED BY <1>2, <1>7, <1>8, <1>9, <1>10, <1>11, <1>12, <1>13 DEF JobFacts

LEMMA MarksJob ==
  ASSUME ImportTypes, JobFacts, NEW w \in Worker, MarksRows(w) PROVE JobFacts'
<1>1. /\ UNCHANGED <<onHand, chunkBatch, tally, importMode, jobStatus>>
      /\ worker[w].step = "mark" /\ worker'[w].step = "count"
      /\ worker'[w].rows = worker[w].rows /\ worker'[w].refused = worker[w].refused
      /\ \A r \in Row :
           /\ rowState[r] # "pending" => rowState'[r] = rowState[r]
           /\ rowState[r] = "pending" =>
                /\ rowState'[r] \in {"pending", "processed", "failed"}
                /\ rowState'[r] = "failed" => r \in worker[w].refused
                /\ rowState'[r] = "processed" => r \in worker[w].rows
                /\ rowState'[r] = "pending" => r \notin worker[w].rows
                /\ rowState'[r] # "pending" => r \in worker[w].rows \cup worker[w].refused
      /\ \A v \in Worker : v # w => worker'[v] = worker[v]
  BY MarksEffect
<1>2. /\ OneWorker' /\ jobStatus = "Processing"
      /\ \A v \in Worker : v # w => worker'[v].step \notin Processing
      /\ \A v \in Worker : worker'[v].step = "purge" => jobStatus' = "Cancelled"
  BY <1>1, StaysAtWork DEF Processing
<1>3. /\ \A r \in Row : Asked(r)' = Asked(r)
      /\ \A k \in Chunk : Moving(k)' = Moving(k)
      /\ \A r \in Row : IsMoved(r)' <=> IsMoved(r)
  BY <1>1, SameAsked DEF IsMoved
<1>4. PurgedIsCancelled' /\ Untouched'
  BY <1>1, <1>2 DEF JobFacts, PurgedIsCancelled, Untouched
<1>5. /\ worker[w].rows = {r \in Row : rowState[r] = "pending" /\ ChunkOf[r] = worker[w].chunk}
      /\ worker[w].refused \subseteq worker[w].rows
  BY <1>1 DEF JobFacts, ChunksWhole
<1>6. \A r \in Row : rowState'[r] = "pending" <=> rowState[r] = "pending" /\ ChunkOf[r] # worker[w].chunk
  BY <1>1, <1>5
<1>7. ChunksWhole'
  BY <1>1, <1>2, <1>6 DEF JobFacts, ChunksWhole, Processing
<1>8. BatchIsWhole'
  BY <1>1, <1>3 DEF JobFacts, BatchIsWhole
<1>9. BatchIsFolded'
  <2>1. ~Folds(w) /\ \A v \in Worker : v # w => (Folds(v)' <=> Folds(v))
    BY <1>1 DEF Folds
  <2>2. \A k \in Chunk : \A r \in Moving(k) : r \in Row
    BY DEF Moving
  <2> QED BY <1>1, <1>3, <2>1, <2>2 DEF JobFacts, BatchIsFolded
<1>10. RowsGetThere'
  BY <1>1, <1>2 DEF RowsGetThere, Processing
<1>11. RowsAreTrue'
  <2>1. \A r \in worker[w].rows \ worker[w].refused : IsMoved(r)
    BY <1>1 DEF JobFacts, RowsGetThere
  <2>2. CASE worker[w].refused # {}
    BY <1>1, <2>2 DEF RowsAreTrue, Unwell
  <2>3. CASE worker[w].refused = {}
    <3>1. Unwell => Unwell'
      BY <1>1 DEF Unwell
    <3>2. CASE Unwell
      BY <3>1, <3>2 DEF RowsAreTrue
    <3>3. CASE ~Unwell
      BY <1>1, <1>3, <2>1, <2>3, <3>3 DEF JobFacts, RowsAreTrue
    <3> QED BY <3>2, <3>3
  <2> QED BY <2>2, <2>3
<1>12. EndIsTrue'
  BY <1>1, <1>2 DEF EndIsTrue, Processing
<1> QED BY <1>2, <1>4, <1>7, <1>8, <1>9, <1>10, <1>11, <1>12 DEF JobFacts

LEMMA CountsJob ==
  ASSUME ImportTypes, JobFacts, NEW w \in Worker, CountsRows(w) PROVE JobFacts'
<1>1. /\ UNCHANGED <<onHand, chunkBatch, rowState, importMode, jobStatus>>
      /\ worker[w].step = "count" /\ worker'[w].step = "pick"
      /\ tally'.bad >= tally.bad /\ (worker[w].refused # {} => tally'.bad > 0)
      /\ tally.bad \in Nat /\ tally'.bad \in Nat
      /\ \A v \in Worker : v # w => worker'[v] = worker[v]
  BY CountsEffect DEF ImportTypes
<1>2. /\ OneWorker' /\ jobStatus = "Processing"
      /\ \A v \in Worker : v # w => worker'[v].step \notin Processing
      /\ \A v \in Worker : worker'[v].step = "purge" => jobStatus' = "Cancelled"
  BY <1>1, StaysAtWork DEF Processing
<1>3. /\ \A r \in Row : Asked(r)' = Asked(r)
      /\ \A k \in Chunk : Moving(k)' = Moving(k)
      /\ \A r \in Row : IsMoved(r)' <=> IsMoved(r)
  BY <1>1, SameAsked DEF IsMoved
<1>4. PurgedIsCancelled' /\ Untouched'
  BY <1>1, <1>2 DEF JobFacts, PurgedIsCancelled, Untouched
<1>5. ChunksWhole'
  BY <1>1, <1>2 DEF JobFacts, ChunksWhole, Processing
<1>6. BatchIsWhole'
  BY <1>1, <1>3 DEF JobFacts, BatchIsWhole
<1>7. BatchIsFolded'
  <2>1. ~Folds(w) /\ \A v \in Worker : v # w => (Folds(v)' <=> Folds(v))
    BY <1>1 DEF Folds
  <2>2. \A k \in Chunk : \A r \in Moving(k) : r \in Row
    BY DEF Moving
  <2> QED BY <1>1, <1>3, <2>1, <2>2 DEF JobFacts, BatchIsFolded
<1>8. RowsGetThere'
  BY <1>1, <1>2 DEF RowsGetThere, Processing
<1>9. RowsAreTrue'
  <2>1. Unwell => Unwell'
    BY <1>1 DEF Unwell
  <2> QED BY <1>1, <1>3, <2>1 DEF JobFacts, RowsAreTrue
<1>10. EndIsTrue'
  BY <1>1, <1>2 DEF EndIsTrue, Processing
<1> QED BY <1>2, <1>4, <1>5, <1>6, <1>7, <1>8, <1>9, <1>10 DEF JobFacts

\* Every step keeps it, and an oddity once named stays so.
LEMMA StepJobInv == ImportTypes /\ MoveInv /\ JobInv /\ [ImportNext]_importVars => JobInv'
<1> SUFFICES ASSUME ImportTypes, MoveInv, JobInv, [ImportNext]_importVars, importOdd' = {} PROVE JobFacts'
  BY DEF JobInv
<1>1. CASE LockAges \/ UNCHANGED importVars
  BY <1>1 DEF LockAges, importVars, JobInv, JobFacts, OneWorker, Working, PurgedIsCancelled, Untouched,
     ChunksWhole, BatchIsWhole, BatchIsFolded, RowsGetThere, RowsAreTrue, EndIsTrue, Unwell, Folds,
     IsMoved, Moving, RefusedAtFirst, Asked, Pending
<1>2. ASSUME NEW w \in Worker,
             \/ ReadsToConfirm(w) \/ ConfirmsJob(w) \/ ReadsToResume(w)
             \/ ReadsToCancelJob(w) \/ CancelsJob(w)
      PROVE  JobFacts'
  BY <1>2, RequestsEffect, RequestsJob DEF JobInv
<1>3. ASSUME NEW w \in Worker,
             ClaimsJob(w) \/ FinishesJob(w) \/ ThrowsProcessing(w) \/ FailsJob(w) \/ DiesImporting(w)
      PROVE  JobFacts'
  BY <1>3, ProcessorEffect, ProcessorJob DEF JobInv
<1>4. ASSUME NEW w \in Worker, PurgesRows(w) PROVE JobFacts'
  BY <1>4, RequestsEffect, PurgesJob DEF JobInv
<1>5. ASSUME NEW w \in Worker, PicksChunk(w) PROVE JobFacts'
  BY <1>5, PicksEffect, PicksJob DEF JobInv
<1>6. ASSUME NEW w \in Worker, ReadsBalances(w) PROVE JobFacts'
  BY <1>6, ReadsBalancesEffect, ReadsJob DEF JobInv
<1>7. ASSUME NEW w \in Worker, PostsChunk(w) PROVE JobFacts'
  BY <1>7, PostsJob DEF JobInv, PostsChunk
<1>8. ASSUME NEW w \in Worker, RetriesChunk(w) \/ PostFails(w) PROVE JobFacts'
  BY <1>8, PostingFailsJob DEF JobInv, RetriesChunk, PostFails
<1>9. ASSUME NEW w \in Worker, RetriesCommitted(w) PROVE JobFacts'
  BY <1>9 DEF RetriesCommitted, Befalls
<1>10. ASSUME NEW w \in Worker, FoldsChunk(w) PROVE JobFacts'
  BY <1>10, FoldsJob DEF JobInv, FoldsChunk
<1>11. ASSUME NEW w \in Worker, MarksRows(w) PROVE JobFacts'
  BY <1>11, MarksJob DEF JobInv, MarksRows
<1>12. ASSUME NEW w \in Worker, CountsRows(w) PROVE JobFacts'
  BY <1>12, CountsJob DEF JobInv, CountsRows
<1> QED BY <1>1, <1>2, <1>3, <1>4, <1>5, <1>6, <1>7, <1>8, <1>9, <1>10, <1>11, <1>12 DEF ImportNext

LEMMA InitJobInv == ImportInit => JobInv
<1> SUFFICES ASSUME ImportInit PROVE JobFacts
  BY DEF JobInv
<1>1. /\ \A w \in Worker : worker[w].step = "none"
      /\ \A k \in Chunk : chunkBatch[k] = NoLines
      /\ \A r \in Row : rowState[r] = "pending"
      /\ jobStatus = "Validated" /\ onHand = OnHand
  BY NoWorkFits DEF ImportInit
<1>2. Working = {}
  BY <1>1 DEF Working, Processing
<1> QED BY <1>1, <1>2 DEF JobFacts, OneWorker, PurgedIsCancelled, Untouched, ChunksWhole, BatchIsWhole,
        BatchIsFolded, RowsGetThere, RowsAreTrue, EndIsTrue

\* A job that ends as Completed has done what its sheet asks and one that is cancelled has
\* done nothing, unless a fold was lost, rows were left uncounted, the lock was taken over
\* or a save overtaken (runJob, confirmJob, cancelJob).
THEOREM JobsTellTruth == ImportSpec => []JobTellsTruth
<1>1. ImportTypes /\ JobInv => JobTellsTruth
  <2> SUFFICES ASSUME ImportTypes, JobFacts
               PROVE  /\ jobStatus = "Completed" => \A r \in Row : rowState[r] = "processed" /\ IsMoved(r)
                      /\ jobStatus = "Cancelled" => onHand = OnHand /\ \A k \in Chunk : chunkBatch[k] = NoLines
    BY DEF JobInv, JobTellsTruth, IsMoved
  <2>1. jobStatus = "Cancelled" => onHand = OnHand /\ \A k \in Chunk : chunkBatch[k] = NoLines
    BY DEF JobFacts, Untouched
  <2>2. ASSUME jobStatus = "Completed", NEW r \in Row PROVE rowState[r] = "processed" /\ IsMoved(r)
    <3>1. Pending = {} /\ ~(tally.bad > 0) /\ Working = {}
      BY <2>2 DEF JobFacts, EndIsTrue, OneWorker
    <3>2. ~Unwell
      BY <3>1 DEF Unwell, Working, Processing
    <3>3. rowState[r] \notin {"pending", "gone"}
      BY <2>2, <3>1 DEF Pending, JobFacts, PurgedIsCancelled
    <3> QED BY <3>2, <3>3 DEF JobFacts, RowsAreTrue, ImportTypes
  <2> QED BY <2>1, <2>2
<1> QED BY <1>1, InitMoveInv, StepMoveInv, InitJobInv, StepJobInv, PTL DEF ImportSpec

-----------------------------------------------------------------------------
(* Types.  Beyond the shapes the invariants above rest on:                 *)
(* an attempt that is still at work has tries left; a request that has not *)
(* moved a row yet has been asked and has entered nothing; a row that is   *)
(* refused is one of the worker's own.                                     *)

TriesLeft ==
  /\ attempt = [a \in Attempt |-> attempt[a]]
  /\ \A a \in Attempt :
       /\ attempt[a] \in AttemptState
       /\ attempt[a].pc \in {"waiting", "claiming"} => attempt[a].tries = 0
       /\ attempt[a].pc = "working" => attempt[a].tries < MailTries
  /\ amiss \subseteq {"forced", "abandoned", "overlapped", "unheard", "unrecorded"}

\* One attempt moves on, and has tries left.
LEMMA TriesMoveOn ==
  ASSUME TriesLeft, NEW a \in Attempt, NEW k \in AttemptState, attempt' = [attempt EXCEPT ![a] = k],
         k.pc \in {"waiting", "claiming"} => k.tries = 0,
         k.pc = "working" => k.tries < MailTries,
         amiss' \subseteq {"forced", "abandoned", "overlapped", "unheard", "unrecorded"}
  PROVE  TriesLeft'
<1>1. /\ attempt' = [b \in Attempt |-> attempt'[b]]
      /\ attempt'[a] = k /\ \A b \in Attempt : b # a => attempt'[b] = attempt[b]
  BY DEF TriesLeft
<1> QED
  BY <1>1 DEF TriesLeft

\* ... as one does that only goes on to pc.
LEMMA TriesAt ==
  ASSUME TriesLeft, NEW a \in Attempt,
         NEW pc \in {"waiting", "claiming", "working", "sent", "unsent", "over"}, At(a, pc),
         pc \in {"waiting", "claiming"} => attempt[a].tries = 0,
         pc = "working" => attempt[a].tries < MailTries,
         amiss' \subseteq {"forced", "abandoned", "overlapped", "unheard", "unrecorded"}
  PROVE  TriesLeft'
<1>1. PICK k : k = [attempt[a] EXCEPT !.pc = pc]
  OBVIOUS
<1>2. attempt[a] \in AttemptState
  BY DEF TriesLeft
<1>3. k \in AttemptState /\ k.pc = pc /\ k.tries = attempt[a].tries
  BY <1>1, <1>2 DEF AttemptState
<1>4. attempt' = [attempt EXCEPT ![a] = k]
  BY <1>1 DEF At
<1> QED
  BY <1>3, <1>4, TriesMoveOn

LEMMA StepTries == RunShape /\ TriesLeft /\ [ReportNext]_reportVars => TriesLeft'
<1> SUFFICES ASSUME RunShape, TriesLeft, [ReportNext]_reportVars PROVE TriesLeft'
  OBVIOUS
<1>1. amiss \subseteq {"forced", "abandoned", "overlapped", "unheard", "unrecorded"}
  BY DEF TriesLeft
<1>2. MailTries \in Nat \ {0} /\ run.status \in RunStatus
  BY ReportAssumption DEF RunShape
<1>3. ASSUME NEW a \in Attempt
      PROVE  attempt[a] \in AttemptState /\ attempt[a].tries \in 0..MailTries
  BY DEF TriesLeft, AttemptState
<1>4. ASSUME NEW a \in Attempt, ReadsRun(a) PROVE TriesLeft'
  <2>1. PICK yes \in {"over", "claiming"} : yes = IF Refuses(a) THEN "over" ELSE "claiming"
    OBVIOUS
  <2>2. PICK k : k = [attempt[a] EXCEPT !.saw = run.status, !.pc = yes]
    OBVIOUS
  <2>3. k \in AttemptState /\ k.pc = yes /\ k.tries = attempt[a].tries
    BY <1>2, <1>3, <2>2 DEF AttemptState
  <2>4. attempt' = [attempt EXCEPT ![a] = k] /\ attempt[a].pc = "waiting" /\ amiss' = amiss
    BY <1>4, <2>1, <2>2 DEF ReadsRun, TriesLeft
  <2>5. attempt[a].tries = 0
    BY <2>4 DEF TriesLeft
  <2> QED
    BY <1>1, <2>3, <2>4, <2>5, TriesMoveOn
<1>5. ASSUME NEW a \in Attempt, CreatesRun(a) \/ TakesRunOver(a) PROVE TriesLeft'
  <2>1. attempt[a].tries = 0 /\ attempt[a].tries < MailTries
    BY <1>2, <1>5 DEF CreatesRun, TakesRunOver, TriesLeft
  <2>2. At(a, "working") \/ At(a, "over")
    BY <1>5 DEF CreatesRun, TakesRunOver
  <2>3. amiss' \subseteq {"forced", "abandoned", "overlapped", "unheard", "unrecorded"}
    BY <1>1, <1>5 DEF CreatesRun, TakesRunOver
  <2> QED
    BY <2>1, <2>2, <2>3, TriesAt
<1>6. ASSUME NEW a \in Attempt,
             \/ PreparationFails(a) \/ MailAccepted(a) \/ RecordsRun(a) \/ RecordingFails(a) \/ AttemptDies(a)
      PROVE  TriesLeft'
  <2>1. At(a, "unsent") \/ At(a, "sent") \/ At(a, "over")
    BY <1>6 DEF PreparationFails, MailAccepted, RecordsRun, RecordingFails, AttemptDies
  <2>2. amiss' \subseteq {"forced", "abandoned", "overlapped", "unheard", "unrecorded"}
    BY <1>1, <1>6 DEF PreparationFails, MailAccepted, RecordsRun, RecordingFails, AttemptDies
  <2> QED
    BY <2>1, <2>2, TriesAt
<1>7. ASSUME NEW a \in Attempt, MailRefused(a) PROVE TriesLeft'
  <2>1. PICK n \in 0..MailTries : n = attempt[a].tries + 1 /\ attempt[a].pc = "working"
    BY <1>2, <1>3, <1>7 DEF MailRefused, TriesLeft
  <2>2. PICK to \in {"unsent", "working"} : to = IF n = MailTries THEN "unsent" ELSE "working"
    OBVIOUS
  <2>3. PICK k : k = [attempt[a] EXCEPT !.tries = n, !.pc = to]
    OBVIOUS
  <2>4. k \in AttemptState /\ k.pc = to /\ k.tries = n
    BY <1>3, <2>3 DEF AttemptState
  <2>5. attempt' = [attempt EXCEPT ![a] = k]
    <3>1. attempt' = [attempt EXCEPT ![a].tries = @ + 1,
                        ![a].pc = IF attempt[a].tries + 1 = MailTries THEN "unsent" ELSE @]
      BY <1>7 DEF MailRefused
    <3>2. attempt' = [attempt EXCEPT ![a].tries = n, ![a].pc = to]
      BY <1>3, <2>1, <2>2, <3>1 DEF AttemptState, TriesLeft
    <3> QED
      BY <2>3, <3>2 DEF TriesLeft
  <2>6. to = "working" => n < MailTries
    BY <1>2, <2>2
  <2>7. amiss' \subseteq {"forced", "abandoned", "overlapped", "unheard", "unrecorded"}
    BY <1>1, <1>7 DEF MailRefused
  <2> QED
    BY <2>2, <2>4, <2>5, <2>6, <2>7, TriesMoveOn
<1>8. CASE ClaimAges \/ UNCHANGED reportVars
  BY <1>8 DEF ClaimAges, TriesLeft
<1> QED
  BY <1>4, <1>5, <1>6, <1>7, <1>8 DEF ReportNext

\* The record and the attempts hold what they may; none tries more often than it may.
LEMMA ReportTypesHold == ReportSpec => []ReportTypeOK
<1>1. ReportInit => TriesLeft
  <2> SUFFICES ASSUME ReportInit PROVE TriesLeft
    OBVIOUS
  <2>1. PICK k : k = [pc |-> "waiting", saw |-> "none", tries |-> 0]
    OBVIOUS
  <2>2. k \in AttemptState /\ k.pc = "waiting" /\ k.tries = 0
    BY <2>1, ReportAssumption DEF AttemptState, RunStatus
  <2>3. attempt = [a \in Attempt |-> k] /\ amiss = {}
    BY <2>1 DEF ReportInit
  <2> QED
    BY <2>2, <2>3 DEF TriesLeft
<1>2. MailInv /\ TriesLeft /\ [ReportNext]_reportVars => TriesLeft'
  BY StepTries DEF MailInv
<1>3. MailInv /\ TriesLeft => ReportTypeOK
  BY DEF MailInv, RunShape, TriesLeft, ReportTypeOK
<1> QED
  BY <1>1, <1>2, <1>3, InitMailInv, StepMailInv, PTL DEF ReportSpec

\* The sessions, the cookies and the requests hold what they may.
LEMMA SessionTypesHold == SessionSpec => []SessionTypeOK
<1>1. SessionInv => SessionTypeOK
  <2> SUFFICES ASSUME SessionInv PROVE SessionTypeOK
    OBVIOUS
  <2>1. issued \in 0..MaxTokens /\ oldToken \in Token /\ MaxTokens \in Nat
    BY SessionAssumption DEF SessionInv, SessionShape, Token
  <2>2. sessions \subseteq Session
    BY DEF SessionInv, SessionShape
  <2>3. cookie \in [Browser -> Token]
    BY <2>1 DEF SessionInv, SessionShape, Token
  <2>4. tab \in [Tab -> TabState]
    <3>1. \A t \in Tab : tab[t] \in TabState
      <4> SUFFICES ASSUME NEW t \in Tab PROVE tab[t] \in TabState
        OBVIOUS
      <4>1. PICK x : x = tab[t]
        OBVIOUS
      <4>2. /\ x \in [pc : {"idle", "asked", "current", "adopting", "answered"}, token : Nat,
                      sets : Nat \cup {Clear, Keep}]
            /\ x.token <= issued /\ x.sets <= issued
        BY <4>1 DEF SessionInv, RequestShape
      <4>3. x.token \in Token /\ x.sets \in Token \cup {Clear, Keep}
        BY <2>1, <4>2 DEF Token
      <4> QED
        BY <4>1, <4>2, <4>3 DEF TabState
    <3>2. tab = [t \in Tab |-> tab[t]]
      BY DEF SessionInv, SessionShape
    <3> QED
      BY <3>1, <3>2
  <2>5. parted \in [Browser -> SUBSET {"evicted", "revoked", "outrun", "lost", "left"}]
    BY DEF SessionInv, SessionShape
  <2> QED
    BY <2>1, <2>2, <2>3, <2>4, <2>5 DEF SessionTypeOK
<1> QED
  BY <1>1, SessionBegins, SessionKeeps, PTL DEF SessionSpec

-----------------------------------------------------------------------------
\* The requests that have moved no row yet.
Undecided == {m \in Mover : mover[m].pc = "moving" /\ ~mover[m].moved}

\* They have been asked, and each may still enter the stage it is for.
EntriesAsked ==
  /\ IsFiniteSet(Undecided)
  /\ asked \in 0..MaxMoves
  /\ \A s \in Status : entered[s] + Cardinality(Undecided) <= asked

\* A request has moved no row, or it is decided.
LEMMA UndecidedIs ==
  ASSUME NEW m \in Mover, \A n \in Mover : n # m => mover'[n] = mover[n]
  PROVE  /\ mover'[m].pc # "moving" \/ mover'[m].moved => Undecided' = Undecided \ {m}
         /\ mover'[m].pc = "moving" /\ ~mover'[m].moved => Undecided' = Undecided \cup {m}
BY DEF Undecided

\* What leaves the entries alone and asks no less.
LEMMA EntriesStay ==
  ASSUME EntriesAsked, TimelineShape, entered' = entered, Undecided' \subseteq Undecided,
         asked' \in 0..MaxMoves, asked <= asked'
  PROVE  EntriesAsked'
<1>1. IsFiniteSet(Undecided')
  BY FS_Subset DEF EntriesAsked
<1>2. Cardinality(Undecided') <= Cardinality(Undecided)
  BY FS_Subset DEF EntriesAsked
<1>3. Cardinality(Undecided) \in Nat /\ Cardinality(Undecided') \in Nat
  BY <1>1, FS_CardinalityType DEF EntriesAsked
<1>4. \A s \in Status : entered[s] \in Nat /\ asked \in Nat /\ asked' \in Nat
  BY DEF TimelineShape, EntriesAsked
<1>5. PICK c, d \in Nat : c = Cardinality(Undecided) /\ d = Cardinality(Undecided')
  BY <1>3
<1>6. \A s \in Status : entered'[s] + Cardinality(Undecided') <= asked'
  BY <1>2, <1>4, <1>5 DEF EntriesAsked
<1> QED
  BY <1>1, <1>6 DEF EntriesAsked

LEMMA AsksMoveEnters ==
  ASSUME EntriesAsked, TimelineTypes, NEW m \in Mover, NEW s \in Stage, AsksMove(m, s)
  PROVE  EntriesAsked'
<1>1. /\ mover[m].pc = "idle" /\ mover'[m].pc = "moving" /\ ~mover'[m].moved
      /\ \A n \in Mover : n # m => mover'[n] = mover[n]
      /\ entered' = entered
  BY AsksMoveEffect
<1>2. asked' = asked + 1 /\ asked < MaxMoves /\ asked \in Nat
  BY DEF AsksMove, EntriesAsked
<1>3. Undecided' = Undecided \cup {m} /\ m \notin Undecided
  BY <1>1, UndecidedIs DEF Undecided
<1>4. IsFiniteSet(Undecided') /\ Cardinality(Undecided') = Cardinality(Undecided) + 1
  BY <1>3, FS_AddElement DEF EntriesAsked
<1>5. Cardinality(Undecided) \in Nat /\ \A t \in Status : entered[t] \in Nat
  BY FS_CardinalityType DEF EntriesAsked, TimelineTypes, TimelineShape
<1>6. \A t \in Status : entered'[t] + Cardinality(Undecided') <= asked'
  BY <1>1, <1>2, <1>4, <1>5 DEF EntriesAsked
<1> QED
  BY <1>2, <1>4, <1>6 DEF EntriesAsked

LEMMA VisitsRowEnters ==
  ASSUME EntriesAsked, TimelineTypes, NEW m \in Mover, NEW l \in OrderLine, VisitsRow(m, l)
  PROVE  EntriesAsked'
<1>1. PICK s \in Status : s = mover[m].to
  BY MoverFacts DEF TimelineTypes
<1>2. /\ mover[m].pc = "moving"
      /\ LET first == rowStage[l] # s /\ ~mover[m].moved
         IN  /\ entered'[s] = entered[s] + (IF first THEN 1 ELSE 0)
             /\ \A t \in Status : t # s => entered'[t] = entered[t]
             /\ Announces(m, s)' <=> mover[m].moved \/ first
      /\ \A n \in Mover : n # m => mover'[n] = mover[n]
      /\ TimelineTypes'
  BY <1>1, VisitsRowEffect
<1>3. asked' = asked
  BY DEF VisitsRow
<1>4. \A t \in Status : entered[t] \in Nat /\ entered'[t] \in Nat
  BY <1>2 DEF TimelineTypes, TimelineShape
<1>5. IsFiniteSet(Undecided) /\ Cardinality(Undecided) \in Nat /\ asked \in Nat
  BY FS_CardinalityType DEF EntriesAsked
<1>6. Announces(m, s)' => mover'[m].moved
  BY DEF Announces
<1>7. CASE rowStage[l] # s /\ ~mover[m].moved
  <2>1. m \in Undecided
    BY <1>2, <1>7 DEF Undecided
  <2>2. Undecided' = Undecided \ {m}
    BY <1>2, <1>6, <1>7, UndecidedIs
  <2>3. IsFiniteSet(Undecided') /\ Cardinality(Undecided') = Cardinality(Undecided) - 1
    BY <1>5, <2>1, <2>2, FS_RemoveElement
  <2>4. \A t \in Status : entered'[t] <= entered[t] + 1
    BY <1>2, <1>4, <1>7
  <2>5. \A t \in Status : entered'[t] + Cardinality(Undecided') <= asked'
    BY <1>3, <1>4, <1>5, <2>3, <2>4 DEF EntriesAsked
  <2> QED
    BY <1>3, <2>3, <2>5 DEF EntriesAsked
<1>8. CASE ~(rowStage[l] # s /\ ~mover[m].moved)
  <2>1. \A t \in Status : entered'[t] = entered[t]
    BY <1>2, <1>4, <1>8
  <2>2. Undecided' \subseteq Undecided
    <3>1. CASE mover[m].moved
      <4>1. Undecided' = Undecided \ {m}
        BY <1>2, <1>6, <3>1, UndecidedIs
      <4> QED
        BY <4>1
    <3>2. CASE ~mover[m].moved
      <4>1. m \in Undecided
        BY <1>2, <3>2 DEF Undecided
      <4>2. Undecided' = Undecided \ {m} \/ Undecided' = Undecided \cup {m}
        BY <1>2, UndecidedIs
      <4> QED
        BY <4>1, <4>2
    <3> QED
      BY <3>1, <3>2
  <2>3. entered' = entered
    BY <1>2, <2>1 DEF TimelineTypes, TimelineShape
  <2> QED
    BY <1>3, <2>2, <2>3, EntriesStay DEF TimelineTypes, EntriesAsked
<1> QED
  BY <1>7, <1>8

LEMMA CancelsBookingEnters ==
  ASSUME EntriesAsked, TimelineTypes, NEW m \in Mover, CancelsBooking(m)
  PROVE  EntriesAsked'
<1>1. /\ mover[m].pc = "idle" /\ asked < MaxMoves /\ asked' = asked + 1
      /\ entered[Cancelled] = 0 /\ entered' = [entered EXCEPT ![Cancelled] = 1]
  BY DEF CancelsBooking
<1>2. mover'[m].pc # "moving" /\ \A n \in Mover : n # m => mover'[n] = mover[n]
  <2>1. PICK k : k = [NoMover EXCEPT !.pc = "counting", !.moved = TRUE]
    OBVIOUS
  <2>2. k.pc = "counting"
    BY <2>1 DEF NoMover
  <2>3. mover' = [mover EXCEPT ![m] = k] /\ mover \in [Mover -> MoverState]
    BY <2>1 DEF CancelsBooking, TimelineTypes, TimelineShape
  <2> QED
    BY <2>2, <2>3
<1>3. Undecided' = Undecided
  <2>1. m \notin Undecided
    BY <1>1 DEF Undecided
  <2>2. Undecided' = Undecided \ {m}
    BY <1>2, UndecidedIs
  <2>3. PICK U : U = Undecided
    OBVIOUS
  <2>4. U \ {m} = U
    BY <2>1, <2>3
  <2> QED
    BY <2>2, <2>3, <2>4
<1>4. Cardinality(Undecided) \in Nat /\ asked \in Nat /\ \A t \in Status : entered[t] \in Nat
  BY FS_CardinalityType DEF EntriesAsked, TimelineTypes, TimelineShape
<1>5. \A t \in Status : entered'[t] <= entered[t] + 1
  BY <1>1, <1>4, StageFacts DEF TimelineTypes, TimelineShape
<1>6. \A t \in Status : entered'[t] \in Nat
  BY <1>1, <1>4, StageFacts DEF TimelineTypes, TimelineShape
<1>7. \A t \in Status : entered'[t] + Cardinality(Undecided') <= asked'
  BY <1>1, <1>3, <1>4, <1>5, <1>6 DEF EntriesAsked
<1> QED
  BY <1>1, <1>3, <1>4, <1>7 DEF EntriesAsked

\* The other requests move no rows.
LEMMA OthersEnter ==
  ASSUME EntriesAsked, TimelineTypes, NEW m \in Mover,
         \/ CountsEvents(m) \/ InsertsEvent(m) \/ EventIsLost(m) \/ StampsEvent(m)
         \/ MailIsUnsaid(m) \/ ResendsMail(m)
         \/ \E outcome \in {"sent", "failed"} : SendsMail(m, outcome)
  PROVE  EntriesAsked'
<1>1. mover \in [Mover -> MoverState]
  BY DEF TimelineTypes, TimelineShape
<1>2. /\ mover'[m].pc # "moving"
      /\ \A n \in Mover : n # m => mover'[n] = mover[n]
  <2>1. CASE CountsEvents(m)
    <3>1. PICK n : n = Occurrence(mover[m].to)
      OBVIOUS
    <3>2. mover' = [mover EXCEPT ![m].pc = "inserting", ![m].nth = n]
      BY <2>1, <3>1 DEF CountsEvents
    <3> QED
      BY <1>1, <3>2 DEF MoverState
  <2>2. CASE InsertsEvent(m)
    <3>1. PICK k : k = NoMover \/ k = [mover[m] EXCEPT !.pc = "mailing"]
      OBVIOUS
    <3>2. mover' = [mover EXCEPT ![m] = NoMover] \/ mover' = [mover EXCEPT ![m] = [mover[m] EXCEPT !.pc = "mailing"]]
      BY <2>2 DEF InsertsEvent
    <3> QED
      BY <1>1, <3>2 DEF MoverState, NoMover
  <2>3. CASE EventIsLost(m) \/ StampsEvent(m) \/ MailIsUnsaid(m)
    <3>1. mover' = [mover EXCEPT ![m] = NoMover]
      BY <2>3 DEF EventIsLost, StampsEvent, MailIsUnsaid
    <3> QED
      BY <1>1, <3>1 DEF NoMover
  <2>4. CASE ResendsMail(m)
    <3>1. PICK e \in timeline :
            mover' = [mover EXCEPT ![m] = [NoMover EXCEPT !.pc = "mailing", !.to = e.to, !.nth = e.nth]]
      BY <2>4 DEF ResendsMail
    <3>2. PICK k : k = [NoMover EXCEPT !.pc = "mailing", !.to = e.to, !.nth = e.nth]
      OBVIOUS
    <3>3. k.pc = "mailing"
      BY <3>2 DEF NoMover
    <3>4. mover' = [mover EXCEPT ![m] = k]
      BY <3>1, <3>2
    <3> QED
      BY <1>1, <3>3, <3>4
  <2>5. ASSUME NEW outcome \in {"sent", "failed"}, SendsMail(m, outcome)
        PROVE  mover'[m].pc # "moving" /\ \A n \in Mover : n # m => mover'[n] = mover[n]
    <3>1. mover' = [mover EXCEPT ![m].pc = "stamping", ![m].outcome = outcome]
      BY <2>5 DEF SendsMail
    <3> QED
      BY <1>1, <3>1 DEF MoverState
  <2> QED
    BY <2>1, <2>2, <2>3, <2>4, <2>5
<1>3. Undecided' \subseteq Undecided
  <2>1. Undecided' = Undecided \ {m}
    BY <1>2, UndecidedIs
  <2> QED
    BY <2>1
<1>4. entered' = entered
  BY DEF CountsEvents, InsertsEvent, EventIsLost, StampsEvent, MailIsUnsaid, ResendsMail, SendsMail
<1>5. asked' = asked \/ (asked < MaxMoves /\ asked' = asked + 1)
  <2>1. CASE ResendsMail(m)
    BY <2>1 DEF ResendsMail
  <2>2. CASE CountsEvents(m) \/ InsertsEvent(m) \/ EventIsLost(m) \/ StampsEvent(m) \/ MailIsUnsaid(m)
    BY <2>2 DEF CountsEvents, InsertsEvent, EventIsLost, StampsEvent, MailIsUnsaid
  <2>3. CASE \E outcome \in {"sent", "failed"} : SendsMail(m, outcome)
    BY <2>3 DEF SendsMail
  <2> QED
    BY <2>1, <2>2, <2>3
<1>6. asked' \in 0..MaxMoves /\ asked <= asked'
  BY <1>5 DEF EntriesAsked
<1> QED
  BY <1>3, <1>4, <1>6, EntriesStay DEF TimelineTypes

LEMMA StepEntries == TimelineInv /\ EntriesAsked /\ [TimelineNext]_timelineVars => EntriesAsked'
<1> SUFFICES ASSUME TimelineInv, EntriesAsked, [TimelineNext]_timelineVars PROVE EntriesAsked'
  OBVIOUS
<1>1. TimelineTypes
  BY DEF TimelineInv
<1>2. CASE UNCHANGED timelineVars
  BY <1>2 DEF timelineVars, EntriesAsked, Undecided
<1>3. ASSUME NEW m \in Mover,
             \/ \E s \in Stage : AsksMove(m, s)
             \/ \E l \in OrderLine : VisitsRow(m, l)
             \/ CancelsBooking(m)
      PROVE  EntriesAsked'
  BY <1>1, <1>3, AsksMoveEnters, VisitsRowEnters, CancelsBookingEnters
<1>4. ASSUME NEW m \in Mover,
             \/ CountsEvents(m) \/ InsertsEvent(m) \/ EventIsLost(m) \/ StampsEvent(m)
             \/ MailIsUnsaid(m) \/ ResendsMail(m)
             \/ \E outcome \in {"sent", "failed"} : SendsMail(m, outcome)
      PROVE  EntriesAsked'
  BY <1>1, <1>4, OthersEnter
<1> QED
  BY <1>2, <1>3, <1>4 DEF TimelineNext

\* The rows, the events, the requests and the histories hold what they may; a stage is
\* entered no more often than it was asked for.
LEMMA TimelineTypesHold == TimelineSpec => []TimelineTypeOK
<1>1. TimelineInit => EntriesAsked
  <2> SUFFICES ASSUME TimelineInit PROVE EntriesAsked
    OBVIOUS
  <2>1. asked = 0 /\ (\A s \in Status : entered[s] = 0) /\ \A m \in Mover : mover[m].pc = "idle"
    BY NoMoverFits DEF TimelineInit
  <2>2. Undecided = {}
    BY <2>1 DEF Undecided
  <2>3. IsFiniteSet({}) /\ Cardinality({}) = 0
    BY FS_EmptySet
  <2> QED
    BY <2>1, <2>2, <2>3 DEF EntriesAsked
<1>2. TimelineInv /\ EntriesAsked => TimelineTypeOK
  <2> SUFFICES ASSUME TimelineInv, EntriesAsked PROVE TimelineTypeOK
    OBVIOUS
  <2>1. Cardinality(Undecided) \in Nat /\ \A s \in Status : entered[s] \in Nat
    BY FS_CardinalityType DEF EntriesAsked, TimelineInv, TimelineTypes, TimelineShape
  <2>2. \A s \in Status : entered[s] \in 0..MaxMoves
    BY <2>1 DEF EntriesAsked
  <2> QED
    BY <2>2 DEF TimelineInv, TimelineTypes, TimelineShape, EntriesAsked, TimelineTypeOK
<1> QED
  BY <1>1, <1>2, InitTimelineInv, TimelineInvStep, StepEntries, PTL DEF TimelineSpec

-----------------------------------------------------------------------------
ImportRest ==
  /\ lock \in {"free", "held", "stale"}
  /\ \A w \in Worker : worker[w].refused \subseteq worker[w].rows
  /\ importFaults \in 0..MaxLosses
  /\ importOdd \subseteq {"lost", "uncounted", "taken over", "overtaken"}

\* What a worker is refused stays among its rows.
LEMMA RefusedAreRows ==
  ASSUME ImportTypes, MoveInv, ImportRest, NEW w \in Worker,
         \/ ReadsToConfirm(w) \/ ConfirmsJob(w) \/ ReadsToResume(w)
         \/ ReadsToCancelJob(w) \/ CancelsJob(w) \/ PurgesRows(w)
         \/ ClaimsJob(w) \/ PicksChunk(w) \/ ReadsBalances(w) \/ PostsChunk(w)
         \/ RetriesChunk(w) \/ RetriesCommitted(w) \/ PostFails(w) \/ FoldsChunk(w)
         \/ MarksRows(w) \/ CountsRows(w) \/ FinishesJob(w)
         \/ ThrowsProcessing(w) \/ FailsJob(w) \/ DiesImporting(w)
  PROVE  \A v \in Worker : worker'[v].refused \subseteq worker'[v].rows
<1>1. \A v \in Worker : worker[v].refused \subseteq worker[v].rows
  BY DEF ImportRest
<1>2. ASSUME NEW step \in WorkStep, StepsTo(w, step)
      PROVE  \A v \in Worker : worker'[v].refused \subseteq worker'[v].rows
  BY <1>1, <1>2, StepsWork
<1>3. ASSUME Leaves(w)
      PROVE  \A v \in Worker : worker'[v].refused \subseteq worker'[v].rows
  <2>1. NoWork.refused = {}
    BY DEF NoWork
  <2> QED
    BY <1>1, <1>3, <2>1, LeavesWork
<1>4. {"confirm", "claim", "cancel", "purge", "pick", "read", "mark", "count", "failing", "finish"} \subseteq WorkStep
  BY DEF WorkStep, Processing
<1>5. CASE ReadsToConfirm(w) \/ ConfirmsJob(w) \/ ReadsToResume(w) \/ ReadsToCancelJob(w) \/ CancelsJob(w)
  <2>1. StepsTo(w, "confirm") \/ StepsTo(w, "claim") \/ StepsTo(w, "cancel") \/ StepsTo(w, "purge")
    BY <1>5 DEF ReadsToConfirm, ConfirmsJob, ReadsToResume, ReadsToCancelJob, CancelsJob
  <2> QED
    BY <1>2, <1>4, <2>1
<1>6. CASE PurgesRows(w) \/ FinishesJob(w) \/ FailsJob(w) \/ DiesImporting(w)
  <2>1. Leaves(w)
    BY <1>6 DEF PurgesRows, FinishesJob, FailsJob, DiesImporting
  <2> QED
    BY <1>3, <2>1
<1>7. CASE ClaimsJob(w)
  <2>1. StepsTo(w, "pick") \/ Leaves(w)
    BY <1>7 DEF ClaimsJob
  <2> QED
    BY <1>2, <1>3, <1>4, <2>1
<1>8. CASE RetriesChunk(w) \/ RetriesCommitted(w) \/ FoldsChunk(w) \/ MarksRows(w) \/ CountsRows(w) \/ ThrowsProcessing(w)
  <2>1. StepsTo(w, "read") \/ StepsTo(w, "mark") \/ StepsTo(w, "count") \/ StepsTo(w, "pick") \/ StepsTo(w, "failing")
    BY <1>8 DEF RetriesChunk, RetriesCommitted, FoldsChunk, MarksRows, CountsRows, ThrowsProcessing
  <2> QED
    BY <1>2, <1>4, <2>1
<1>9. CASE PicksChunk(w)
  <2>1. CASE Pending = {}
    <3>1. StepsTo(w, "finish")
      BY <1>9, <2>1 DEF PicksChunk
    <3> QED
      BY <1>2, <1>4, <3>1
  <2>2. CASE Pending # {}
    BY <1>1, <1>9, <2>2, PicksEffect
  <2> QED
    BY <2>1, <2>2
<1>10. CASE ReadsBalances(w)
  BY <1>1, <1>10, ReadsBalancesEffect
<1>11. CASE PostsChunk(w)
  <2>1. worker[w].chunk \in Chunk
    BY <1>11 DEF PostsChunk, MoveInv, LinesAsk
  <2> QED
    BY <1>1, <1>11, <2>1, PostsChunkEffect
<1>12. CASE PostFails(w)
  <2>1. DOMAIN worker[w].lines \subseteq worker[w].rows
    BY <1>12 DEF PostFails, MoveInv, LinesAsk
  <2> QED
    BY <1>1, <1>12, <2>1, PostFailsEffect
<1> QED
  BY <1>5, <1>6, <1>7, <1>8, <1>9, <1>10, <1>11, <1>12

\* A count within its bound that is left alone, or rises below it, stays within it.
LEMMA OneMore ==
  ASSUME NEW n \in Nat, NEW k \in 0..n, NEW j, j = k \/ (k < n /\ j = k + 1)
  PROVE  j \in 0..n
  OBVIOUS

LEMMA StepImportRest ==
  ImportTypes /\ MoveInv /\ ImportRest /\ [ImportNext]_importVars => ImportRest'
<1> SUFFICES ASSUME ImportTypes, MoveInv, ImportRest, [ImportNext]_importVars PROVE ImportRest'
  OBVIOUS
<1> DEFINE All == {"lost", "uncounted", "taken over", "overtaken"}
<1>1. /\ lock \in {"free", "held", "stale"} /\ importFaults \in 0..MaxLosses /\ importOdd \subseteq All
  BY DEF ImportRest
<1>2. ASSUME NEW w \in Worker,
             \/ ReadsToConfirm(w) \/ ConfirmsJob(w) \/ ReadsToResume(w)
             \/ ReadsToCancelJob(w) \/ CancelsJob(w) \/ PurgesRows(w)
             \/ ClaimsJob(w) \/ PicksChunk(w) \/ ReadsBalances(w) \/ PostsChunk(w)
             \/ RetriesChunk(w) \/ RetriesCommitted(w) \/ PostFails(w) \/ FoldsChunk(w)
             \/ MarksRows(w) \/ CountsRows(w) \/ FinishesJob(w)
             \/ ThrowsProcessing(w) \/ FailsJob(w) \/ DiesImporting(w)
      PROVE  ImportRest'
  <2>1. lock' = lock \/ lock' \in {"free", "held"}
    <3>1. CASE ClaimsJob(w)
      BY <3>1 DEF ClaimsJob
    <3>2. CASE MarksRows(w) \/ CountsRows(w) \/ FinishesJob(w) \/ FailsJob(w)
      BY <3>2 DEF MarksRows, CountsRows, FinishesJob, FailsJob
    <3>3. CASE \/ ReadsToConfirm(w) \/ ConfirmsJob(w) \/ ReadsToResume(w)
               \/ ReadsToCancelJob(w) \/ CancelsJob(w) \/ PurgesRows(w)
      BY <3>3 DEF ReadsToConfirm, ConfirmsJob, ReadsToResume, ReadsToCancelJob, CancelsJob, PurgesRows
    <3>4. CASE \/ PicksChunk(w) \/ ReadsBalances(w) \/ PostsChunk(w)
               \/ RetriesChunk(w) \/ RetriesCommitted(w)
      BY <3>4 DEF PicksChunk, ReadsBalances, PostsChunk, RetriesChunk, RetriesCommitted
    <3>5. CASE PostFails(w) \/ FoldsChunk(w) \/ ThrowsProcessing(w) \/ DiesImporting(w)
      BY <3>5 DEF PostFails, FoldsChunk, ThrowsProcessing, DiesImporting
    <3> QED
      BY <1>2, <3>1, <3>2, <3>3, <3>4, <3>5
  <2>2. importFaults' = importFaults \/ (importFaults < MaxLosses /\ importFaults' = importFaults + 1)
    <3>1. CASE RetriesCommitted(w) \/ PostFails(w) \/ ThrowsProcessing(w) \/ DiesImporting(w)
      BY <3>1 DEF RetriesCommitted, PostFails, ThrowsProcessing, DiesImporting, ImportFault
    <3>2. CASE ClaimsJob(w) \/ MarksRows(w) \/ CountsRows(w) \/ FinishesJob(w) \/ FailsJob(w)
      BY <3>2 DEF ClaimsJob, MarksRows, CountsRows, FinishesJob, FailsJob
    <3>3. CASE \/ ReadsToConfirm(w) \/ ConfirmsJob(w) \/ ReadsToResume(w)
               \/ ReadsToCancelJob(w) \/ CancelsJob(w) \/ PurgesRows(w)
      BY <3>3 DEF ReadsToConfirm, ConfirmsJob, ReadsToResume, ReadsToCancelJob, CancelsJob, PurgesRows
    <3>4. CASE PicksChunk(w) \/ ReadsBalances(w) \/ PostsChunk(w) \/ RetriesChunk(w) \/ FoldsChunk(w)
      BY <3>4 DEF PicksChunk, ReadsBalances, PostsChunk, RetriesChunk, RetriesCommitted, PostFails, FoldsChunk, ImportFault
    <3> QED
      BY <1>2, <3>1, <3>2, <3>3, <3>4
  <2>3. importOdd' \subseteq All
    <3>1. Loses(w) \subseteq All
      BY DEF Loses
    <3> QED
      BY <1>1, <1>2, <3>1
         DEF ReadsToConfirm, ConfirmsJob, ReadsToResume, ReadsToCancelJob, CancelsJob, PurgesRows,
             ClaimsJob, PicksChunk, ReadsBalances, PostsChunk, RetriesChunk, RetriesCommitted, PostFails,
             FoldsChunk, MarksRows, CountsRows, FinishesJob, ThrowsProcessing, FailsJob, DiesImporting, Befalls
  <2>4. \A v \in Worker : worker'[v].refused \subseteq worker'[v].rows
    BY <1>2, RefusedAreRows
  <2>5. lock' \in {"free", "held", "stale"} /\ importFaults' \in 0..MaxLosses
    <3>1. MaxLosses \in Nat
      BY ImportAssumption
    <3>2. importFaults' \in 0..MaxLosses
      BY <1>1, <2>2, <3>1, OneMore
    <3>3. lock' \in {"free", "held", "stale"}
      BY <1>1, <2>1
    <3> QED
      BY <3>2, <3>3
  <2> QED
    BY <2>3, <2>4, <2>5 DEF ImportRest
<1>3. CASE LockAges \/ UNCHANGED importVars
  BY <1>3 DEF LockAges, importVars, ImportRest
<1> QED
  BY <1>2, <1>3 DEF ImportNext

\* The job, its lock, its rows, the batches and the workers hold what they may.
LEMMA ImportTypesHold == ImportSpec => []ImportTypeOK
<1>1. ImportInit => ImportRest
  <2> SUFFICES ASSUME ImportInit PROVE ImportRest
    OBVIOUS
  <2>1. lock = "free" /\ importFaults = 0 /\ importOdd = {} /\ \A w \in Worker : worker[w] = NoWork
    BY DEF ImportInit
  <2>2. NoWork.refused = {}
    BY DEF NoWork
  <2> QED
    BY <2>1, <2>2 DEF ImportRest
<1>2. ImportTypes /\ MoveInv /\ ImportRest => ImportTypeOK
  <2> SUFFICES ASSUME ImportTypes, MoveInv, ImportRest PROVE ImportTypeOK
    OBVIOUS
  <2>1. \A k \in Chunk : DOMAIN chunkBatch[k] \subseteq {r \in Row : ChunkOf[r] = k}
    <3>1. \A k \in Chunk : DOMAIN chunkBatch[k] \subseteq Row
      BY QuantityFacts DEF ImportTypes
    <3> QED
      BY <3>1 DEF MoveInv, BatchIsAsked
  <2>2. \A w \in Worker :
          /\ worker[w].step \in Processing \cup {"none", "confirm", "cancel", "purge", "claim"}
          /\ worker[w].rows \subseteq Row
    BY DEF ImportTypes, Work, WorkStep
  <2> QED
    BY <2>1, <2>2 DEF ImportTypes, ImportRest, ImportTypeOK
<1> QED
  BY <1>1, <1>2, InitMoveInv, StepMoveInv, StepImportRest, PTL DEF ImportSpec

-----------------------------------------------------------------------------
(* The parts of the back office, side by side.                             *)

\* What the five do together is, for each of them, what it does alone.
LEMMA BackOfficeRunsEach ==
  BackOfficeSpec => ImportSpec /\ UpcomingSpec /\ TimelineSpec /\ ReportSpec /\ SessionSpec
<1>1. BackOfficeInit => ImportInit /\ UpcomingInit /\ TimelineInit /\ ReportInit /\ SessionInit
  BY DEF BackOfficeInit
<1>2. [BackOfficeNext]_<<importVars, upcomingVars, timelineVars, reportVars, sessionVars, part>> =>
        /\ [ImportNext]_importVars /\ [UpcomingNext]_upcomingVars /\ [TimelineNext]_timelineVars
        /\ [ReportNext]_reportVars /\ [SessionNext]_sessionVars
  BY DEF BackOfficeNext
<1> QED
  BY <1>1, <1>2, PTL DEF BackOfficeSpec, ImportSpec, UpcomingSpec, TimelineSpec, ReportSpec, SessionSpec

\* The documents of the back office hold what they may: an attempt at the report never
\* tries the mail more often than it may (sendReportWithRetries), a stage is entered no
\* more often than it was asked for (applyBookingStatus), a batch holds rows of its own
\* chunk (postBatch under the chunk's key).
THEOREM BackOfficeTyped == BackOfficeSpec => []BackOfficeTypeOK
BY BackOfficeRunsEach, ImportTypesHold, UpcomingTypesHold, TimelineTypesHold, ReportTypesHold,
   SessionTypesHold, PTL DEF BackOfficeTypeOK
=================================================================================
