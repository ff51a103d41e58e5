-------------------------------- MODULE Sessions --------------------------------
(***************************************************************************)
(* auth.controller.js and utils/tokens.js: the sessions of one account.    *)
(*                                                                         *)
(* A browser holds one refresh token in a cookie its tabs share.  Every    *)
(* refresh replaces the token; tabs whose access token ends at the same    *)
(* moment refresh at once with the same cookie, and what the server        *)
(* answers the slower ones must not sign the browser out.  A request reads *)
(* the account, then writes, and its answer reaches the browser later.     *)
(***************************************************************************)
EXTENDS Integers, FiniteSetsExt

CONSTANTS
  Browser,
  Tab,          \* tabs: refresh requests that may be under way at once
  BrowserOf,    \* BrowserOf[t]: the browser tab t is of
  OldHolder,    \* browsers that may hold a token of the single-token scheme
  MaxSessions,  \* sessions an account may have
  MaxTokens     \* BOUND: refresh tokens issued

ASSUME SessionAssumption ==
  /\ BrowserOf \in [Tab -> Browser]
  /\ OldHolder \subseteq Browser
  /\ MaxSessions \in Nat \ {0} /\ MaxTokens \in Nat \ {0}

VARIABLES
  sessions, \* refreshSessions
  oldToken, \* refreshTokenHash, the token of the single-token scheme
  cookie,   \* cookie[b]: the token browser b holds
  tab,      \* tab[t]:    the refresh under way
  issued,   \* tokens issued so far
  parted    \* history, parted[b]: why browser b may have lost its session

sessionVars == <<sessions, oldToken, cookie, tab, issued, parted>>

NoToken == 0
Token == 0..MaxTokens

\* What an answer does to the cookie other than setting a token.
Clear == -1
Keep == -2

\* hash, prevHash, whether rotatedAt is within REFRESH_GRACE_MS, and lastUsedAt.
Session == [hash : Token, prev : Token, grace : BOOLEAN, used : Nat]

\* A session last used now, later than any other.
NewSession(k, before) ==
  [hash |-> k, prev |-> before, grace |-> TRUE, used |-> 1 + Max({0} \cup {s.used : s \in sessions})]

\* sets: the token the answer sets, or what else it does to the cookie.
TabState ==
  [pc : {"idle", "asked", "current", "adopting", "answered"}, token : Token,
   sets : Token \cup {Clear, Keep}]
NoTab == [pc |-> "idle", token |-> NoToken, sets |-> Keep]

SessionTypeOK ==
  /\ sessions \subseteq Session /\ oldToken \in Token
  /\ cookie \in [Browser -> Token]
  /\ tab \in [Tab -> TabState]
  /\ issued \in 0..MaxTokens
  /\ parted \in [Browser -> SUBSET {"evicted", "revoked", "outrun", "lost", "left"}]

TabsOf(b) == {t \in Tab : BrowserOf[t] = b}
Quiet(b) == \A t \in TabsOf(b) : tab[t].pc = "idle"

Holds(list, k) == \E s \in list : s.hash = k
Graced(list, k) == \E s \in list : s.prev = k /\ s.grace

\* The browsers whose token the account, with these sessions, no longer knows.
Estranged(list, old) ==
  {b \in Browser : cookie[b] \notin {NoToken, old} /\ ~Holds(list, cookie[b]) /\ ~Graced(list, cookie[b])}

\* The browsers with a request that carries a token the account no longer knows, and
\* has not been looked up.
Overtaken(list, old) ==
  {b \in Browser : \E t \in TabsOf(b) :
     /\ tab[t].pc = "asked" /\ tab[t].token # old
     /\ ~Holds(list, tab[t].token) /\ ~Graced(list, tab[t].token)}

Part(browsers, why) == parted' = [b \in Browser |-> IF b \in browsers THEN parted[b] \cup {why} ELSE parted[b]]

-----------------------------------------------------------------------------
(* Signing in, out, and revoking.                                          *)

\* The MaxSessions sessions used last; the least recently used one goes.
Capped(list) == {s \in list : Cardinality({x \in list : x.used > s.used}) < MaxSessions}

\* login, issueSession: a new session, whatever the browser held before.
SignsIn(b) ==
  LET list == Capped(sessions \cup {NewSession(issued + 1, NoToken)})
  IN  /\ issued < MaxTokens /\ Quiet(b)
      /\ issued' = issued + 1
      /\ sessions' = list
      /\ cookie' = [cookie EXCEPT ![b] = issued + 1]
      /\ parted' = [c \in Browser |-> IF c = b THEN {}
                      ELSE parted[c] \cup (IF c \in Estranged(list, oldToken) THEN {"evicted"} ELSE {})]
      /\ UNCHANGED <<oldToken, tab>>

\* logout: the session of the cookie, under its present token or the one before; the
\* single-token session of the account, whoever holds it.
SignsOut(b) ==
  LET k == cookie[b]
  IN  /\ k # NoToken
      /\ sessions' = {s \in sessions : k \notin {s.hash, s.prev}}
      /\ oldToken' = NoToken
      /\ cookie' = [cookie EXCEPT ![b] = NoToken]
      /\ parted' = [c \in Browser |-> parted[c] \cup (IF c = b THEN {"left"}
                      ELSE IF oldToken # NoToken /\ cookie[c] = oldToken THEN {"revoked"} ELSE {})]
      /\ UNCHANGED <<tab, issued>>

\* changePassword: every session but the caller's.
ChangesPassword(b) ==
  LET k == cookie[b]
      list == IF k = NoToken THEN {} ELSE {s \in sessions : k \in {s.hash, s.prev}}
  IN  /\ sessions' = list
      /\ oldToken' = NoToken
      /\ Part(IF k # NoToken /\ k # oldToken THEN Browser \ {b} ELSE Browser, "revoked")
      /\ UNCHANGED <<cookie, tab, issued>>

\* resetUserPassword.
RevokesAll ==
  /\ sessions' = {} /\ oldToken' = NoToken
  /\ Part(Browser, "revoked")
  /\ UNCHANGED <<cookie, tab, issued>>

-----------------------------------------------------------------------------
(* Refreshing.                                                             *)

AsksRefresh(t) ==
  LET k == cookie[BrowserOf[t]]
  IN  /\ tab[t].pc = "idle" /\ k # NoToken
      /\ tab' = [tab EXCEPT ![t] = [NoTab EXCEPT !.pc = "asked", !.token = k]]
      /\ UNCHANGED <<sessions, oldToken, cookie, issued, parted>>

\* Mutant: the token before the present one is a replay.
NoGrace(k) == FALSE

\* The token a session has just replaced is still served.
ServedByGrace(k) == Graced(sessions, k)

\* refresh reads the account: the token is current, or was until just now, or is of the
\* single-token scheme; any other is refused and the cookie cleared.
LooksUp(t) ==
  LET k == tab[t].token
      to(pc, sets) == tab' = [tab EXCEPT ![t].pc = pc, ![t].sets = sets]
  IN  /\ tab[t].pc = "asked"
      /\ IF Holds(sessions, k) THEN to("current", Keep)
         ELSE IF ServedByGrace(k) THEN to("answered", Keep)
         ELSE IF oldToken = k THEN to("adopting", Keep)
         ELSE to("answered", Clear)
      /\ UNCHANGED <<sessions, oldToken, cookie, issued, parted>>

\* adoptLegacySession: one of those that found it makes it a session.
Adopts(t) ==
  LET k == tab[t].token
  IN  /\ tab[t].pc = "adopting"
      /\ tab' = [tab EXCEPT ![t].pc = "current"]
      /\ IF oldToken = k
         THEN /\ oldToken' = NoToken
              /\ sessions' = sessions \cup {NewSession(k, NoToken)}
         ELSE UNCHANGED <<sessions, oldToken>>
      /\ UNCHANGED <<cookie, issued, parted>>

\* rotateSession, a compare-and-swap on the session's present token.  Where it was
\* replaced since it was looked up, the answer leaves the cookie to the one that
\* replaced it.
Rotates(t) ==
  LET k == tab[t].token
      list == {s \in sessions : s.hash # k} \cup {NewSession(issued + 1, k)}
  IN  /\ tab[t].pc = "current"
      /\ IF ~Holds(sessions, k)
         THEN /\ tab' = [tab EXCEPT ![t].pc = "answered"]
              /\ UNCHANGED <<sessions, issued, parted>>
         ELSE /\ issued < MaxTokens
              /\ issued' = issued + 1
              /\ sessions' = list
              /\ tab' = [tab EXCEPT ![t].pc = "answered", ![t].sets = issued + 1]
              /\ Part(Overtaken(list, oldToken), "outrun")
      /\ UNCHANGED <<oldToken, cookie>>

\* A minute passes on a rotation.
GraceEnds(s) ==
  LET list == (sessions \ {s}) \cup {[s EXCEPT !.grace = FALSE]}
  IN  /\ s.grace
      /\ sessions' = list
      /\ parted' = [b \in Browser |-> parted[b] \cup
           (IF b \in Overtaken(list, oldToken) \/ b \in Estranged(list, oldToken)
            THEN {"outrun"} ELSE {})]
      /\ UNCHANGED <<oldToken, cookie, tab, issued>>

\* The answer reaches the browser, or is lost with the cookie it would have set.
AnswerArrives(t) ==
  LET b == BrowserOf[t]
      sets == tab[t].sets
  IN  /\ tab[t].pc = "answered"
      /\ tab' = [tab EXCEPT ![t] = NoTab]
      /\ cookie' = [cookie EXCEPT ![b] = CASE sets = Keep  -> @
                                           [] sets = Clear -> NoToken
                                           [] OTHER        -> sets]
      /\ UNCHANGED <<sessions, oldToken, issued, parted>>

AnswerLost(t) ==
  /\ tab[t].pc # "idle"
  /\ tab' = [tab EXCEPT ![t] = NoTab]
  /\ Part(IF tab[t].sets \in Token THEN {BrowserOf[t]} ELSE {}, "lost")
  /\ UNCHANGED <<sessions, oldToken, cookie, issued>>

-----------------------------------------------------------------------------
\* Nobody is signed in, but for a browser that was under the single-token scheme.
SessionInit ==
  /\ sessions = {}
  /\ \E b \in OldHolder :
       /\ oldToken = 1 /\ issued = 1
       /\ cookie = [c \in Browser |-> IF c = b THEN 1 ELSE NoToken]
  /\ tab = [t \in Tab |-> NoTab]
  /\ parted = [b \in Browser |-> {}]

SessionNext ==
  \/ \E b \in Browser : SignsIn(b) \/ SignsOut(b) \/ ChangesPassword(b)
  \/ RevokesAll
  \/ \E t \in Tab :
       \/ AsksRefresh(t) \/ LooksUp(t) \/ Adopts(t) \/ Rotates(t)
       \/ AnswerArrives(t) \/ AnswerLost(t)
  \/ \E s \in sessions : GraceEnds(s)

SessionSpec == SessionInit /\ [][SessionNext]_sessionVars

-----------------------------------------------------------------------------
(* Properties.                                                             *)

\* "Signed out for doing nothing but having two tabs open" (utils/tokens.js) does not
\* happen: a browser whose tabs refresh at once, in any order, is refused by none of
\* the answers and ends with a token the account knows.  It fails only for a browser
\* that signed out, whose session was dropped for newer ones or revoked, whose answer
\* with the new cookie was lost, or one of whose requests was so slow that its token
\* had been replaced twice, or its minute was over, before it was looked up.
StaysSignedIn ==
  \A b \in Browser : parted[b] = {} =>
    /\ \A t \in TabsOf(b) : tab[t].pc = "answered" => tab[t].sets # Clear
    /\ Quiet(b) /\ cookie[b] # NoToken => Holds(sessions, cookie[b]) \/ cookie[b] = oldToken
================================================================================
