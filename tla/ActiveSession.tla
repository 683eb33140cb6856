--------------------------- MODULE ActiveSession ---------------------------
(***************************************************************************)
(* The one active session of an account.  A login makes the browser call   *)
(* session-start, which writes a new identifier into the profile and gives *)
(* it to the browser as a cookie with its reply.  The licence guard lets   *)
(* only the browser with that cookie pass.  Every page of the program asks *)
(* session-check from time to time: a browser that was superseded signs    *)
(* out, one without a cookie calls session-start again.                    *)
(*                                                                         *)
(* Supabase Auth keeps the logins; signing out ends all of them unless it  *)
(* is told otherwise.                                                      *)
(***************************************************************************)
EXTENDS Integers, FiniteSets, Sequences

CONSTANTS
  Browsers,
  MaxActs,      \* bound: logins, recoveries and logouts
  MaxTroubles   \* bound: calls that fail or whose reply is lost

ASSUME SessionConstants == MaxActs \in Nat /\ MaxTroubles \in Nat

VARIABLES
  active,    \* profiles.active_session_id, 0 is null
  starter,   \* who asked for each session, in the order of asking
  browser,   \* the state of each browser
  starts,    \* calls of session-start under way
  check,     \* the call of session-check of each browser
  acts, troubles  \* counters for the bounds

sessionVars == <<active, starter, browser, starts, check, acts, troubles>>

Sessions == 1 .. Len(starter)

(* "held", it holds a login, which Auth may have ended: "valid".           *)
(* "program", a page of the program is open, so there is a heartbeat.      *)
(* History: "muddled", two of its calls were under way at once, or a       *)
(* session-start of its was lost.                                          *)
BrowserStates ==
  [held : BOOLEAN, valid : BOOLEAN, cookie : Nat, program : BOOLEAN,
   muddled : BOOLEAN]

NewBrowser == [held |-> FALSE, valid |-> FALSE, cookie |-> 0,
               program |-> FALSE, muddled |-> FALSE]

Starts == [session : Nat, browser : Browsers, written : BOOLEAN]

Answers == {"unauthenticated", "missing", "superseded", "active"}

(* "heal" is the session-start that follows the answer "missing".          *)
Checks == [step : {"none", "asked", "answered", "heal"}, cookie : Nat,
           answer : Answers]

NoCheck == [step |-> "none", cookie |-> 0, answer |-> "active"]

(* The licence guard.                                                      *)
Passes(b) ==
  browser[b].valid /\ (active = 0 \/ browser[b].cookie = active)

-----------------------------------------------------------------------------
(* session-start                                                           *)

Calling(b) == \E s \in starts : s.browser = b

Send(b) ==
  /\ starter' = Append(starter, b)
  /\ starts' = starts \cup {[session |-> Len(starter'), browser |-> b,
                             written |-> FALSE]}

(* Any page that takes a password, beside whatever else the browser does.  *)
SignIn(b) ==
  /\ acts < MaxActs
  /\ acts' = acts + 1
  /\ browser' = [browser EXCEPT ![b] =
       [browser[b] EXCEPT !.held = TRUE, !.valid = TRUE, !.program = FALSE,
          !.muddled = browser[b].muddled \/ Calling(b)
                        \/ check[b].step # "none"]]
  /\ Send(b)
  /\ UNCHANGED <<active, check, troubles>>

(* The link of a password mail makes a login without a session-start.      *)
Recover(b) ==
  /\ acts < MaxActs
  /\ acts' = acts + 1
  /\ browser' = [browser EXCEPT ![b].held = TRUE, ![b].valid = TRUE,
                                ![b].program = FALSE]
  /\ UNCHANGED <<active, starter, starts, check, troubles>>

(* From the page that sets the password, or from a session-start that goes *)
(* on in another tab.                                                      *)
GoOn(b) ==
  /\ browser[b].held /\ ~browser[b].program
  /\ browser' = [browser EXCEPT ![b].program = TRUE]
  /\ UNCHANGED <<active, starter, starts, check, acts, troubles>>

(* Mutant: the session that is there is handed out again.                  *)
StartShares(s) ==
  /\ ~s.written /\ browser[s.browser].valid
  /\ active' = IF active = 0 THEN s.session ELSE active
  /\ starts' = (starts \ {s}) \cup {[s EXCEPT !.written = TRUE,
                                              !.session = active']}
  /\ UNCHANGED <<starter, browser, check, acts, troubles>>

StartServed(s) ==
  /\ ~s.written /\ browser[s.browser].valid
  /\ active' = s.session
  /\ starts' = (starts \ {s}) \cup {[s EXCEPT !.written = TRUE]}
  /\ UNCHANGED <<starter, browser, check, acts, troubles>>

(* The page goes to the program whatever became of the call.               *)
StartOver(s, changed) ==
  /\ starts' = starts \ {s}
  /\ browser' = [browser EXCEPT ![s.browser] = [changed EXCEPT !.program = TRUE]]
  /\ check' = IF check[s.browser].step = "heal"
              THEN [check EXCEPT ![s.browser] = NoCheck] ELSE check

StartAnswered(s) ==
  /\ s.written
  /\ StartOver(s, [browser[s.browser] EXCEPT !.cookie = s.session])
  /\ UNCHANGED <<active, starter, acts, troubles>>

StartRefused(s) ==
  /\ ~s.written /\ ~browser[s.browser].valid
  /\ StartOver(s, browser[s.browser])
  /\ UNCHANGED <<active, starter, acts, troubles>>

StartLost(s) ==
  /\ troubles < MaxTroubles
  /\ troubles' = troubles + 1
  /\ StartOver(s, [browser[s.browser] EXCEPT !.muddled = TRUE])
  /\ UNCHANGED <<active, starter, acts>>

-----------------------------------------------------------------------------
(* session-check                                                           *)

(* The heartbeat of a page of the program.                                 *)
CheckSent(b) ==
  /\ browser[b].held /\ browser[b].program /\ check[b].step = "none"
  /\ check' = [check EXCEPT ![b] =
       [NoCheck EXCEPT !.step = "asked", !.cookie = browser[b].cookie]]
  /\ browser' = [browser EXCEPT ![b].muddled = @ \/ Calling(b)]
  /\ UNCHANGED <<active, starter, starts, acts, troubles>>

(* Mutants: the newest session is the one that was asked for last, or a    *)
(* reason that the pages do not know.                                      *)
AnswerByNewest(b) ==
  IF ~browser[b].valid THEN "unauthenticated"
  ELSE IF check[b].cookie = 0 THEN "missing"
  ELSE IF check[b].cookie # Len(starter) THEN "superseded"
  ELSE "active"

AnswerUnknown(b) ==
  IF ~browser[b].valid THEN "unauthenticated"
  ELSE IF active = 0 THEN "profile_not_found"
  ELSE IF check[b].cookie = 0 THEN "missing"
  ELSE IF active # check[b].cookie THEN "superseded"
  ELSE "active"

Answer(b) ==
  IF ~browser[b].valid THEN "unauthenticated"
  ELSE IF check[b].cookie = 0 THEN "missing"
  ELSE IF active \notin {0, check[b].cookie} THEN "superseded"
  ELSE "active"

CheckServed(b) ==
  /\ check[b].step = "asked"
  /\ check' = [check EXCEPT ![b].step = "answered", ![b].answer = Answer(b)]
  /\ UNCHANGED <<active, starter, browser, starts, acts, troubles>>

CheckLost(b) ==
  /\ check[b].step \in {"asked", "answered"} /\ troubles < MaxTroubles
  /\ troubles' = troubles + 1
  /\ check' = [check EXCEPT ![b] = NoCheck]
  /\ UNCHANGED <<active, starter, browser, starts, acts>>

Told(b, answer) == check[b].step = "answered" /\ check[b].answer = answer

(* Signing out asks Auth to end every login of the account, and lets go of *)
(* the own one even if that is refused.                                    *)
SignedOut(b) ==
  browser' = [c \in Browsers |->
    [browser[c] EXCEPT !.held = IF c = b THEN FALSE ELSE @,
                       !.program = IF c = b THEN FALSE ELSE @,
                       !.valid = IF browser[b].valid THEN FALSE ELSE @]]

Superseded(b) ==
  /\ Told(b, "superseded")
  /\ SignedOut(b)
  /\ check' = [check EXCEPT ![b] = NoCheck]
  /\ UNCHANGED <<active, starter, starts, acts, troubles>>

(* Mutant: nothing is done about a missing cookie.                         *)
HealForgotten(b) ==
  /\ Told(b, "missing")
  /\ check' = [check EXCEPT ![b] = NoCheck]
  /\ UNCHANGED <<active, starter, browser, starts, acts, troubles>>

Heal(b) ==
  /\ Told(b, "missing")
  /\ Send(b)
  /\ check' = [check EXCEPT ![b].step = "heal"]
  /\ browser' = [browser EXCEPT ![b].muddled = @ \/ Calling(b)]
  /\ UNCHANGED <<active, acts, troubles>>

CheckOver(b) ==
  /\ Told(b, "active") \/ Told(b, "unauthenticated")
  /\ check' = [check EXCEPT ![b] = NoCheck]
  /\ browser' = [browser EXCEPT ![b].program = @ \/ Told(b, "active")]
  /\ UNCHANGED <<active, starter, starts, acts, troubles>>

-----------------------------------------------------------------------------
(* Signing out                                                             *)

SignOut(b) ==
  /\ browser[b].held /\ acts < MaxActs
  /\ acts' = acts + 1
  /\ SignedOut(b)
  /\ UNCHANGED <<active, starter, starts, check, troubles>>

(* "Log out of all other devices" on the profile.                          *)
RevokeOthers(b) ==
  /\ browser[b].held /\ browser[b].valid /\ acts < MaxActs
  /\ acts' = acts + 1
  /\ browser' = [c \in Browsers |->
       IF c = b THEN browser[c] ELSE [browser[c] EXCEPT !.valid = FALSE]]
  /\ UNCHANGED <<active, starter, starts, check, troubles>>

(* The client cannot refresh a login that was ended.                       *)
LetGo(b) ==
  /\ browser[b].held /\ ~browser[b].valid
  /\ browser' = [browser EXCEPT ![b].held = FALSE, ![b].program = FALSE]
  /\ UNCHANGED <<active, starter, starts, check, acts, troubles>>

-----------------------------------------------------------------------------
SessionInit ==
  /\ active = 0 /\ starter = <<>>
  /\ browser = [b \in Browsers |-> NewBrowser]
  /\ starts = {}
  /\ check = [b \in Browsers |-> NoCheck]
  /\ acts = 0 /\ troubles = 0

Heartbeat(b) ==
  \/ CheckSent(b) \/ CheckServed(b) \/ Superseded(b) \/ Heal(b) \/ CheckOver(b)

StartGoesOn(s) == StartServed(s) \/ StartAnswered(s) \/ StartRefused(s)

SessionNext ==
  \/ \E b \in Browsers :
       \/ SignIn(b) \/ Heartbeat(b) \/ CheckLost(b)
       \/ Recover(b) \/ GoOn(b)
       \/ SignOut(b) \/ RevokeOthers(b) \/ LetGo(b)
  \/ \E s \in starts : StartGoesOn(s) \/ StartLost(s)

SessionSpec == SessionInit /\ [][SessionNext]_sessionVars

(* The heartbeat beats every 25 seconds, the servers answer and the client *)
(* refreshes its login.                                                    *)
SessionFairness ==
  \A b \in Browsers :
    /\ WF_sessionVars(Heartbeat(b))
    /\ WF_sessionVars(LetGo(b))
    /\ WF_sessionVars(\E s \in starts : s.browser = b /\ StartGoesOn(s))

FairSessionSpec == SessionSpec /\ SessionFairness

-----------------------------------------------------------------------------
(* Types of the sessions, the browsers and their calls.                    *)
SessionTypeOK ==
  /\ active \in 0 .. Len(starter)
  /\ starter \in Seq(Browsers)
  /\ browser \in [Browsers -> BrowserStates]
  /\ starts \subseteq Starts
  /\ check \in [Browsers -> Checks]
  /\ acts \in 0 .. MaxActs /\ troubles \in 0 .. MaxTroubles

(* "Only one device can use this credential at a time"                     *)
(* (login/page.tsx): once a session is active, at most one browser passes  *)
(* the licence guard.                                                      *)
OneBrowserPasses ==
  active # 0 =>
    \A b, c \in Browsers : Passes(b) /\ Passes(c) => b = c

(* "... because this account was logged into from another device": a       *)
(* browser is told that it was superseded only when another one has        *)
(* started a session since, unless its own calls overlapped or were lost.  *)
SupersededByAnother ==
  \A b \in Browsers :
    Told(b, "superseded") /\ ~browser[b].muddled =>
      active # 0 /\ starter[active] # b

(* A browser in the program that the licence guard refuses gets through    *)
(* again, or lets go of its login, and does not stay refused.              *)
RefusedIsSettled ==
  \A b \in Browsers :
    (browser[b].program /\ browser[b].held /\ ~Passes(b))
      ~> (Passes(b) \/ ~browser[b].held \/ ~browser[b].program)
=============================================================================
