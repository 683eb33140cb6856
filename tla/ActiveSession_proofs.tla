------------------------ MODULE ActiveSession_proofs ------------------------
(***************************************************************************)
(* Proofs about ActiveSession, for any browsers and bounds: its types,     *)
(* that one browser passes the licence guard, and that no browser is told  *)
(* that it was superseded by itself.                                       *)
(***************************************************************************)
EXTENDS ActiveSession, SequenceTheorems, TLAPS

(* Sessions stay with the browser that asked for them.                     *)
CookieOK(b) ==
  LET cookie == browser[b].cookie IN
  cookie # 0 => cookie \in Sessions /\ starter[cookie] = b

StartOK(s) == s.session \in Sessions /\ starter[s.session] = s.browser

(* The session of a browser is active.                                     *)
Own(b) == active # 0 /\ starter[active] = b

(* A browser whose calls did not overlap knows the session that it         *)
(* started, or is about to be told, and asks nothing meanwhile.            *)
OneCall(b) ==
  /\ \A s, t \in starts : s.browser = b /\ t.browser = b => s = t
  /\ Calling(b) => check[b].step \in {"none", "heal"}

Knows(b) ==
  Own(b) =>
    /\ \A s \in starts : s.browser = b /\ s.written => s.session = active
    /\ \/ browser[b].cookie = active
       \/ \E s \in starts : s.browser = b /\ s.written

Asks(b) ==
  /\ check[b].step \in {"asked", "answered"} =>
       check[b].cookie = browser[b].cookie
  /\ Told(b, "superseded") => active # 0 /\ ~Own(b)

Orderly(b) == ~browser[b].muddled => OneCall(b) /\ Knows(b) /\ Asks(b)

SessionInv ==
  /\ SessionTypeOK
  /\ \A s \in starts : StartOK(s)
  /\ \A b \in Browsers : CookieOK(b) /\ Orderly(b)

USE SessionConstants

LEMMA BrowserFields ==
  ASSUME NEW w \in BrowserStates
  PROVE  /\ w.held \in BOOLEAN /\ w.valid \in BOOLEAN /\ w.cookie \in Nat
         /\ w.program \in BOOLEAN /\ w.muddled \in BOOLEAN
BY DEF BrowserStates

LEMMA StartFields ==
  ASSUME NEW s \in Starts
  PROVE  /\ s.session \in Nat /\ s.browser \in Browsers /\ s.written \in BOOLEAN
         /\ [s EXCEPT !.written = TRUE] \in Starts
         /\ [s EXCEPT !.written = TRUE].session = s.session
         /\ [s EXCEPT !.written = TRUE].browser = s.browser
         /\ [s EXCEPT !.written = TRUE].written
BY DEF Starts

LEMMA CheckFields ==
  ASSUME NEW k \in Checks
  PROVE  /\ k.step \in {"none", "asked", "answered", "heal"}
         /\ k.cookie \in Nat /\ k.answer \in Answers
BY DEF Checks

LEMMA NoCheckTyping == NoCheck \in Checks /\ NoCheck.step = "none"
BY DEF NoCheck, Checks, Answers

LEMMA StarterTyping ==
  ASSUME SessionTypeOK
  PROVE  /\ Len(starter) \in Nat /\ active \in Nat
         /\ active # 0 => active \in Sessions
         /\ \A i \in Sessions : starter[i] \in Browsers
<1>1. starter \in Seq(Browsers) /\ active \in 0 .. Len(starter)
  BY DEF SessionTypeOK
<1>2. Len(starter) \in Nat
  BY <1>1, LenProperties
<1>3. \A i \in 1 .. Len(starter) : starter[i] \in Browsers
  BY <1>1, ElementOfSeq
<1> QED
  BY <1>1, <1>2, <1>3 DEF Sessions

(* The sessions that were given out stay as they are.                      *)
Grows ==
  /\ starter' \in Seq(Browsers) /\ Sessions \subseteq Sessions'
  /\ \A i \in Sessions : starter'[i] = starter[i]

LEMMA Stays ==
  ASSUME SessionTypeOK, UNCHANGED starter
  PROVE  Grows
BY DEF Grows, SessionTypeOK, Sessions

LEMMA SendGrows ==
  ASSUME SessionTypeOK, NEW b \in Browsers, Send(b)
  PROVE  /\ Grows /\ active \in 0 .. Len(starter')
         /\ \E s \in Starts :
              /\ starts' = starts \cup {s} /\ s.browser = b /\ ~s.written
              /\ StartOK(s)'
<1> DEFINE n == Len(starter) + 1
<1>1. starter \in Seq(Browsers) /\ active \in 0 .. Len(starter)
  BY DEF SessionTypeOK
<1>2. Len(starter) \in Nat
  BY <1>1, LenProperties
<1>3. /\ Append(starter, b) \in Seq(Browsers) /\ Len(Append(starter, b)) = n
      /\ \A i \in 1 .. Len(starter) : Append(starter, b)[i] = starter[i]
      /\ Append(starter, b)[n] = b
  BY <1>1, AppendProperties
<1>4. starter' = Append(starter, b)
  BY DEF Send
<1>5. Grows /\ Len(starter') = n /\ starter'[n] = b
  BY <1>2, <1>3, <1>4 DEF Grows, Sessions
<1>6. PICK s \in Starts : s = [session |-> n, browser |-> b, written |-> FALSE]
  <2>1. [session |-> n, browser |-> b, written |-> FALSE] \in Starts
    BY <1>2 DEF Starts
  <2> QED
    BY <2>1
<1>7. starts' = starts \cup {s}
  BY <1>5, <1>6 DEF Send
<1>8. /\ s.browser = b /\ ~s.written /\ s.session = n
      /\ n \in Sessions'
  BY <1>2, <1>5, <1>6 DEF Sessions
<1>9. StartOK(s)'
  BY <1>5, <1>8 DEF StartOK
<1>10. active \in 0 .. Len(starter')
  BY <1>1, <1>2, <1>5
<1> QED
  BY <1>5, <1>7, <1>8, <1>9, <1>10

(* What a step leaves alone of a browser.                                  *)
SameBrowser(c) ==
  /\ browser'[c].cookie = browser[c].cookie
  /\ browser[c].muddled => browser'[c].muddled

SameStarts(c) == \A s : s.browser = c => (s \in starts' <=> s \in starts)

LEMMA CookieKept ==
  ASSUME SessionInv, Grows, NEW c \in Browsers,
         browser'[c].cookie = browser[c].cookie
  PROVE  CookieOK(c)'
BY DEF SessionInv, Grows, CookieOK

LEMMA OwnKept ==
  ASSUME SessionTypeOK, Grows, active' = active, NEW c \in Browsers
  PROVE  Own(c)' = Own(c)
BY StarterTyping DEF Own, Grows

LEMMA Untouched ==
  ASSUME SessionInv, Grows, active' = active, NEW c \in Browsers,
         SameBrowser(c), SameStarts(c), check'[c] = check[c]
  PROVE  CookieOK(c)' /\ Orderly(c)'
<1>1. CookieOK(c)'
  BY CookieKept DEF SameBrowser
<1>2. Own(c)' = Own(c)
  BY OwnKept DEF SessionInv
<1>3. OneCall(c) => OneCall(c)'
  BY DEF OneCall, Calling, SameStarts
<1>4. Knows(c) => Knows(c)'
  BY <1>2 DEF Knows, SameBrowser, SameStarts
<1>5. Asks(c) => Asks(c)'
  BY <1>2 DEF Asks, Told, SameBrowser
<1>6. Orderly(c)
  BY DEF SessionInv
<1> QED
  BY <1>1, <1>3, <1>4, <1>5, <1>6 DEF Orderly, SameBrowser

(* The steps of a browser that change neither sessions nor calls of        *)
(* session-start, nor its own cookie.                                      *)
LEMMA LoginsPreserve ==
  ASSUME SessionInv, UNCHANGED <<active, starter, starts, check>>,
         browser' \in [Browsers -> BrowserStates],
         \A c \in Browsers : SameBrowser(c),
         acts' \in 0 .. MaxActs, troubles' \in 0 .. MaxTroubles
  PROVE  SessionInv'
<1>1. Grows
  BY Stays DEF SessionInv
<1>2. \A c \in Browsers : CookieOK(c)' /\ Orderly(c)'
  BY <1>1, Untouched DEF SameStarts
<1>3. \A s \in starts' : StartOK(s)'
  BY DEF SessionInv, StartOK, Sessions
<1> QED
  BY <1>2, <1>3 DEF SessionInv, SessionTypeOK

LEMMA RecoverKeeps ==
  ASSUME SessionInv, NEW b \in Browsers, Recover(b)
  PROVE  SessionInv'
<1> DEFINE w == [browser[b] EXCEPT !.held = TRUE, !.valid = TRUE, !.program = FALSE]
<1>1. browser \in [Browsers -> BrowserStates]
  BY DEF SessionInv, SessionTypeOK
<1>2. w \in BrowserStates /\ w.cookie = browser[b].cookie /\ w.muddled = browser[b].muddled
  BY <1>1 DEF BrowserStates
<1>3. browser' = [browser EXCEPT ![b] = w]
  BY <1>1 DEF Recover
<1> HIDE DEF w
<1>4. /\ browser' \in [Browsers -> BrowserStates]
      /\ \A c \in Browsers : SameBrowser(c)
  BY <1>1, <1>2, <1>3 DEF SameBrowser
<1>5. acts' \in 0 .. MaxActs /\ troubles' \in 0 .. MaxTroubles
  BY DEF Recover, SessionInv, SessionTypeOK
<1> QED
  BY <1>4, <1>5, LoginsPreserve DEF Recover

LEMMA GoOnKeeps ==
  ASSUME SessionInv, NEW b \in Browsers, GoOn(b)
  PROVE  SessionInv'
<1> DEFINE w == [browser[b] EXCEPT !.program = TRUE]
<1>1. browser \in [Browsers -> BrowserStates]
  BY DEF SessionInv, SessionTypeOK
<1>2. w \in BrowserStates /\ w.cookie = browser[b].cookie /\ w.muddled = browser[b].muddled
  BY <1>1 DEF BrowserStates
<1>3. browser' = [browser EXCEPT ![b] = w]
  BY <1>1 DEF GoOn
<1> HIDE DEF w
<1>4. /\ browser' \in [Browsers -> BrowserStates]
      /\ \A c \in Browsers : SameBrowser(c)
  BY <1>1, <1>2, <1>3 DEF SameBrowser
<1>5. acts' \in 0 .. MaxActs /\ troubles' \in 0 .. MaxTroubles
  BY DEF GoOn, SessionInv, SessionTypeOK
<1> QED
  BY <1>4, <1>5, LoginsPreserve DEF GoOn

LEMMA LetGoKeeps ==
  ASSUME SessionInv, NEW b \in Browsers, LetGo(b)
  PROVE  SessionInv'
<1> DEFINE w == [browser[b] EXCEPT !.held = FALSE, !.program = FALSE]
<1>1. browser \in [Browsers -> BrowserStates]
  BY DEF SessionInv, SessionTypeOK
<1>2. w \in BrowserStates /\ w.cookie = browser[b].cookie /\ w.muddled = browser[b].muddled
  BY <1>1 DEF BrowserStates
<1>3. browser' = [browser EXCEPT ![b] = w]
  BY <1>1 DEF LetGo
<1> HIDE DEF w
<1>4. /\ browser' \in [Browsers -> BrowserStates]
      /\ \A c \in Browsers : SameBrowser(c)
  BY <1>1, <1>2, <1>3 DEF SameBrowser
<1>5. acts' \in 0 .. MaxActs /\ troubles' \in 0 .. MaxTroubles
  BY DEF LetGo, SessionInv, SessionTypeOK
<1> QED
  BY <1>4, <1>5, LoginsPreserve DEF LetGo

LEMMA RevokeOthersKeeps ==
  ASSUME SessionInv, NEW b \in Browsers, RevokeOthers(b)
  PROVE  SessionInv'
<1>1. browser \in [Browsers -> BrowserStates]
  BY DEF SessionInv, SessionTypeOK
<1>2. ASSUME NEW c \in Browsers
      PROVE  browser'[c] \in BrowserStates /\ SameBrowser(c)
  BY <1>1 DEF RevokeOthers, SameBrowser, BrowserStates
<1>3. browser' = [c \in Browsers |-> browser'[c]]
  BY DEF RevokeOthers
<1>4. browser' \in [Browsers -> BrowserStates]
  BY <1>2, <1>3
<1>5. acts' \in 0 .. MaxActs /\ troubles' \in 0 .. MaxTroubles
  BY DEF RevokeOthers, SessionInv, SessionTypeOK
<1> QED
  BY <1>2, <1>4, <1>5, LoginsPreserve DEF RevokeOthers

LEMMA SignedOutFacts ==
  ASSUME SessionInv, NEW b \in Browsers, SignedOut(b)
  PROVE  /\ browser' \in [Browsers -> BrowserStates]
         /\ \A c \in Browsers : SameBrowser(c)
<1>1. browser \in [Browsers -> BrowserStates]
  BY DEF SessionInv, SessionTypeOK
<1>2. ASSUME NEW c \in Browsers
      PROVE  browser'[c] \in BrowserStates /\ SameBrowser(c)
  BY <1>1 DEF SignedOut, SameBrowser, BrowserStates
<1>3. browser' = [c \in Browsers |-> browser'[c]]
  BY DEF SignedOut
<1> QED
  BY <1>2, <1>3

LEMMA SignOutKeeps ==
  ASSUME SessionInv, NEW b \in Browsers, SignOut(b)
  PROVE  SessionInv'
<1>1. acts' \in 0 .. MaxActs /\ troubles' \in 0 .. MaxTroubles
  BY DEF SignOut, SessionInv, SessionTypeOK
<1> QED
  BY <1>1, SignedOutFacts, LoginsPreserve DEF SignOut

(* A browser and perhaps its check change; a new session-start is sent.    *)
LEMMA SignInKeeps ==
  ASSUME SessionInv, NEW b \in Browsers, SignIn(b)
  PROVE  SessionInv'
<1>1. /\ browser \in [Browsers -> BrowserStates] /\ starts \subseteq Starts
      /\ SessionTypeOK
  BY DEF SessionInv, SessionTypeOK
<1>2. PICK s \in Starts :
        /\ starts' = starts \cup {s} /\ s.browser = b /\ ~s.written /\ StartOK(s)'
  BY <1>1, SendGrows DEF SignIn
<1>3. Grows /\ active \in 0 .. Len(starter')
  BY <1>1, SendGrows DEF SignIn
<1>4. /\ browser' \in [Browsers -> BrowserStates]
      /\ \A c \in Browsers : SameBrowser(c)
      /\ browser'[b].muddled =
           (browser[b].muddled \/ Calling(b) \/ check[b].step # "none")
  <2>1. Calling(b) \in BOOLEAN
    BY DEF Calling
  <2> DEFINE w == [browser[b] EXCEPT !.held = TRUE, !.valid = TRUE, !.program = FALSE,
                     !.muddled = browser[b].muddled \/ Calling(b)
                                   \/ check[b].step # "none"]
  <2>2. /\ w \in BrowserStates /\ w.cookie = browser[b].cookie
        /\ w.muddled = (browser[b].muddled \/ Calling(b) \/ check[b].step # "none")
    BY <1>1, <2>1 DEF BrowserStates
  <2>3. browser' = [browser EXCEPT ![b] = w]
    BY DEF SignIn
  <2> HIDE DEF w
  <2> QED
    BY <1>1, <2>2, <2>3 DEF SameBrowser
<1>5. UNCHANGED <<active, check, troubles>> /\ acts' \in 0 .. MaxActs
  BY DEF SignIn, SessionInv, SessionTypeOK
<1>6. \A t \in starts' : StartOK(t)'
  BY <1>2, <1>3 DEF SessionInv, StartOK, Grows
<1>7. CookieOK(b)'
  BY <1>3, <1>4, CookieKept DEF SameBrowser
<1>8. Orderly(b)'
  <2> SUFFICES ASSUME ~browser'[b].muddled PROVE OneCall(b)' /\ Knows(b)' /\ Asks(b)'
    BY DEF Orderly
  <2>1. /\ ~browser[b].muddled /\ ~Calling(b) /\ check[b].step = "none"
        /\ browser'[b].cookie = browser[b].cookie
    BY <1>1, <1>4, BrowserFields DEF SameBrowser
  <2>2. Orderly(b) /\ Own(b)' = Own(b)
    BY <1>1, <1>3, <1>5, OwnKept DEF SessionInv
  <2>3. OneCall(b)'
    BY <1>2, <1>5, <2>1 DEF OneCall, Calling
  <2>4. Knows(b)'
    BY <1>2, <1>5, <2>1, <2>2 DEF Orderly, Knows
  <2>5. Asks(b)'
    BY <1>5, <2>1 DEF Asks, Told
  <2> QED
    BY <2>3, <2>4, <2>5
<1>9. ASSUME NEW c \in Browsers, c # b PROVE CookieOK(c)' /\ Orderly(c)'
  <2>1. SameStarts(c)
    BY <1>2, <1>9 DEF SameStarts
  <2> QED
    BY <1>3, <1>4, <1>5, <2>1, Untouched
<1>10. SessionTypeOK'
  BY <1>1, <1>2, <1>3, <1>4, <1>5 DEF SessionTypeOK, Grows
<1> QED
  BY <1>6, <1>7, <1>8, <1>9, <1>10 DEF SessionInv

LEMMA StartServedKeeps ==
  ASSUME SessionInv, NEW s \in starts, StartServed(s)
  PROVE  SessionInv'
<1>1. /\ s \in Starts /\ starts \subseteq Starts /\ SessionTypeOK /\ StartOK(s)
  BY DEF SessionInv, SessionTypeOK
<1>2. PICK t \in Starts :
        /\ t.session = s.session /\ t.browser = s.browser /\ t.written
        /\ t = [s EXCEPT !.written = TRUE]
  BY <1>1, StartFields
<1>3. /\ starts' = (starts \ {s}) \cup {t} /\ active' = s.session
      /\ UNCHANGED <<starter, browser, check, acts, troubles>>
  BY <1>2 DEF StartServed
<1>4. Len(starter) \in Nat /\ s.session \in Sessions /\ s.session # 0
  BY <1>1, StarterTyping DEF StartOK, Sessions
<1>5. SessionTypeOK'
  <2>1. starts' \subseteq Starts
    BY <1>1, <1>2, <1>3
  <2>2. active' \in 0 .. Len(starter)
    BY <1>3, <1>4 DEF Sessions
  <2> QED
    BY <1>1, <1>3, <2>1, <2>2 DEF SessionTypeOK
<1>6. \A u \in starts' : StartOK(u)'
  BY <1>1, <1>2, <1>3 DEF SessionInv, StartOK, Sessions
<1>7. ASSUME NEW c \in Browsers PROVE CookieOK(c)' /\ Orderly(c)'
  <2>1. CookieOK(c) /\ Orderly(c)
    BY DEF SessionInv
  <2>2. CookieOK(c)'
    BY <1>3, <2>1 DEF CookieOK, Sessions
  <2>3. OneCall(c) => OneCall(c)'
    <3>1. \A u \in starts' : u = t \/ (u \in starts /\ u # s)
      BY <1>3
    <3>2. Calling(c)' => Calling(c)
      BY <1>2, <3>1 DEF Calling
    <3>3. ASSUME OneCall(c), NEW u \in starts', NEW x \in starts',
                 u.browser = c, x.browser = c
          PROVE  u = x
      BY <1>2, <3>1, <3>3 DEF OneCall
    <3> QED
      BY <1>3, <3>2, <3>3 DEF OneCall
  <2>4. CASE c = s.browser
    <3>1. OneCall(c) => Knows(c)'
      BY <1>2, <1>3, <2>4 DEF OneCall, Knows
    <3>2. OneCall(c) => Asks(c)'
      BY <1>3, <2>4 DEF OneCall, Calling, Asks, Told
    <3> QED
      BY <1>3, <2>1, <2>2, <2>3, <3>1, <3>2 DEF Orderly
  <2>5. CASE c # s.browser
    <3>1. ~Own(c)' /\ active' # 0
      BY <1>1, <1>3, <1>4, <2>5 DEF Own, StartOK
    <3>2. Knows(c)'
      BY <3>1 DEF Knows
    <3>3. Asks(c) => Asks(c)'
      BY <1>3, <3>1 DEF Asks, Told
    <3> QED
      BY <1>3, <2>1, <2>2, <2>3, <3>2, <3>3 DEF Orderly
  <2> QED
    BY <2>4, <2>5
<1> QED
  BY <1>5, <1>6, <1>7 DEF SessionInv

(* A session-start is over: the browser has a cookie, or does not know.    *)
LEMMA StartOverKeeps ==
  ASSUME SessionInv, NEW s \in starts, NEW changed \in BrowserStates,
         StartOver(s, changed), UNCHANGED <<active, starter, acts>>,
         troubles' \in 0 .. MaxTroubles,
         browser[s.browser].muddled => changed.muddled,
         changed.cookie # browser[s.browser].cookie =>
           s.written /\ changed.cookie = s.session,
         ~s.written \/ changed.cookie = s.session \/ changed.muddled
  PROVE  SessionInv'
<1> DEFINE b == s.browser
<1>1. /\ b \in Browsers /\ starts \subseteq Starts /\ SessionTypeOK /\ StartOK(s)
      /\ browser \in [Browsers -> BrowserStates] /\ check \in [Browsers -> Checks]
  BY StartFields DEF SessionInv, SessionTypeOK
<1>2. PICK w \in BrowserStates :
        /\ w.cookie = changed.cookie /\ w.muddled = changed.muddled
        /\ w = [changed EXCEPT !.program = TRUE]
  <2>1. /\ [changed EXCEPT !.program = TRUE] \in BrowserStates
        /\ [changed EXCEPT !.program = TRUE].cookie = changed.cookie
        /\ [changed EXCEPT !.program = TRUE].muddled = changed.muddled
    BY DEF BrowserStates
  <2> QED
    BY <2>1
<1>3. /\ starts' = starts \ {s} /\ browser' = [browser EXCEPT ![b] = w]
      /\ check' = IF check[b].step = "heal"
                  THEN [check EXCEPT ![b] = NoCheck] ELSE check
  BY <1>2 DEF StartOver
<1>4. /\ browser' \in [Browsers -> BrowserStates] /\ check' \in [Browsers -> Checks]
      /\ browser'[b] = w
      /\ check'[b] = IF check[b].step = "heal" THEN NoCheck ELSE check[b]
      /\ \A c \in Browsers : c # b => browser'[c] = browser[c] /\ check'[c] = check[c]
  BY <1>1, <1>3, NoCheckTyping
<1>5. SessionTypeOK'
  BY <1>1, <1>3, <1>4 DEF SessionTypeOK
<1>6. Grows
  BY <1>1, Stays
<1>7. \A u \in starts' : StartOK(u)'
  BY <1>3 DEF SessionInv, StartOK, Sessions
<1>8. CookieOK(b)'
  BY <1>1, <1>2, <1>4 DEF SessionInv, CookieOK, StartOK, Sessions
<1>9. Orderly(b)'
  <2> SUFFICES ASSUME ~browser'[b].muddled PROVE OneCall(b)' /\ Knows(b)' /\ Asks(b)'
    BY DEF Orderly
  <2>1. ~browser[b].muddled /\ Calling(b)
    BY <1>2, <1>4 DEF Calling
  <2>2. OneCall(b) /\ Knows(b) /\ Asks(b)
    BY <1>1, <2>1 DEF SessionInv, Orderly
  <2>3. ~Calling(b)' /\ check'[b].step = "none"
    BY <1>3, <1>4, <2>1, <2>2, NoCheckTyping DEF OneCall, Calling
  <2>4. OneCall(b)'
    BY <2>3 DEF OneCall, Calling
  <2>5. Asks(b)'
    BY <2>3 DEF Asks, Told
  <2>6. Own(b)' = Own(b)
    BY DEF Own
  <2>7. Own(b) => browser'[b].cookie = active
    BY <1>2, <1>4, <2>2 DEF Knows, OneCall
  <2> QED
    BY <2>3, <2>4, <2>5, <2>6, <2>7 DEF Knows, Calling
<1>10. ASSUME NEW c \in Browsers, c # b PROVE CookieOK(c)' /\ Orderly(c)'
  <2>1. SameStarts(c) /\ SameBrowser(c) /\ check'[c] = check[c]
    BY <1>3, <1>4, <1>10 DEF SameStarts, SameBrowser
  <2> QED
    BY <1>6, <2>1, Untouched
<1> QED
  BY <1>5, <1>7, <1>8, <1>9, <1>10 DEF SessionInv

LEMMA StartEndsKeep ==
  ASSUME SessionInv, NEW s \in starts,
         StartAnswered(s) \/ StartRefused(s) \/ StartLost(s)
  PROVE  SessionInv'
<1> DEFINE w == browser[s.browser]
<1>1. s \in Starts /\ w \in BrowserStates
  BY StartFields DEF SessionInv, SessionTypeOK
<1>2. troubles' \in 0 .. MaxTroubles
  BY DEF StartAnswered, StartRefused, StartLost, SessionInv, SessionTypeOK
<1>3. CASE StartAnswered(s)
  <2> DEFINE changed == [w EXCEPT !.cookie = s.session]
  <2>1. /\ changed \in BrowserStates /\ changed.cookie = s.session
        /\ changed.muddled = w.muddled
    BY <1>1, StartFields DEF BrowserStates
  <2>2. StartOver(s, changed) /\ s.written /\ UNCHANGED <<active, starter, acts>>
    BY <1>3 DEF StartAnswered
  <2> HIDE DEF changed
  <2> QED
    BY <1>2, <2>1, <2>2, StartOverKeeps
<1>4. CASE StartRefused(s)
  BY <1>1, <1>2, <1>4, StartOverKeeps DEF StartRefused
<1>5. CASE StartLost(s)
  <2> DEFINE changed == [w EXCEPT !.muddled = TRUE]
  <2>1. changed \in BrowserStates /\ changed.cookie = w.cookie /\ changed.muddled
    BY <1>1 DEF BrowserStates
  <2>2. StartOver(s, changed) /\ UNCHANGED <<active, starter, acts>>
    BY <1>5 DEF StartLost
  <2> HIDE DEF changed
  <2> QED
    BY <1>2, <2>1, <2>2, StartOverKeeps
<1> QED
  BY <1>3, <1>4, <1>5

(* The check of a browser changes, and nothing that the others see.        *)
ChecksAs(b, k) ==
  /\ k \in Checks /\ check' = [check EXCEPT ![b] = k]
  /\ browser' \in [Browsers -> BrowserStates]
  /\ \A c \in Browsers : SameBrowser(c)
  /\ UNCHANGED <<active, starter, starts>>
  /\ acts' \in 0 .. MaxActs /\ troubles' \in 0 .. MaxTroubles

LEMMA ChecksPreserve ==
  ASSUME SessionInv, NEW b \in Browsers, NEW k, ChecksAs(b, k),
         ~browser'[b].muddled /\ Orderly(b) =>
           OneCall(b)' /\ Asks(b)'
  PROVE  SessionInv'
<1>1. /\ SessionTypeOK /\ check \in [Browsers -> Checks]
      /\ check' = [check EXCEPT ![b] = k] /\ k \in Checks
  BY DEF SessionInv, SessionTypeOK, ChecksAs
<1>2. check' \in [Browsers -> Checks]
  BY <1>1
<1>3. \A c \in Browsers : c # b => check'[c] = check[c]
  BY <1>1
<1>4. Grows
  BY <1>1, Stays DEF ChecksAs
<1>5. SessionTypeOK'
  BY <1>1, <1>2 DEF SessionTypeOK, ChecksAs
<1>6. \A s \in starts' : StartOK(s)'
  BY DEF SessionInv, StartOK, Sessions, ChecksAs
<1>7. ASSUME NEW c \in Browsers, c # b PROVE CookieOK(c)' /\ Orderly(c)'
  BY <1>3, <1>4, <1>7, Untouched DEF ChecksAs, SameStarts
<1>8. CookieOK(b)'
  BY <1>4, CookieKept DEF ChecksAs, SameBrowser
<1>9. Own(b)' = Own(b)
  BY DEF Own, ChecksAs
<1>10. Knows(b) => Knows(b)'
  BY <1>9 DEF Knows, ChecksAs, SameBrowser
<1>11. Orderly(b)'
  BY <1>10 DEF SessionInv, Orderly, ChecksAs, SameBrowser
<1> QED
  BY <1>5, <1>6, <1>7, <1>8, <1>11 DEF SessionInv

LEMMA MuddledTyping ==
  ASSUME SessionInv, NEW b \in Browsers,
         browser' = [browser EXCEPT ![b].muddled = @ \/ Calling(b)]
  PROVE  /\ browser' \in [Browsers -> BrowserStates]
         /\ \A c \in Browsers : SameBrowser(c)
         /\ browser'[b].muddled = (browser[b].muddled \/ Calling(b))
<1>1. browser \in [Browsers -> BrowserStates]
  BY DEF SessionInv, SessionTypeOK
<1> DEFINE w == [browser[b] EXCEPT !.muddled = browser[b].muddled \/ Calling(b)]
<1>2. Calling(b) \in BOOLEAN
  BY DEF Calling
<1>3. /\ w \in BrowserStates /\ w.cookie = browser[b].cookie
      /\ w.muddled = (browser[b].muddled \/ Calling(b))
  BY <1>1, <1>2 DEF BrowserStates
<1>4. browser' = [browser EXCEPT ![b] = w]
  OBVIOUS
<1> HIDE DEF w
<1> QED
  BY <1>1, <1>3, <1>4 DEF SameBrowser

LEMMA SameTyping ==
  ASSUME SessionInv, browser' = browser
  PROVE  /\ browser' \in [Browsers -> BrowserStates]
         /\ \A c \in Browsers : SameBrowser(c)
BY DEF SessionInv, SessionTypeOK, SameBrowser

LEMMA CheckSentKeeps ==
  ASSUME SessionInv, NEW b \in Browsers, CheckSent(b)
  PROVE  SessionInv'
<1> DEFINE k == [NoCheck EXCEPT !.step = "asked", !.cookie = browser[b].cookie]
<1>1. check \in [Browsers -> Checks] /\ browser[b] \in BrowserStates
  BY DEF SessionInv, SessionTypeOK
<1>2. k \in Checks /\ k.step = "asked" /\ k.cookie = browser[b].cookie
  BY <1>1 DEF NoCheck, Checks, Answers, BrowserStates
<1>3. /\ check' = [check EXCEPT ![b] = k]
      /\ browser' = [browser EXCEPT ![b].muddled = @ \/ Calling(b)]
      /\ UNCHANGED <<active, starter, starts, acts, troubles>>
  BY DEF CheckSent
<1> HIDE DEF k
<1>4. ChecksAs(b, k) /\ browser'[b].muddled = (browser[b].muddled \/ Calling(b))
  BY <1>2, <1>3, MuddledTyping DEF ChecksAs, SessionInv, SessionTypeOK
<1>5. check'[b] = k
  BY <1>1, <1>3
<1>6. ~browser'[b].muddled => OneCall(b)' /\ Asks(b)'
  BY <1>2, <1>3, <1>4, <1>5 DEF OneCall, Calling, Asks, Told, ChecksAs, SameBrowser
<1> QED
  BY <1>4, <1>6, ChecksPreserve

LEMMA CheckServedKeeps ==
  ASSUME SessionInv, NEW b \in Browsers, CheckServed(b)
  PROVE  SessionInv'
<1> DEFINE k == [check[b] EXCEPT !.step = "answered", !.answer = Answer(b)]
<1>1. check \in [Browsers -> Checks] /\ check[b].step = "asked"
  BY DEF SessionInv, SessionTypeOK, CheckServed
<1>2. Answer(b) \in Answers
  BY DEF Answer, Answers
<1>3. /\ k \in Checks /\ k.step = "answered" /\ k.cookie = check[b].cookie
      /\ k.answer = Answer(b)
  BY <1>1, <1>2 DEF Checks
<1>4. /\ check' = [check EXCEPT ![b] = k] /\ browser' = browser
      /\ UNCHANGED <<active, starter, starts, acts, troubles>>
  BY <1>1 DEF CheckServed
<1> HIDE DEF k
<1>5. ChecksAs(b, k) /\ check'[b] = k
  BY <1>1, <1>3, <1>4, SameTyping DEF ChecksAs, SessionInv, SessionTypeOK
<1>6. Orderly(b) /\ ~browser'[b].muddled => OneCall(b)' /\ Asks(b)'
  <2> SUFFICES ASSUME Orderly(b), ~browser[b].muddled PROVE OneCall(b)' /\ Asks(b)'
    BY <1>4
  <2>1. /\ OneCall(b) /\ Knows(b) /\ ~Calling(b)
        /\ check[b].cookie = browser[b].cookie
    BY <1>1 DEF Orderly, OneCall, Asks
  <2>2. OneCall(b)'
    BY <1>4, <2>1 DEF OneCall, Calling
  <2>3. Answer(b) = "superseded" => active # 0 /\ ~Own(b)
    BY <2>1 DEF Answer, Knows, Calling
  <2>4. Asks(b)'
    BY <1>3, <1>4, <1>5, <2>1, <2>3 DEF Asks, Told, Own
  <2> QED
    BY <2>2, <2>4
<1> QED
  BY <1>5, <1>6, ChecksPreserve

(* The check is over.                                                      *)
LEMMA CheckEndsKeep ==
  ASSUME SessionInv, NEW b \in Browsers,
         check' = [check EXCEPT ![b] = NoCheck],
         browser' \in [Browsers -> BrowserStates],
         \A c \in Browsers : SameBrowser(c),
         UNCHANGED <<active, starter, starts>>,
         acts' \in 0 .. MaxActs, troubles' \in 0 .. MaxTroubles
  PROVE  SessionInv'
<1>1. ChecksAs(b, NoCheck)
  BY NoCheckTyping DEF ChecksAs
<1>2. check'[b].step = "none"
  BY NoCheckTyping DEF SessionInv, SessionTypeOK
<1>3. ~browser'[b].muddled /\ Orderly(b) => OneCall(b)' /\ Asks(b)'
  BY <1>2 DEF Orderly, OneCall, Calling, Asks, Told, SameBrowser
<1> QED
  BY <1>1, <1>3, ChecksPreserve

LEMMA CheckEnded ==
  ASSUME SessionInv, NEW b \in Browsers,
         CheckLost(b) \/ Superseded(b) \/ CheckOver(b)
  PROVE  SessionInv'
<1>1. acts' \in 0 .. MaxActs /\ troubles' \in 0 .. MaxTroubles
  BY DEF CheckLost, Superseded, CheckOver, SessionInv, SessionTypeOK
<1>2. CASE CheckLost(b)
  BY <1>1, <1>2, SameTyping, CheckEndsKeep DEF CheckLost
<1>3. CASE Superseded(b)
  BY <1>1, <1>3, SignedOutFacts, CheckEndsKeep DEF Superseded
<1>4. CASE CheckOver(b)
  <2> DEFINE w == [browser[b] EXCEPT !.program = browser[b].program \/ Told(b, "active")]
  <2>1. browser \in [Browsers -> BrowserStates]
    BY DEF SessionInv, SessionTypeOK
  <2>2. Told(b, "active") \in BOOLEAN
    BY DEF Told
  <2>3. /\ w \in BrowserStates /\ w.cookie = browser[b].cookie
        /\ w.muddled = browser[b].muddled
    BY <2>1, <2>2 DEF BrowserStates
  <2>4. browser' = [browser EXCEPT ![b] = w]
    BY <1>4 DEF CheckOver
  <2> HIDE DEF w
  <2>5. /\ browser' \in [Browsers -> BrowserStates]
        /\ \A c \in Browsers : SameBrowser(c)
    BY <2>1, <2>3, <2>4 DEF SameBrowser
  <2> QED
    BY <1>1, <1>4, <2>5, CheckEndsKeep DEF CheckOver
<1> QED
  BY <1>2, <1>3, <1>4

LEMMA HealKeeps ==
  ASSUME SessionInv, NEW b \in Browsers, Heal(b)
  PROVE  SessionInv'
<1>1. /\ SessionTypeOK /\ starts \subseteq Starts /\ check \in [Browsers -> Checks]
  BY DEF SessionInv, SessionTypeOK
<1>2. /\ Send(b) /\ UNCHANGED <<active, acts, troubles>>
      /\ browser' = [browser EXCEPT ![b].muddled = @ \/ Calling(b)]
  BY DEF Heal
<1>3. PICK s \in Starts :
        /\ starts' = starts \cup {s} /\ s.browser = b /\ ~s.written /\ StartOK(s)'
  BY <1>1, <1>2, SendGrows
<1>4. Grows /\ active \in 0 .. Len(starter')
  BY <1>1, <1>2, SendGrows
<1>5. /\ browser' \in [Browsers -> BrowserStates]
      /\ \A c \in Browsers : SameBrowser(c)
      /\ browser'[b].muddled = (browser[b].muddled \/ Calling(b))
  BY <1>2, MuddledTyping
<1>6. /\ check' \in [Browsers -> Checks] /\ check'[b].step = "heal"
      /\ \A c \in Browsers : c # b => check'[c] = check[c]
  <2> DEFINE k == [check[b] EXCEPT !.step = "heal"]
  <2>1. k \in Checks /\ k.step = "heal"
    BY <1>1 DEF Checks
  <2>2. check' = [check EXCEPT ![b] = k]
    BY DEF Heal
  <2> HIDE DEF k
  <2> QED
    BY <1>1, <2>1, <2>2
<1>7. \A t \in starts' : StartOK(t)'
  BY <1>3, <1>4 DEF SessionInv, StartOK, Grows
<1>8. CookieOK(b)'
  BY <1>4, <1>5, CookieKept DEF SameBrowser
<1>9. Orderly(b)'
  <2> SUFFICES ASSUME ~browser'[b].muddled PROVE OneCall(b)' /\ Knows(b)' /\ Asks(b)'
    BY DEF Orderly
  <2>1. ~browser[b].muddled /\ ~Calling(b) /\ browser'[b].cookie = browser[b].cookie
    BY <1>5 DEF SameBrowser
  <2>2. Orderly(b) /\ Own(b)' = Own(b)
    BY <1>1, <1>2, <1>4, OwnKept DEF SessionInv
  <2>3. OneCall(b)'
    BY <1>3, <1>6, <2>1 DEF OneCall, Calling
  <2>4. Knows(b)'
    BY <1>2, <1>3, <2>1, <2>2 DEF Orderly, Knows, Calling
  <2>5. Asks(b)'
    BY <1>6 DEF Asks, Told
  <2> QED
    BY <2>3, <2>4, <2>5
<1>10. ASSUME NEW c \in Browsers, c # b PROVE CookieOK(c)' /\ Orderly(c)'
  <2>1. SameStarts(c)
    BY <1>3, <1>10 DEF SameStarts
  <2> QED
    BY <1>2, <1>4, <1>5, <1>6, <1>10, <2>1, Untouched
<1>11. SessionTypeOK'
  BY <1>1, <1>2, <1>3, <1>4, <1>5, <1>6 DEF SessionTypeOK, Grows
<1> QED
  BY <1>7, <1>8, <1>9, <1>10, <1>11 DEF SessionInv

LEMMA SessionInitInv == SessionInit => SessionInv
<1> SUFFICES ASSUME SessionInit PROVE SessionInv
  OBVIOUS
<1>1. /\ active = 0 /\ starter = <<>> /\ starts = {} /\ acts = 0 /\ troubles = 0
  BY DEF SessionInit
<1>2. NewBrowser \in BrowserStates /\ NewBrowser.cookie = 0
  BY DEF NewBrowser, BrowserStates
<1>3. \A b \in Browsers : browser[b].cookie = 0 /\ check[b].step = "none"
  BY <1>2, NoCheckTyping DEF SessionInit
<1>4. /\ browser \in [Browsers -> BrowserStates] /\ check \in [Browsers -> Checks]
  BY <1>2, NoCheckTyping DEF SessionInit
<1>5. SessionTypeOK
  <2>1. starter \in Seq(Browsers) /\ active \in 0 .. Len(starter)
    BY <1>1
  <2>2. acts \in 0 .. MaxActs /\ troubles \in 0 .. MaxTroubles
    BY <1>1
  <2> QED
    BY <1>1, <1>4, <2>1, <2>2 DEF SessionTypeOK
<1>6. ASSUME NEW b \in Browsers PROVE CookieOK(b) /\ Orderly(b)
  BY <1>1, <1>3
     DEF CookieOK, Orderly, OneCall, Calling, Knows, Own, Asks, Told
<1> QED
  BY <1>1, <1>5, <1>6 DEF SessionInv

LEMMA SessionNextInv == SessionInv /\ [SessionNext]_sessionVars => SessionInv'
<1> SUFFICES ASSUME SessionInv, [SessionNext]_sessionVars PROVE SessionInv'
  OBVIOUS
<1>1. ASSUME NEW b \in Browsers,
             \/ SignIn(b) \/ Heartbeat(b) \/ CheckLost(b)
      PROVE  SessionInv'
  BY <1>1, SignInKeeps, CheckSentKeeps, CheckServedKeeps, HealKeeps, CheckEnded
     DEF Heartbeat
<1>2. ASSUME NEW b \in Browsers,
             Recover(b) \/ GoOn(b) \/ SignOut(b) \/ RevokeOthers(b) \/ LetGo(b)
      PROVE  SessionInv'
  BY <1>2, RecoverKeeps, GoOnKeeps, SignOutKeeps, RevokeOthersKeeps, LetGoKeeps
<1>3. ASSUME NEW s \in starts, StartGoesOn(s) \/ StartLost(s)
      PROVE  SessionInv'
  BY <1>3, StartServedKeeps, StartEndsKeep DEF StartGoesOn
<1>4. CASE UNCHANGED sessionVars
  <2>1. \A b \in Browsers : SameBrowser(b)
    BY <1>4 DEF sessionVars, SameBrowser
  <2>2. browser' \in [Browsers -> BrowserStates]
    BY <1>4 DEF sessionVars, SessionInv, SessionTypeOK
  <2>3. acts' \in 0 .. MaxActs /\ troubles' \in 0 .. MaxTroubles
    BY <1>4 DEF sessionVars, SessionInv, SessionTypeOK
  <2> QED
    BY <1>4, <2>1, <2>2, <2>3, LoginsPreserve DEF sessionVars
<1> QED
  BY <1>1, <1>2, <1>3, <1>4 DEF SessionNext

(* What the three properties rest on: sessions stay with the browser that  *)
(* asked for them, and a browser whose calls did not overlap knows its.    *)
THEOREM SessionKnowledge == SessionSpec => []SessionInv
  BY SessionInitInv, SessionNextInv, PTL DEF SessionSpec

(* The types of the profile's session, the browsers and their calls.       *)
THEOREM SessionTypes == SessionSpec => []SessionTypeOK
<1>1. SessionInv => SessionTypeOK
  BY DEF SessionInv
<1> QED
  BY <1>1, SessionKnowledge, PTL

(* Once a session is active, at most one browser passes                    *)
(* requireLicensedSession.                                                 *)
THEOREM OneDevice == SessionSpec => []OneBrowserPasses
<1>1. SessionInv => OneBrowserPasses
  BY DEF SessionInv, CookieOK, OneBrowserPasses, Passes
<1> QED
  BY <1>1, SessionKnowledge, PTL

(* A browser whose calls neither overlapped nor were lost is told by       *)
(* session-check that it was superseded only by another one.               *)
THEOREM SupersededOnlyByAnother == SessionSpec => []SupersededByAnother
<1>1. SessionInv => SupersededByAnother
  BY DEF SessionInv, Orderly, Asks, Own, SupersededByAnother
<1> QED
  BY <1>1, SessionKnowledge, PTL
=============================================================================
