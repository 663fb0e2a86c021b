-------------------------- MODULE ClientSessionProofs --------------------------
(***************************************************************************)
(* Theorems about ClientSession, for any users and any number of logins    *)
(* and pages.                                                              *)
(***************************************************************************)
EXTENDS ClientSession, SequenceTheorems, TLAPS

Kind == {"login", "vault"}

----------------------------------------------------------------------------
(* The pages after a step *)

\* A page that was replaced is the only one that changed.
LEMMA Replaced ==
    ASSUME NEW S \in Seq(Page), NEW k \in 1 .. Len(S), NEW q \in Page,
           NEW T, T = [S EXCEPT ![k] = q]
    PROVE  /\ T \in Seq(Page) /\ Len(T) = Len(S)
           /\ \A j \in 1 .. Len(S) : T[j] = IF j = k THEN q ELSE S[j]
BY ExceptSeq

\* A page of the sequence.
LEMMA PageTyped ==
    ASSUME NEW S \in Seq(Page), NEW k \in 1 .. Len(S)
    PROVE  S[k] \in Page
BY ElementOfSeq

\* A page of either kind can be idle.
LEMMA IdleTyped ==
    ASSUME NEW kind \in Kind
    PROVE  Idle(kind) \in Page
BY DEF Idle, Page, Kind

\* What Settled makes of page k, and that it leaves the others alone.
LEMMA SettledFacts ==
    ASSUME TypeOK, NEW k \in 1 .. Screen
    PROVE  /\ Settled(k) \in Seq(Page) /\ Len(Settled(k)) = Screen
           /\ \A j \in 1 .. Screen : j # k => Settled(k)[j] = pages[j]
           /\ Settled(k)[k].kind = pages[k].kind
           /\ ~Settled(k)[k].loading
           /\ Settled(k)[k].list = "none"
           /\ Settled(k)[k].token = None
           /\ Settled(k)[k].items \in {pages[k].items, None}
           /\ k = Screen => /\ Settled(k)[k].items = pages[k].items
                            /\ Settled(k)[k].retries = pages[k].retries
<1> DEFINE q == IF k = Screen
                THEN [pages[k] EXCEPT !.loading = FALSE, !.list = "none",
                                      !.token = None, !.reader = None]
                ELSE Idle(pages[k].kind)
<1>1. pages[k] \in Page
  BY PageTyped DEF TypeOK, Screen
<1>2. q \in Page
  <2>1. [pages[k] EXCEPT !.loading = FALSE, !.list = "none",
                         !.token = None, !.reader = None] \in Page
    BY <1>1 DEF Page
  <2>2. Idle(pages[k].kind) \in Page
    BY <1>1, IdleTyped DEF Page, Kind
  <2>3. QED
    BY <2>1, <2>2
<1>3. Settled(k) = [pages EXCEPT ![k] = q]
  BY DEF Settled
<1>4. /\ q.kind = pages[k].kind /\ ~q.loading /\ q.list = "none"
      /\ q.token = None /\ q.items \in {pages[k].items, None}
      /\ k = Screen => q.items = pages[k].items /\ q.retries = pages[k].retries
  BY <1>1 DEF Page, Idle
<1> HIDE DEF q
<1>5. /\ Settled(k) \in Seq(Page) /\ Len(Settled(k)) = Screen
      /\ \A j \in 1 .. Screen : Settled(k)[j] = IF j = k THEN q ELSE pages[j]
  BY <1>2, <1>3, Replaced DEF TypeOK, Screen
<1>6. QED
  BY <1>4, <1>5

\* A new page waits for nothing, or lists the items of an open session.
LEMMA OpenedFacts ==
    ASSUME NEW kind \in Kind, NEW s \in Session, NEW p \in Opened(kind, s)
    PROVE  /\ p \in Page /\ p.kind = kind /\ p.items = None /\ p.retries = 0
           /\ \/ ~p.loading /\ p.list = "none" /\ p.token = None
              \/ /\ kind = "vault" /\ ~Blocked(s)
                 /\ p.loading /\ p.list = "sent" /\ p.token = s.token
<1>1. CASE p = Idle(kind)
  BY <1>1, IdleTyped DEF Idle
<1>2. CASE /\ kind = "vault" /\ ~Blocked(s)
           /\ p = [Idle("vault") EXCEPT !.loading = TRUE, !.list = "sent",
                                        !.token = s.token]
  <2>1. p \in Page
    BY <1>2, IdleTyped DEF Page, Session, Kind
  <2>2. QED
    BY <1>2, <2>1 DEF Idle
<1>3. QED
  BY <1>1, <1>2 DEF Opened, Kind, Idle

\* A navigation keeps the page on screen, or leaves it and puts a new one there.
LEMMA NavigateFacts ==
    ASSUME NEW kind \in Kind, NEW s \in Session,
           NEW now \in Seq(Page), Len(now) > 0, Navigate(kind, s, now)
    PROVE  /\ pages' \in Seq(Page)
           /\ \A k \in 1 .. Len(now) :
                 \/ pages'[k] = now[k]
                 \/ /\ Len(pages') # Len(now) /\ k = Len(now)
                    /\ ~now[k].loading /\ pages'[k] = Idle(now[k].kind)
           /\ \/ Len(pages') = Len(now) /\ now[Len(now)].kind = kind
              \/ /\ Len(pages') = Len(now) + 1
                 /\ pages'[Len(pages')] \in Opened(kind, s)
<1> DEFINE n == Len(now)
           q == IF now[n].loading THEN now[n] ELSE Idle(now[n].kind)
           left == [now EXCEPT ![n] = q]
<1>1. n \in 1 .. n /\ now[n] \in Page
  BY PageTyped
<1>2. q \in Page
  BY <1>1, IdleTyped DEF Page, Kind
<1>3. CASE now[n].kind = kind
  BY <1>1, <1>3 DEF Navigate, Screen
<1>4. CASE now[n].kind # kind
  <2>1. PICK p \in Opened(kind, s) : pages' = Append(left, p)
    BY <1>4 DEF Navigate
  <2>2. /\ left \in Seq(Page) /\ Len(left) = n
        /\ \A j \in 1 .. n : left[j] = IF j = n THEN q ELSE now[j]
    BY <1>1, <1>2, Replaced
  <2>3. p \in Page
    BY OpenedFacts
  <2> HIDE DEF left
  <2>4. /\ pages' \in Seq(Page) /\ Len(pages') = n + 1 /\ pages'[n + 1] = p
        /\ \A j \in 1 .. n : pages'[j] = left[j]
    BY <2>1, <2>2, <2>3, AppendProperties
  <2>5. QED
    BY <1>1, <2>1, <2>2, <2>4
<1>5. QED
  BY <1>3, <1>4
----------------------------------------------------------------------------
(* What a change of the pages or of one page keeps: s is a session, P the  *)
(* pages with page n on screen, at the attempts, as in IInv.               *)

\* The part of the invariant that is about every page and every attempt.
Fits(P, n, at) ==
    /\ \A k \in 1 .. n : PageFits(P[k], at) /\ FormFits(k, P[k], at)
    /\ \A a \in Attempt : AttemptFits(at[a], P[at[a].page], n)

\* A navigation keeps what holds of every page and every attempt.
LEMMA NavigationFits ==
    ASSUME NEW s \in Session, NEW at, SessionFits(s, at), NEW kind \in Kind,
           NEW n \in Nat, n > 0, NEW m, NEW P, NEW Q,
           \A k \in 1 .. n : P[k] \in Page,
           Fits(P, n, at),
           \A k \in 1 .. n :
              \/ Q[k] = P[k]
              \/ m # n /\ k = n /\ ~P[k].loading /\ Q[k] = Idle(P[k].kind),
           \/ m = n
           \/ m = n + 1 /\ Q[m] \in Opened(kind, s)
    PROVE  Fits(Q, m, at)
<1>2. ASSUME NEW k \in 1 .. n PROVE PageFits(Q[k], at) /\ FormFits(k, Q[k], at)
  <2>1. PageFits(P[k], at) /\ FormFits(k, P[k], at) /\ P[k].kind \in Kind
    BY DEF Fits, Page, Kind
  <2>2. CASE Q[k] = P[k]
    BY <2>1, <2>2
  <2>3. CASE ~P[k].loading /\ Q[k] = Idle(P[k].kind)
    BY <2>1, <2>3 DEF PageFits, FormFits, Idle
  <2>4. QED
    BY <2>2, <2>3
<1>3. ASSUME NEW a \in Attempt PROVE AttemptFits(at[a], Q[at[a].page], m)
  <2> DEFINE k == at[a].page
  <2>1. AttemptFits(at[a], P[k], n)
    BY DEF Fits
  <2>2. CASE at[a].pc = "new"
    BY <2>1, <2>2 DEF AttemptFits, InFlight
  <2>3. CASE at[a].pc # "new" /\ Q[k] = P[k] /\ (m = n \/ k # m)
    BY <2>1, <2>3 DEF AttemptFits
  <2>4. CASE at[a].pc # "new" /\ m = n + 1 /\ ~P[k].loading /\ Q[k] = Idle(P[k].kind)
    <3>1. k \in 1 .. n /\ k # m
      BY <2>1, <2>4 DEF AttemptFits
    <3>2. QED
      BY <2>1, <2>4, <3>1 DEF AttemptFits, Idle
  <2>5. ASSUME at[a].pc # "new" PROVE k \in 1 .. n
    BY <2>1, <2>5 DEF AttemptFits
  <2>6. QED
    BY <2>2, <2>3, <2>4, <2>5
<1>4. ASSUME m = n + 1 PROVE PageFits(Q[m], at) /\ FormFits(m, Q[m], at)
  <2>1. ~ \E a \in Attempt : at[a].pc \in InFlight /\ at[a].page = m
    <3> SUFFICES ASSUME NEW a \in Attempt, at[a].pc \in InFlight, at[a].page = m
                 PROVE  FALSE
      OBVIOUS
    <3>1. AttemptFits(at[a], P[at[a].page], n)
      BY DEF Fits
    <3>2. QED
      BY <1>4, <3>1 DEF AttemptFits, InFlight
  <2>2. Q[m] \in Opened(kind, s)
    BY <1>4
  <2>3. /\ Q[m].kind = kind /\ Q[m].items = None
        /\ \/ ~Q[m].loading /\ Q[m].list = "none" /\ Q[m].token = None
           \/ /\ kind = "vault" /\ ~Blocked(s)
              /\ Q[m].loading /\ Q[m].list = "sent" /\ Q[m].token = s.token
    BY <2>2, OpenedFacts
  <2>4. PageFits(Q[m], at)
    BY <2>3 DEF PageFits, SessionFits
  <2>5. FormFits(m, Q[m], at)
    BY <2>1, <2>3 DEF FormFits
  <2>6. QED
    BY <2>4, <2>5
<1>5. QED
  BY <1>2, <1>3, <1>4 DEF Fits

\* Page k and the attempts on it, or new on it, are the only ones that change.
LEMMA ReplacedFits ==
    ASSUME NEW n \in Nat, NEW k \in 1 .. n, NEW P, NEW Q, NEW at, NEW new,
           \A j \in 1 .. n : P[j] \in Page,
           Fits(P, n, at),
           \A j \in 1 .. n : j # k => Q[j] = P[j],
           \A a \in Attempt : new[a] # at[a] => new[a].page = k,
           \A a \in Attempt : new[a] # at[a] => at[a].pc \in InFlight \cup {"new"},
           \A a \in Attempt : new[a] # at[a] /\ at[a].pc \in InFlight => at[a].page = k,
           PageFits(Q[k], new), FormFits(k, Q[k], new),
           \A a \in Attempt : new[a].page = k => AttemptFits(new[a], Q[k], n)
    PROVE  Fits(Q, n, new)
<1>1. ASSUME NEW j \in 1 .. n, j # k PROVE PageFits(Q[j], new)
  <2>1. PageFits(P[j], at) /\ P[j] \in Page /\ Q[j] = P[j]
    BY <1>1 DEF Fits
  <2>2. CASE P[j].token = None
    BY <2>1, <2>2 DEF PageFits
  <2>3. CASE P[j].token # None
    <3>1. P[j].token \in Attempt
      BY <2>1, <2>3 DEF Page
    <3>2. new[P[j].token] = at[P[j].token]
      BY <2>1, <2>3, <3>1 DEF PageFits, InFlight
    <3>3. QED
      BY <2>1, <2>3, <3>2 DEF PageFits
  <2>4. QED
    BY <2>2, <2>3
<1>2. ASSUME NEW j \in 1 .. n, j # k PROVE FormFits(j, Q[j], new)
  <2>1. FormFits(j, P[j], at) /\ Q[j] = P[j]
    BY <1>2 DEF Fits
  <2>2. {a \in Attempt : new[a].pc \in InFlight /\ new[a].page = j}
          = {a \in Attempt : at[a].pc \in InFlight /\ at[a].page = j}
    BY <1>2 DEF InFlight
  <2>3. QED
    BY <2>1, <2>2 DEF FormFits
<1>3. ASSUME NEW a \in Attempt, new[a].page # k
      PROVE  AttemptFits(new[a], Q[new[a].page], n)
  <2> DEFINE j == at[a].page
  <2>1. AttemptFits(at[a], P[j], n) /\ new[a] = at[a]
    BY <1>3 DEF Fits
  <2>2. CASE at[a].pc = "new"
    BY <2>1, <2>2 DEF AttemptFits, InFlight
  <2>3. CASE at[a].pc # "new"
    <3>1. j \in 1 .. n /\ j # k
      BY <1>3, <2>1, <2>3 DEF AttemptFits
    <3>2. QED
      BY <2>1, <3>1
  <2>4. QED
    BY <2>2, <2>3
<1>4. QED
  BY <1>1, <1>2, <1>3 DEF Fits

\* Page k waits no longer, and whatever attempt it had is over.
LEMMA SettledFits ==
    ASSUME NEW n \in Nat, NEW k \in 1 .. n, NEW P, NEW Q, NEW at, NEW new,
           \A j \in 1 .. n : P[j] \in Page,
           Fits(P, n, at),
           \A j \in 1 .. n : j # k => Q[j] = P[j],
           Q[k].kind = P[k].kind, ~Q[k].loading, Q[k].list = "none",
           Q[k].token = None, Q[k].kind = "login" => Q[k].items \in {P[k].items, None},
           k = n => Q[k].retries = P[k].retries,
           \A a \in Attempt :
              \/ new[a] = at[a]
              \/ /\ at[a].pc \in InFlight /\ at[a].page = k
                 /\ new[a].pc \in {"done", "strayed", "failed"}
                 /\ new[a].page = at[a].page /\ new[a].user = at[a].user
                 /\ new[a].asked = at[a].asked,
           \A a \in Attempt : ~(new[a].pc \in InFlight /\ new[a].page = k)
    PROVE  Fits(Q, n, new)
<1>1. PageFits(Q[k], new)
  BY DEF Fits, PageFits
<1>2. FormFits(k, Q[k], new)
  BY DEF FormFits
<1>3. ASSUME NEW a \in Attempt, new[a].page = k
      PROVE  AttemptFits(new[a], Q[k], n)
  <2>1. AttemptFits(at[a], P[k], n) /\ at[a].page = k
    BY <1>3 DEF Fits
  <2>2. CASE new[a] = at[a]
    BY <1>3, <2>1, <2>2 DEF AttemptFits
  <2>3. CASE new[a] # at[a]
    BY <2>1, <2>3 DEF AttemptFits, InFlight
  <2>4. QED
    BY <2>2, <2>3
<1>4. /\ \A a \in Attempt : new[a] # at[a] => new[a].page = k
      /\ \A a \in Attempt : new[a] # at[a] => at[a].pc \in InFlight \cup {"new"}
      /\ \A a \in Attempt : new[a] # at[a] /\ at[a].pc \in InFlight => at[a].page = k
  OBVIOUS
<1>5. QED
  BY <1>1, <1>2, <1>3, <1>4, ReplacedFits

\* What a new page does, it does for the session it is opened under.
LEMMA OpenedScreen ==
    ASSUME NEW s \in Session, NEW at, NEW kind \in Kind, NEW p \in Opened(kind, s)
    PROVE  ScreenFits(s, p, at)
BY OpenedFacts DEF ScreenFits

----------------------------------------------------------------------------
(* The inductive invariant, one lemma for each action *)

\* The parts of the invariant before a step.
LEMMA Before ==
    ASSUME IInv
    PROVE  /\ session \in Session /\ pages \in Seq(Page)
           /\ attempt \in [Attempt -> AttemptState]
           /\ Len(pages) \in Nat /\ Len(pages) > 0
           /\ \A k \in 1 .. Len(pages) : pages[k] \in Page
           /\ Fits(pages, Len(pages), attempt)
           /\ RetriesFit(attempt)
           /\ SessionFits(session, attempt)
           /\ ScreenFits(session, pages[Len(pages)], attempt)
<1>1. TypeOK
  BY DEF IInv
<1>2. \A k \in 1 .. Len(pages) : pages[k] \in Page
  BY <1>1, PageTyped DEF TypeOK
<1>3. Len(pages) \in Nat /\ Len(pages) > 0
  BY <1>1 DEF IInv, TypeOK, Screen
<1>4. QED
  BY <1>1, <1>2, <1>3 DEF IInv, TypeOK, Fits, Screen

\* The invariant after a step, from its parts.
LEMMA After ==
    ASSUME session' \in Session, pages' \in Seq(Page),
           attempt' \in [Attempt -> AttemptState],
           NEW n \in Nat, n > 0, n = Len(pages'),
           Fits(pages', n, attempt'), RetriesFit(attempt'),
           SessionFits(session', attempt'), ScreenFits(session', pages'[n], attempt')
    PROVE  IInv'
BY DEF IInv, TypeOK, Fits, Screen

\* A navigation under session s, from pages that fit.
LEMMA Navigated ==
    ASSUME NEW kind \in Kind, NEW s \in Session, NEW at, NEW now \in Seq(Page),
           Len(now) > 0, Fits(now, Len(now), at), SessionFits(s, at),
           ScreenFits(s, now[Len(now)], at), Navigate(kind, s, now)
    PROVE  /\ pages' \in Seq(Page) /\ Len(pages') \in Nat /\ Len(pages') > 0
           /\ Fits(pages', Len(pages'), at)
           /\ ScreenFits(s, pages'[Len(pages')], at)
<1> DEFINE n == Len(now)
           m == Len(pages')
<1>1. /\ pages' \in Seq(Page)
      /\ \A k \in 1 .. n :
            \/ pages'[k] = now[k]
            \/ /\ m # n /\ k = n
               /\ ~now[k].loading /\ pages'[k] = Idle(now[k].kind)
      /\ \/ m = n /\ now[n].kind = kind
         \/ /\ m = n + 1
            /\ pages'[m] \in Opened(kind, s)
  BY NavigateFacts
<1>2. n \in Nat /\ \A k \in 1 .. n : now[k] \in Page
  BY PageTyped
<1>3. Fits(pages', m, at)
  BY <1>1, <1>2, NavigationFits
<1>4. ScreenFits(s, pages'[m], at)
  BY <1>1, <1>2, OpenedScreen
<1>5. QED
  BY <1>1, <1>2, <1>3, <1>4

\* Page k waits no longer and its attempt, if it had one, is over.
LEMMA SettledState ==
    ASSUME IInv, NEW k \in 1 .. Len(pages), NEW new,
           \A a \in Attempt :
              \/ new[a] = attempt[a]
              \/ /\ attempt[a].pc \in InFlight /\ attempt[a].page = k
                 /\ new[a].pc \in {"done", "strayed", "failed"}
                 /\ new[a].page = attempt[a].page /\ new[a].user = attempt[a].user
                 /\ new[a].asked = attempt[a].asked,
           \A a \in Attempt : ~(new[a].pc \in InFlight /\ new[a].page = k)
    PROVE  /\ Settled(k) \in Seq(Page) /\ Len(Settled(k)) = Len(pages)
           /\ Fits(Settled(k), Len(pages), new)
<1>1. TypeOK /\ k \in 1 .. Screen
  BY DEF IInv, Screen
<1>2. /\ Settled(k) \in Seq(Page) /\ Len(Settled(k)) = Len(pages)
      /\ \A j \in 1 .. Len(pages) : j # k => Settled(k)[j] = pages[j]
      /\ Settled(k)[k].kind = pages[k].kind
      /\ ~Settled(k)[k].loading
      /\ Settled(k)[k].list = "none"
      /\ Settled(k)[k].token = None
      /\ Settled(k)[k].items \in {pages[k].items, None}
      /\ k = Len(pages) => Settled(k)[k].retries = pages[k].retries
  BY <1>1, SettledFacts DEF Screen
<1>3. Fits(Settled(k), Len(pages), new)
  BY <1>2, Before, SettledFits
<1>4. QED
  BY <1>2, <1>3

\* A screen that was in order is so when a page waits no longer.
LEMMA SettledScreen ==
    ASSUME IInv, NEW k \in 1 .. Len(pages), NEW s, NEW at,
           ScreenFits(s, pages[Len(pages)], at)
    PROVE  ScreenFits(s, Settled(k)[Len(pages)], at)
<1>1. TypeOK /\ k \in 1 .. Screen
  BY DEF IInv, Screen
<1>2. CASE k = Len(pages)
  <2>1. /\ Settled(k)[k].list = "none"
        /\ Settled(k)[k].items = pages[k].items
    BY <1>1, <1>2, SettledFacts DEF Screen
  <2>2. QED
    BY <1>2, <2>1 DEF ScreenFits
<1>3. CASE k # Len(pages)
  <2>1. Settled(k)[Len(pages)] = pages[Len(pages)]
    BY <1>1, <1>3, Before, SettledFacts DEF Screen
  <2>2. QED
    BY <2>1
<1>4. QED
  BY <1>2, <1>3

\* A page that lists is no form.
LEMMA ListPage ==
    ASSUME IInv, NEW k \in 1 .. Len(pages), pages[k].list # "none"
    PROVE  /\ pages[k] \in Page /\ pages[k].kind = "vault" /\ pages[k].loading
           /\ pages[k].token \in Attempt
           /\ \A a \in Attempt : ~(attempt[a].pc \in InFlight /\ attempt[a].page = k)
<1>1. PageFits(pages[k], attempt) /\ pages[k] \in Page
  BY Before DEF Fits
<1>2. pages[k].kind = "vault" /\ pages[k].loading /\ pages[k].token \in Attempt
  BY <1>1 DEF PageFits, Page
<1>3. ASSUME NEW a \in Attempt, attempt[a].pc \in InFlight, attempt[a].page = k
      PROVE  pages[k].kind = "login"
  BY <1>3, Before DEF Fits, AttemptFits
<1>4. QED
  BY <1>1, <1>2, <1>3

\* A link shows a page for the session there is.
LEMMA VisitStep ==
    ASSUME IInv, NEW kind \in Kind, Visit(kind)
    PROVE  IInv'
<1>1. session' = session /\ attempt' = attempt
  BY DEF Visit
<1>2. Navigate(kind, session, pages)
  BY DEF Visit
<1>3. /\ pages' \in Seq(Page) /\ Len(pages') \in Nat /\ Len(pages') > 0
      /\ Fits(pages', Len(pages'), attempt)
      /\ ScreenFits(session, pages'[Len(pages')], attempt)
  BY <1>2, Before, Navigated
<1>4. QED
  BY <1>1, <1>3, Before, After

\* An edit of the address.
LEMMA TypeStep ==
    ASSUME IInv, NEW email \in User \cup {None}, Type(email)
    PROVE  IInv'
<1> DEFINE n == Len(pages)
           q == [pages[n] EXCEPT !.email = email]
<1>1. session' = session /\ attempt' = attempt /\ pages' = [pages EXCEPT ![n] = q]
  BY DEF Type, Screen
<1>2. n \in 1 .. n /\ pages[n] \in Page
  BY Before
<1>3. /\ q \in Page /\ q.kind = pages[n].kind /\ q.loading = pages[n].loading
      /\ q.retries = pages[n].retries /\ q.list = pages[n].list
      /\ q.token = pages[n].token /\ q.reader = pages[n].reader
      /\ q.items = pages[n].items
  BY <1>2 DEF Page
<1> HIDE DEF q
<1>4. /\ pages' \in Seq(Page) /\ Len(pages') = n
      /\ \A j \in 1 .. n : pages'[j] = IF j = n THEN q ELSE pages[j]
  BY <1>1, <1>2, <1>3, Before, Replaced
<1>5. PageFits(q, attempt) /\ FormFits(n, q, attempt)
  BY <1>2, <1>3, Before DEF Fits, PageFits, FormFits
<1>6. ASSUME NEW a \in Attempt, attempt[a].page = n
      PROVE  AttemptFits(attempt[a], q, n)
  BY <1>2, <1>3, <1>6, Before DEF Fits, AttemptFits
<1>7. Fits(pages', n, attempt)
  BY <1>2, <1>4, <1>5, <1>6, Before, ReplacedFits
<1>8. ScreenFits(session, pages'[n], attempt)
  BY <1>2, <1>3, <1>4, Before DEF ScreenFits
<1>9. QED
  BY <1>1, <1>2, <1>4, <1>7, <1>8, Before, After

\* An attempt that was begun is on a page there is.
LEMMA OnPage ==
    ASSUME IInv, NEW a \in Attempt, attempt[a].pc \in InFlight
    PROVE  /\ attempt[a].page \in 1 .. Len(pages)
           /\ pages[attempt[a].page].kind = "login" /\ pages[attempt[a].page].loading
           /\ attempt[a].user # None
           /\ \A b \in Attempt : attempt[b].pc \in InFlight
                                 /\ attempt[b].page = attempt[a].page => b = a
<1>1. AttemptFits(attempt[a], pages[attempt[a].page], Len(pages))
  BY Before DEF Fits
<1>2. attempt[a].page \in 1 .. Len(pages)
  BY <1>1 DEF AttemptFits, InFlight
<1>3. FormFits(attempt[a].page, pages[attempt[a].page], attempt)
  BY <1>2, Before DEF Fits
<1>4. QED
  BY <1>1, <1>2, <1>3 DEF AttemptFits, FormFits

\* The token of a session names an attempt that is over: what another attempt
\* does leaves the session as it is.
LEMMA SessionKept ==
    ASSUME NEW s \in Session, NEW at, SessionFits(s, at), NEW p, ScreenFits(s, p, at),
           NEW a, NEW new, \A b \in Attempt : b # a => new[b] = at[b],
           at[a].pc \notin {"done", "strayed"}
    PROVE  SessionFits(s, new) /\ ScreenFits(s, p, new)
<1>1. CASE s.token = None
  BY <1>1 DEF SessionFits, ScreenFits
<1>2. CASE s.token # None
  <2>1. s.token \in Attempt /\ s.token # a
    BY <1>2 DEF Session, SessionFits
  <2>2. new[s.token] = at[s.token]
    BY <2>1
  <2>3. QED
    BY <2>2 DEF SessionFits, ScreenFits
<1>3. QED
  BY <1>1, <1>2

\* The challenge or the assertion has come.
LEMMA AnsweredStep ==
    ASSUME IInv, NEW a \in Attempt, Answered(a)
    PROVE  IInv'
<1> DEFINE n == Len(pages)
           k == attempt[a].page
           x == attempt'[a]
<1>1. session' = session /\ pages' = pages
  BY DEF Answered
<1>2. attempt[a].pc \in InFlight /\ attempt[a] \in AttemptState
  BY Before DEF Answered, InFlight
<1>3. PICK pc \in InFlight : attempt' = [attempt EXCEPT ![a].pc = pc]
  BY DEF Answered, InFlight
<1>4. /\ attempt' \in [Attempt -> AttemptState]
      /\ \A b \in Attempt : b # a => attempt'[b] = attempt[b]
      /\ x.pc \in InFlight /\ x.page = k /\ x.user = attempt[a].user
      /\ x.asked = attempt[a].asked
  <2>1. [attempt[a] EXCEPT !.pc = pc] \in AttemptState
    BY <1>2 DEF AttemptState
  <2>2. QED
    BY <1>2, <1>3, <2>1, Before DEF AttemptState
<1>5. k \in 1 .. n
  BY <1>2, OnPage
<1>6. PageFits(pages[k], attempt')
  <2>1. PageFits(pages[k], attempt) /\ pages[k] \in Page
    BY <1>5, Before DEF Fits
  <2>2. pages[k].token # None => pages[k].token \in Attempt /\ pages[k].token # a
    BY <1>2, <2>1 DEF Page, PageFits, InFlight
  <2>3. QED
    BY <1>4, <2>1, <2>2 DEF PageFits
<1>7. FormFits(k, pages[k], attempt')
  <2>1. {b \in Attempt : attempt'[b].pc \in InFlight /\ attempt'[b].page = k}
          = {b \in Attempt : attempt[b].pc \in InFlight /\ attempt[b].page = k}
    BY <1>2, <1>4
  <2>2. FormFits(k, pages[k], attempt)
    BY <1>5, Before DEF Fits
  <2>3. QED
    BY <2>1, <2>2 DEF FormFits
<1>8. ASSUME NEW b \in Attempt, attempt'[b].page = k
      PROVE  AttemptFits(attempt'[b], pages[k], n)
  <2>1. CASE b # a
    BY <1>4, <1>8, <2>1, Before DEF Fits
  <2>2. CASE b = a
    <3>1. AttemptFits(attempt[a], pages[k], n)
      BY Before DEF Fits
    <3>2. QED
      BY <1>2, <1>4, <2>2, <3>1 DEF AttemptFits, InFlight
  <2>3. QED
    BY <2>1, <2>2
<1>9. Fits(pages, n, attempt')
  BY <1>2, <1>4, <1>5, <1>6, <1>7, <1>8, Before, ReplacedFits
<1>10. RetriesFit(attempt')
  BY <1>4, Before DEF RetriesFit
<1>11. SessionFits(session, attempt') /\ ScreenFits(session, pages[n], attempt')
  <2>1. attempt[a].pc \notin {"done", "strayed"}
    BY <1>2 DEF InFlight
  <2>2. QED
    BY <1>4, <2>1, Before, SessionKept
<1>12. QED
  BY <1>1, <1>4, <1>9, <1>10, <1>11, Before, After

\* A press of the button: only one that is enabled, so the form is free.
LEMMA OnSubmitStep ==
    ASSUME IInv, NEW a \in Attempt, OnSubmit(a)
    PROVE  IInv'
<1> DEFINE n == Len(pages)
           p == pages[n]
           q == [p EXCEPT !.loading = TRUE]
           x == attempt'[a]
<1>1. /\ session' = session /\ pages' = [pages EXCEPT ![n] = q]
      /\ attempt[a].pc = "new" /\ p.kind = "login" /\ ~p.loading /\ p.email # None
  BY DEF OnSubmit, Screen
<1>2. n \in 1 .. n /\ p \in Page /\ attempt[a] \in AttemptState
  BY Before
<1>3. /\ q \in Page /\ q.kind = p.kind /\ q.loading /\ q.retries = p.retries
      /\ q.list = p.list /\ q.token = p.token /\ q.reader = p.reader
      /\ q.items = p.items
  BY <1>2 DEF Page
<1>4. /\ pages' \in Seq(Page) /\ Len(pages') = n
      /\ \A j \in 1 .. n : pages'[j] = IF j = n THEN q ELSE pages[j]
  <2> HIDE DEF q
  <2>1. QED
    BY <1>1, <1>2, <1>3, Before, Replaced
<1>5. attempt[a].asked = 0
  BY <1>1, Before DEF Fits, AttemptFits
<1>6. /\ attempt' \in [Attempt -> AttemptState]
      /\ \A b \in Attempt : b # a => attempt'[b] = attempt[b]
      /\ x.pc = "options" /\ x.page = n /\ x.user = p.email /\ x.asked = 1
  <2>1. attempt' = [attempt EXCEPT ![a] = [pc |-> "options", page |-> n,
                       user |-> p.email, asked |-> 1]]
    BY <1>2, <1>5 DEF OnSubmit, Asking, Screen
  <2>2. [pc |-> "options", page |-> n, user |-> p.email, asked |-> 1] \in AttemptState
    BY <1>2 DEF AttemptState, Page, InFlight
  <2>3. QED
    BY <2>1, <2>2, Before
<1> HIDE DEF q
<1>7. ASSUME NEW b \in Attempt, attempt[b].page = n
      PROVE  attempt[b].pc \notin InFlight /\ AttemptFits(attempt[b], p, n)
  BY <1>1, <1>7, Before DEF Fits, AttemptFits
<1>8. PageFits(q, attempt')
  <2>1. PageFits(p, attempt)
    BY <1>2, Before DEF Fits
  <2>2. p.token # None => p.token \in Attempt /\ p.token # a
    BY <1>1, <1>2, <2>1 DEF Page, PageFits
  <2>3. QED
    BY <1>3, <1>6, <2>1, <2>2 DEF PageFits
<1>9. FormFits(n, q, attempt')
  <2>1. {b \in Attempt : attempt'[b].pc \in InFlight /\ attempt'[b].page = n} = {a}
    BY <1>6, <1>7 DEF InFlight
  <2>2. QED
    BY <2>1 DEF FormFits
<1>10. ASSUME NEW b \in Attempt, attempt'[b].page = n
       PROVE  AttemptFits(attempt'[b], q, n)
  <2>1. CASE b # a
    <3>1. attempt[b].page = n /\ attempt'[b] = attempt[b]
      BY <1>6, <1>10, <2>1
    <3>2. QED
      BY <1>3, <1>7, <3>1 DEF AttemptFits
  <2>2. CASE b = a
    BY <1>1, <1>2, <1>3, <1>6, <2>2 DEF AttemptFits, InFlight
  <2>3. QED
    BY <2>1, <2>2
<1>11. Fits(pages', n, attempt')
  <2>1. /\ \A b \in Attempt : attempt'[b] # attempt[b] => attempt'[b].page = n
        /\ \A b \in Attempt :
              attempt'[b] # attempt[b] => attempt[b].pc \in InFlight \cup {"new"}
        /\ \A b \in Attempt :
              attempt'[b] # attempt[b] /\ attempt[b].pc \in InFlight => attempt[b].page = n
    BY <1>1, <1>6 DEF InFlight
  <2>2. /\ n \in Nat /\ n \in 1 .. n
        /\ \A j \in 1 .. n : pages[j] \in Page
        /\ Fits(pages, n, attempt)
    BY <1>2, Before
  <2>3. pages'[n] = q /\ \A j \in 1 .. n : j # n => pages'[j] = pages[j]
    BY <1>2, <1>4
  <2>4. /\ PageFits(pages'[n], attempt') /\ FormFits(n, pages'[n], attempt')
        /\ \A b \in Attempt : attempt'[b].page = n =>
              AttemptFits(attempt'[b], pages'[n], n)
    BY <1>8, <1>9, <1>10, <2>3
  <2> HIDE DEF n
  <2>5. QED
    BY <2>1, <2>2, <2>3, <2>4, ReplacedFits
<1>12. RetriesFit(attempt')
  BY <1>6, Before DEF RetriesFit
<1>13. SessionFits(session, attempt') /\ ScreenFits(session, pages'[n], attempt')
  <2>1. SessionFits(session, attempt') /\ ScreenFits(session, p, attempt')
    BY <1>1, <1>6, Before, SessionKept
  <2>2. QED
    BY <1>2, <1>3, <1>4, <2>1 DEF ScreenFits
<1>14. QED
  BY <1>1, <1>2, <1>4, <1>6, <1>11, <1>12, <1>13, Before, After

\* The retry: of an attempt whose form had none before, so that no other press
\* of this form has asked for a second challenge.
LEMMA RetryStep ==
    ASSUME IInv, NEW a \in Attempt, Retry(a)
    PROVE  IInv'
<1> DEFINE n == Len(pages)
           k == attempt[a].page
           p == pages[k]
           q == [p EXCEPT !.retries = @ + 1]
           x == attempt'[a]
<1>1. /\ session' = session /\ pages' = [pages EXCEPT ![k] = q]
      /\ attempt[a].pc = "assertion" /\ p.retries < 1
  BY DEF Retry
<1>2. /\ k \in 1 .. n /\ p.kind = "login" /\ p.loading /\ attempt[a].user # None
      /\ \A b \in Attempt : attempt[b].pc \in InFlight /\ attempt[b].page = k => b = a
  BY <1>1, OnPage DEF InFlight
<1>3. p \in Page /\ attempt[a] \in AttemptState
  BY <1>2, Before
<1>4. p.retries = 0
  BY <1>1, <1>3 DEF Page
<1>5. /\ q \in Page /\ q.kind = p.kind /\ q.loading = p.loading /\ q.retries = 1
      /\ q.list = p.list /\ q.token = p.token /\ q.reader = p.reader
      /\ q.items = p.items
  BY <1>3, <1>4 DEF Page
<1>6. /\ pages' \in Seq(Page) /\ Len(pages') = n
      /\ \A j \in 1 .. n : pages'[j] = IF j = k THEN q ELSE pages[j]
  <2> HIDE DEF q
  <2>1. QED
    BY <1>1, <1>2, <1>5, Before, Replaced
<1> HIDE DEF q
<1>7. ASSUME NEW b \in Attempt, attempt[b].page = k
      PROVE  AttemptFits(attempt[b], p, n) /\ attempt[b].asked # 2
  BY <1>2, <1>4, <1>7, Before DEF Fits, AttemptFits
<1>8. attempt[a].asked \in 0 .. 1
  BY <1>3, <1>7 DEF AttemptFits, AttemptState
<1>9. /\ attempt' \in [Attempt -> AttemptState]
      /\ \A b \in Attempt : b # a => attempt'[b] = attempt[b]
      /\ x.page = k
      /\ \/ /\ x.pc = "options" /\ x.user = p.email /\ p.email # None
            /\ x.asked = attempt[a].asked + 1
         \/ /\ x.pc = "failed" /\ x.asked = attempt[a].asked
  <2>1. CASE p.email # None
    <3> DEFINE y == [pc |-> "options", page |-> k, user |-> p.email,
                     asked |-> attempt[a].asked + 1]
    <3>1. attempt' = [attempt EXCEPT ![a] = y]
      BY <2>1 DEF Retry, Asking
    <3>2. y \in AttemptState
      BY <1>2, <1>3 DEF AttemptState, Page, InFlight
    <3>3. QED
      BY <2>1, <3>1, <3>2, Before
  <2>2. CASE p.email = None
    <3>1. attempt' = [attempt EXCEPT ![a].pc = "failed"]
      BY <2>2 DEF Retry
    <3>2. [attempt[a] EXCEPT !.pc = "failed"] \in AttemptState
      BY <1>3 DEF AttemptState
    <3>3. QED
      BY <1>3, <3>1, <3>2, Before DEF AttemptState
  <2>3. QED
    BY <2>1, <2>2
<1>10. PageFits(q, attempt')
  <2>1. PageFits(p, attempt)
    BY <1>2, Before DEF Fits
  <2>2. p.token # None => p.token \in Attempt /\ p.token # a
    BY <1>1, <1>3, <2>1 DEF Page, PageFits
  <2>3. QED
    BY <1>5, <1>9, <2>1, <2>2 DEF PageFits
<1>11. FormFits(k, q, attempt')
  BY <1>2, <1>5, <1>9 DEF FormFits
<1>12. ASSUME NEW b \in Attempt, attempt'[b].page = k
       PROVE  AttemptFits(attempt'[b], q, n)
  <2>1. CASE b # a
    <3>1. attempt[b].page = k /\ attempt'[b] = attempt[b]
      BY <1>9, <1>12, <2>1
    <3>2. QED
      BY <1>5, <1>7, <3>1 DEF AttemptFits
  <2>2. CASE b = a
    BY <1>2, <1>5, <1>8, <1>9, <2>2 DEF AttemptFits, InFlight
  <2>3. QED
    BY <2>1, <2>2
<1>13. Fits(pages', n, attempt')
  <2>1. /\ \A b \in Attempt : attempt'[b] # attempt[b] => attempt'[b].page = k
        /\ \A b \in Attempt :
              attempt'[b] # attempt[b] => attempt[b].pc \in InFlight \cup {"new"}
        /\ \A b \in Attempt :
              attempt'[b] # attempt[b] /\ attempt[b].pc \in InFlight => attempt[b].page = k
    BY <1>1, <1>9 DEF InFlight
  <2>2. /\ n \in Nat /\ \A j \in 1 .. n : pages[j] \in Page
        /\ Fits(pages, n, attempt)
    BY Before
  <2>3. pages'[k] = q /\ \A j \in 1 .. n : j # k => pages'[j] = pages[j]
    BY <1>2, <1>6
  <2>4. QED
    BY <1>2, <1>10, <1>11, <1>12, <2>1, <2>2, <2>3, ReplacedFits
<1>14. RetriesFit(attempt')
  <2>1. RetriesFit(attempt)
    BY Before
  <2>2. QED
    BY <1>7, <1>9, <2>1 DEF RetriesFit
<1>15. SessionFits(session, attempt') /\ ScreenFits(session, pages'[n], attempt')
  <2>1. n \in 1 .. n
    BY Before
  <2>2. SessionFits(session, attempt') /\ ScreenFits(session, pages[n], attempt')
    BY <1>1, <1>9, Before, SessionKept
  <2>3. QED
    BY <1>5, <1>6, <2>1, <2>2 DEF ScreenFits
<1>16. QED
  BY <1>1, <1>6, <1>9, <1>13, <1>14, <1>15, Before, After

\* A failed login frees its form.
LEMMA GiveUpStep ==
    ASSUME IInv, NEW a \in Attempt, GiveUp(a)
    PROVE  IInv'
<1> DEFINE n == Len(pages)
           k == attempt[a].page
<1>1. /\ attempt[a].pc \in InFlight /\ session' = session /\ pages' = Settled(k)
      /\ attempt' = [attempt EXCEPT ![a].pc = "failed"]
  BY DEF GiveUp
<1>2. k \in 1 .. n /\ \A b \in Attempt :
                         attempt[b].pc \in InFlight /\ attempt[b].page = k => b = a
  BY <1>1, OnPage
<1>3. /\ attempt' \in [Attempt -> AttemptState]
      /\ \A b \in Attempt : b # a => attempt'[b] = attempt[b]
      /\ attempt'[a].pc = "failed" /\ attempt'[a].page = k
      /\ attempt'[a].user = attempt[a].user /\ attempt'[a].asked = attempt[a].asked
  <2>1. attempt[a] \in AttemptState
    BY Before
  <2>2. [attempt[a] EXCEPT !.pc = "failed"] \in AttemptState
    BY <2>1 DEF AttemptState
  <2>3. QED
    BY <1>1, <2>1, <2>2, Before DEF AttemptState
<1>4. /\ Settled(k) \in Seq(Page) /\ Len(Settled(k)) = n
      /\ Fits(Settled(k), n, attempt')
  <2>1. \A b \in Attempt : ~(attempt'[b].pc \in InFlight /\ attempt'[b].page = k)
    BY <1>2, <1>3 DEF InFlight
  <2>2. \A b \in Attempt :
           \/ attempt'[b] = attempt[b]
           \/ /\ attempt[b].pc \in InFlight /\ attempt[b].page = k
              /\ attempt'[b].pc \in {"done", "strayed", "failed"}
              /\ attempt'[b].page = attempt[b].page /\ attempt'[b].user = attempt[b].user
              /\ attempt'[b].asked = attempt[b].asked
    BY <1>1, <1>3
  <2>3. QED
    BY <1>2, <2>1, <2>2, SettledState
<1>5. RetriesFit(attempt')
  BY <1>3, Before DEF RetriesFit
<1>6. SessionFits(session, attempt') /\ ScreenFits(session, Settled(k)[n], attempt')
  <2>1. attempt[a].pc \notin {"done", "strayed"}
    BY <1>1 DEF InFlight
  <2>2. SessionFits(session, attempt') /\ ScreenFits(session, pages[n], attempt')
    BY <1>3, <2>1, Before, SessionKept
  <2>3. QED
    BY <1>2, <2>2, SettledScreen
<1>7. QED
  BY <1>1, <1>3, <1>4, <1>5, <1>6, Before, After

\* A verified login: the session is that of the login; what the screen shows
\* follows, unless the form had been left.
LEMMA VerifiedStep ==
    ASSUME IInv, NEW a \in Attempt, Verified(a)
    PROVE  IInv'
<1> DEFINE n == Len(pages)
           k == attempt[a].page
<1>1. /\ attempt[a].pc \in InFlight /\ session' = SessionOf(a)
      /\ attempt' = [attempt EXCEPT ![a].pc = IF k = n THEN "done" ELSE "strayed"]
  BY DEF Verified, Screen, InFlight
<1>2. Navigate("vault", session', Settled(k))
  BY DEF Verified
<1>3. /\ k \in 1 .. n /\ pages[k].kind = "login" /\ attempt[a].user # None
      /\ \A b \in Attempt : attempt[b].pc \in InFlight /\ attempt[b].page = k => b = a
  BY <1>1, OnPage
<1>4. /\ attempt' \in [Attempt -> AttemptState]
      /\ \A b \in Attempt : b # a => attempt'[b] = attempt[b]
      /\ attempt'[a].pc = (IF k = n THEN "done" ELSE "strayed")
      /\ attempt'[a].page = k
      /\ attempt'[a].user = attempt[a].user /\ attempt'[a].asked = attempt[a].asked
  <2>1. attempt[a] \in AttemptState
    BY Before
  <2>2. [attempt[a] EXCEPT !.pc = IF k = n THEN "done" ELSE "strayed"] \in AttemptState
    BY <2>1 DEF AttemptState
  <2>3. QED
    BY <1>1, <2>1, <2>2, Before DEF AttemptState
<1>5. /\ Settled(k) \in Seq(Page) /\ Len(Settled(k)) = n
      /\ Fits(Settled(k), n, attempt')
  <2>1. \A b \in Attempt : ~(attempt'[b].pc \in InFlight /\ attempt'[b].page = k)
    BY <1>3, <1>4 DEF InFlight
  <2>2. \A b \in Attempt :
           \/ attempt'[b] = attempt[b]
           \/ /\ attempt[b].pc \in InFlight /\ attempt[b].page = k
              /\ attempt'[b].pc \in {"done", "strayed", "failed"}
              /\ attempt'[b].page = attempt[b].page /\ attempt'[b].user = attempt[b].user
              /\ attempt'[b].asked = attempt[b].asked
    BY <1>1, <1>4
  <2>3. QED
    BY <1>3, <2>1, <2>2, SettledState
<1>6. RetriesFit(attempt')
  BY <1>4, Before DEF RetriesFit
<1>7. session' \in Session /\ session'.token = a /\ session'.user = attempt[a].user
  <2>1. attempt[a].user \in User \cup {None}
    BY Before DEF AttemptState
  <2>2. QED
    BY <1>1, <2>1 DEF SessionOf, Session
<1>8. SessionFits(session', attempt')
  BY <1>4, <1>7, NoneAssumption DEF SessionFits
<1>9. ScreenFits(session', Settled(k)[n], attempt')
  <2>1. CASE k # n
    BY <1>4, <1>7, <2>1 DEF ScreenFits
  <2>2. CASE k = n
    <3>1. PageFits(pages[k], attempt)
      BY <1>3, Before DEF Fits
    <3>2. TypeOK /\ k \in 1 .. Screen /\ k = Screen
      BY <1>3, <2>2 DEF IInv, Screen
    <3>3. Settled(k)[k].list = "none" /\ Settled(k)[k].items = pages[k].items
      BY <3>2, SettledFacts
    <3>4. QED
      BY <1>3, <2>2, <3>1, <3>3 DEF ScreenFits, PageFits
  <2>3. QED
    BY <2>1, <2>2
<1>10. /\ pages' \in Seq(Page) /\ Len(pages') \in Nat /\ Len(pages') > 0
       /\ Fits(pages', Len(pages'), attempt')
       /\ ScreenFits(session', pages'[Len(pages')], attempt')
  <2>1. "vault" \in Kind /\ n > 0
    BY Before DEF Kind
  <2>2. QED
    BY <1>2, <1>5, <1>7, <1>8, <1>9, <2>1, Navigated
<1>11. QED
  BY <1>4, <1>6, <1>7, <1>8, <1>10, After

\* A list that is over, with nothing shown.
LEMMA ListOver ==
    ASSUME IInv, NEW k \in 1 .. Len(pages), pages[k].list # "none",
           pages' = Settled(k), session' = session, attempt' = attempt
    PROVE  IInv'
<1>1. \A a \in Attempt : ~(attempt[a].pc \in InFlight /\ attempt[a].page = k)
  BY ListPage
<1>2. /\ Settled(k) \in Seq(Page) /\ Len(Settled(k)) = Len(pages)
      /\ Fits(Settled(k), Len(pages), attempt)
  BY <1>1, SettledState
<1>3. ScreenFits(session, Settled(k)[Len(pages)], attempt)
  BY Before, SettledScreen
<1>4. QED
  BY <1>2, <1>3, Before, After

\* The items have come.
LEMMA ListedStep ==
    ASSUME IInv, NEW k \in 1 .. Len(pages), Listed(k)
    PROVE  IInv'
<1> DEFINE n == Len(pages)
           p == pages[k]
           q == [p EXCEPT !.list = "opening", !.reader = session.user]
<1>1. session' = session /\ attempt' = attempt /\ p.list = "sent"
  BY DEF Listed
<1>2. CASE pages' = Settled(k)
  BY <1>1, <1>2, ListOver
<1>3. CASE session.user # None /\ pages' = [pages EXCEPT ![k] = q]
  <2>1. /\ p \in Page /\ p.kind = "vault" /\ p.loading
        /\ \A a \in Attempt : ~(attempt[a].pc \in InFlight /\ attempt[a].page = k)
    BY <1>1, ListPage
  <2>2. /\ q \in Page /\ q.kind = p.kind /\ q.loading = p.loading
        /\ q.retries = p.retries /\ q.list = "opening" /\ q.token = p.token
        /\ q.reader = session.user /\ q.items = p.items
    BY <2>1, Before DEF Page, Session
  <2> HIDE DEF q
  <2>3. /\ pages' \in Seq(Page) /\ Len(pages') = n
        /\ \A j \in 1 .. n : pages'[j] = IF j = k THEN q ELSE pages[j]
    BY <1>3, <2>2, Before, Replaced
  <2>4. PageFits(q, attempt) /\ FormFits(k, q, attempt)
    <3>1. PageFits(p, attempt)
      BY Before DEF Fits
    <3>2. QED
      BY <1>1, <1>3, <2>1, <2>2, <3>1 DEF PageFits, FormFits
  <2>5. ASSUME NEW a \in Attempt, attempt[a].page = k
        PROVE  AttemptFits(attempt[a], q, n)
    BY <2>2, <2>5, Before DEF Fits, AttemptFits
  <2>6. Fits(pages', n, attempt)
    <3>1. pages'[k] = q /\ \A j \in 1 .. n : j # k => pages'[j] = pages[j]
      BY <2>3
    <3>2. QED
      BY <2>4, <2>5, <3>1, Before, ReplacedFits
  <2>7. ScreenFits(session, pages'[n], attempt)
    <3>1. n \in 1 .. n
      BY Before
    <3>2. CASE k = n
      BY <1>1, <2>2, <2>3, <3>1, <3>2, Before DEF ScreenFits
    <3>3. CASE k # n
      BY <2>3, <3>1, <3>3, Before
    <3>4. QED
      BY <3>2, <3>3
  <2>8. QED
    BY <1>1, <2>3, <2>6, <2>7, Before, After
<1>4. QED
  BY <1>2, <1>3 DEF Listed

\* The items have been decrypted, or could not be.
LEMMA DecryptedStep ==
    ASSUME IInv, NEW k \in 1 .. Len(pages), Decrypted(k)
    PROVE  IInv'
<1> DEFINE n == Len(pages)
           owner == attempt[pages[k].token].user
<1>1. session' = session /\ attempt' = attempt /\ pages[k].list = "opening"
  BY DEF Decrypted
<1>2. PICK shown \in {None} \cup ({owner} \cap {pages[k].reader}) :
         pages' = IF k = n THEN [Settled(k) EXCEPT ![k].items = shown]
                  ELSE Settled(k)
  BY DEF Decrypted, Screen
<1>3. CASE k # n
  BY <1>1, <1>2, <1>3, ListOver
<1>4. CASE k = n
  <2> DEFINE S == Settled(k)
             q == [S[k] EXCEPT !.items = shown]
  <2>1. /\ pages[k] \in Page /\ pages[k].kind = "vault" /\ pages[k].token \in Attempt
        /\ \A a \in Attempt : ~(attempt[a].pc \in InFlight /\ attempt[a].page = k)
    BY <1>1, ListPage
  <2>2. TypeOK /\ k \in 1 .. Screen
    BY DEF IInv, Screen
  <2>3. /\ S \in Seq(Page) /\ Len(S) = n
        /\ \A j \in 1 .. n : j # k => S[j] = pages[j]
        /\ S[k].kind = pages[k].kind /\ ~S[k].loading
        /\ S[k].list = "none" /\ S[k].token = None
        /\ k = n => S[k].retries = pages[k].retries
    BY <2>2, SettledFacts DEF Screen
  <2> HIDE DEF S
  <2>4. pages' = [S EXCEPT ![k] = q]
    BY <1>2, <1>4 DEF S
  <2>5. S[k] \in Page
    BY <2>3, PageTyped
  <2>6. owner \in User \cup {None}
    BY <2>1, Before DEF AttemptState
  <2>7. /\ q \in Page /\ q.kind = "vault" /\ ~q.loading /\ q.list = "none"
        /\ q.token = None /\ q.items = shown /\ q.retries = pages[k].retries
    BY <1>4, <2>1, <2>3, <2>5, <2>6 DEF Page
  <2> HIDE DEF q
  <2>8. /\ pages' \in Seq(Page) /\ Len(pages') = n
        /\ pages'[k] = q /\ \A j \in 1 .. n : j # k => pages'[j] = pages[j]
    BY <2>3, <2>4, <2>7, Replaced
  <2>9. Fits(pages', n, attempt)
    BY <2>1, <2>7, <2>8, Before, SettledFits
  <2>10. ScreenFits(session, pages'[n], attempt)
    <3>1. SUFFICES ASSUME ~Blocked(session), attempt[session.token].pc = "done",
                          shown # None
                   PROVE  shown = session.user
      BY <1>4, <2>7, <2>8 DEF ScreenFits
    <3>2. pages[k].token = session.token /\ pages[k].reader = session.user
      BY <1>1, <1>4, <3>1, Before DEF ScreenFits
    <3>3. QED
      BY <1>2, <3>1, <3>2
  <2>11. QED
    BY <1>1, <2>8, <2>9, <2>10, Before, After
<1>5. QED
  BY <1>3, <1>4

\* A session that was blocked has no token, so nothing is claimed of it.
LEMMA BlockedFits ==
    ASSUME NEW s, s.token = None, Blocked(s), NEW at, NEW p
    PROVE  SessionFits(s, at) /\ ScreenFits(s, p, at)
BY DEF SessionFits, ScreenFits

\* requireReauthentication and clear block the session.
LEMMA RejectedFacts ==
    /\ session \in Session => Rejected(session) \in Session
    /\ session \in Session => Rejected(session).token = None /\ Blocked(Rejected(session))
    /\ Cleared \in Session /\ Cleared.token = None /\ Blocked(Cleared)
BY DEF Rejected, Cleared, Session, Blocked

\* The backend asks for reauthentication.
LEMMA ListRejectedStep ==
    ASSUME IInv, NEW k \in 1 .. Len(pages), ListRejected(k)
    PROVE  IInv'
<1>1. /\ pages[k].list = "sent" /\ attempt' = attempt
      /\ session' = Rejected(session)
  BY DEF ListRejected
<1>2. Navigate("login", session', Settled(k))
  BY DEF ListRejected
<1>3. session' \in Session /\ session'.token = None /\ Blocked(session')
  BY <1>1, Before, RejectedFacts
<1>4. \A a \in Attempt : ~(attempt[a].pc \in InFlight /\ attempt[a].page = k)
  BY <1>1, ListPage
<1>5. /\ Settled(k) \in Seq(Page) /\ Len(Settled(k)) = Len(pages)
      /\ Fits(Settled(k), Len(pages), attempt)
  BY <1>4, SettledState
<1>6. /\ SessionFits(session', attempt)
      /\ ScreenFits(session', Settled(k)[Len(pages)], attempt)
  BY <1>3, BlockedFits
<1>7. /\ pages' \in Seq(Page) /\ Len(pages') \in Nat /\ Len(pages') > 0
      /\ Fits(pages', Len(pages'), attempt)
      /\ ScreenFits(session', pages'[Len(pages')], attempt)
  <2>1. "login" \in Kind /\ Len(pages) > 0
    BY Before DEF Kind
  <2>2. QED
    BY <1>2, <1>3, <1>5, <1>6, <2>1, Navigated
<1>8. QED
  BY <1>1, <1>3, <1>6, <1>7, Before, After

\* A session that is taken away under any page.
LEMMA BlockedStep ==
    ASSUME IInv, HandleNetworkFailure \/ Logout
    PROVE  IInv'
<1>1. pages' = pages /\ attempt' = attempt
  BY DEF HandleNetworkFailure, Logout
<1>2. session' \in {Rejected(session), Cleared}
  BY DEF HandleNetworkFailure, Logout
<1>3. session' \in Session /\ session'.token = None /\ Blocked(session')
  BY <1>2, Before, RejectedFacts
<1>4. /\ SessionFits(session', attempt)
      /\ ScreenFits(session', pages[Len(pages)], attempt)
  BY <1>3, BlockedFits
<1>5. QED
  BY <1>1, <1>3, <1>4, Before, After

----------------------------------------------------------------------------
(* The theorems *)

\* The page has been loaded.
LEMMA Start ==
    ASSUME Init
    PROVE  IInv
<1>1. PICK kind \in Kind : pages = <<Idle(kind)>>
  BY DEF Init, Kind
<1>2. /\ session = Cleared
      /\ \A a \in Attempt : attempt[a] = [pc |-> "new", page |-> 0, user |-> None,
                                          asked |-> 0]
  BY DEF Init
<1>3. attempt \in [Attempt -> AttemptState]
  BY DEF Init, AttemptState
<1>4. pages \in Seq(Page) /\ Len(pages) = 1 /\ pages[1] = Idle(kind)
  BY <1>1, IdleTyped
<1>5. TypeOK /\ Screen = 1
  BY <1>2, <1>3, <1>4, RejectedFacts DEF TypeOK, Screen
<1>6. PageFits(Idle(kind), attempt) /\ FormFits(1, Idle(kind), attempt)
  BY <1>2 DEF PageFits, FormFits, Idle
<1>7. \A a \in Attempt : AttemptFits(attempt[a], pages[attempt[a].page], 1)
  BY <1>2 DEF AttemptFits, InFlight
<1>8. RetriesFit(attempt)
  BY <1>2 DEF RetriesFit
<1>9. SessionFits(session, attempt) /\ ScreenFits(session, Idle(kind), attempt)
  BY <1>2, BlockedFits, RejectedFacts
<1>10. QED
  BY <1>4, <1>5, <1>6, <1>7, <1>8, <1>9 DEF IInv

\* The pages, sessions and attempts stay in order at every step.
THEOREM Inductive == Spec => []IInv
<1>1. Init => IInv
  BY Start
<1>2. IInv /\ [Next]_vars => IInv'
  <2> SUFFICES ASSUME IInv, [Next]_vars PROVE IInv'
    OBVIOUS
  <2>1. ASSUME NEW kind \in {"login", "vault"}, Visit(kind) PROVE IInv'
    BY <2>1, VisitStep DEF Kind
  <2>2. ASSUME NEW email \in User \cup {None}, Type(email) PROVE IInv'
    BY <2>2, TypeStep
  <2>3. ASSUME NEW a \in Attempt, OnSubmit(a) PROVE IInv'
    BY <2>3, OnSubmitStep
  <2>4. CASE HandleNetworkFailure
    BY <2>4, BlockedStep
  <2>5. CASE Logout
    BY <2>5, BlockedStep
  <2>6. ASSUME NEW a \in Attempt, Answered(a) PROVE IInv'
    BY <2>6, AnsweredStep
  <2>7. ASSUME NEW a \in Attempt, Verified(a) PROVE IInv'
    BY <2>7, VerifiedStep
  <2>8. ASSUME NEW a \in Attempt, Retry(a) PROVE IInv'
    BY <2>8, RetryStep
  <2>9. ASSUME NEW a \in Attempt, GiveUp(a) PROVE IInv'
    BY <2>9, GiveUpStep
  <2>10. DOMAIN pages = 1 .. Len(pages)
    BY Before
  <2>11. ASSUME NEW k \in DOMAIN pages, ListStep(k) PROVE IInv'
    <3>1. k \in 1 .. Len(pages)
      BY <2>10
    <3>2. CASE Listed(k)
      BY <3>1, <3>2, ListedStep
    <3>3. CASE Decrypted(k)
      BY <3>1, <3>3, DecryptedStep
    <3>4. CASE ListFailed(k)
      BY <3>1, <3>4, ListOver DEF ListFailed
    <3>5. CASE ListRejected(k)
      BY <3>1, <3>5, ListRejectedStep
    <3>6. QED
      BY <2>11, <3>2, <3>3, <3>4, <3>5 DEF ListStep
  <2>12. CASE UNCHANGED vars
    BY <2>12, Before, After DEF vars
  <2>13. QED
    BY <2>1, <2>2, <2>3, <2>4, <2>5, <2>6, <2>7, <2>8, <2>9, <2>11, <2>12
    DEF Next, UserStep, AttemptStep
<1>3. QED
  BY <1>1, <1>2, PTL DEF Spec

\* Type correctness (login-verify.component.ts, vault.component.ts).
THEOREM Typing == Spec => []TypeOK
<1>1. IInv => TypeOK
  BY DEF IInv
<1>2. QED
  BY <1>1, Inductive, PTL

\* A form never has two logins in progress, and its button is disabled during
\* one, over retries, edits and departures (login-verify.component.ts:30).
THEOREM LoginAlone == Spec => []OneLoginPerForm
<1>1. IInv => OneLoginPerForm
  <2> SUFFICES ASSUME IInv, NEW k \in DOMAIN pages, NEW a \in Ongoing(k), NEW b \in Ongoing(k)
               PROVE  a = b /\ pages[k].loading
    BY DEF OneLoginPerForm
  <2>1. a \in Attempt /\ attempt[a].pc \in InFlight /\ attempt[a].page = k
    BY DEF Ongoing
  <2>2. b \in Attempt /\ attempt[b].pc \in InFlight /\ attempt[b].page = k
    BY DEF Ongoing
  <2>3. QED
    BY <2>1, <2>2, OnPage
<1>2. QED
  BY <1>1, Inductive, PTL

\* A form is left loading without a login only by the early return of its
\* retry (login-verify.component.ts:131).
THEOREM StuckByRetry == Spec => []StuckOnlyByRetry
<1>1. IInv => StuckOnlyByRetry
  <2> SUFFICES ASSUME IInv, NEW k \in DOMAIN pages, pages[k].kind = "login",
                      pages[k].loading, Ongoing(k) = {}
               PROVE  pages[k].retries = 1
    BY DEF StuckOnlyByRetry
  <2>1. k \in 1 .. Len(pages)
    BY Before
  <2>2. FormFits(k, pages[k], attempt)
    BY <2>1, Before DEF Fits
  <2>3. QED
    BY <2>2 DEF FormFits, Ongoing
<1>2. QED
  BY <1>1, Inductive, PTL

\* A form asks for one challenge more than its button is pressed, however often
\* that is (login-verify.component.ts:157).
THEOREM RetriedOnce == Spec => []OneRetryPerForm
<1>1. IInv => OneRetryPerForm
  <2> SUFFICES ASSUME IInv PROVE OneRetryPerForm
    OBVIOUS
  <2>1. \A a \in Attempt : attempt[a].asked \in 0 .. 2
    BY Before DEF Fits, AttemptFits
  <2>2. RetriesFit(attempt)
    BY Before
  <2>3. QED
    BY <2>1, <2>2 DEF OneRetryPerForm, RetriesFit
<1>2. QED
  BY <1>1, Inductive, PTL

\* Whoever is logged in sees only items of their own, unless a login that had
\* been walked away from took the session over (vault.component.ts:52).
THEOREM OwnItems == Spec => []OwnItemsOnScreen
<1>1. IInv => OwnItemsOnScreen
  <2> SUFFICES ASSUME IInv, pages[Screen].items # None, ~Blocked(session), ~Strayed(session)
               PROVE  pages[Screen].items = session.user
    BY DEF OwnItemsOnScreen
  <2>1. attempt[session.token].pc = "done"
    BY Before DEF SessionFits, Strayed
  <2>2. QED
    BY <2>1, Before DEF ScreenFits, Screen
<1>2. QED
  BY <1>1, Inductive, PTL

\* The interceptor blocks a session for an answer to another one only on behalf
\* of a page that has been left, or of a login walked away from
\* (reauth.interceptor.ts:38).
THEOREM Misfires == Spec => OnlyLeftPagesMisfire
<1>1. ASSUME IInv, NEW k \in DOMAIN pages, pages[k].list = "sent",
             ~Blocked(session), ~Strayed(session), pages[k].token # session.token
      PROVE  k # Screen
  <2>1. attempt[session.token].pc = "done"
    BY <1>1, Before DEF SessionFits, Strayed
  <2>2. QED
    BY <1>1, <2>1, Before DEF ScreenFits, Screen
<1>2. IInv => [\A k \in DOMAIN pages :
                 /\ pages[k].list = "sent" /\ session.token # None
                 /\ ~Blocked(session) /\ ~Strayed(session)
                 /\ pages'[k].list = "none" /\ Blocked(session')
                 /\ pages[k].token # session.token
                 => k # Screen]_vars
  BY <1>1
<1>3. QED
  BY <1>2, Inductive, PTL DEF OnlyLeftPagesMisfire
=============================================================================
