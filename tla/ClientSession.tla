----------------------------- MODULE ClientSession -----------------------------
(***************************************************************************)
(* One browser tab between two loads of the page: the session every        *)
(* service of the client shares, the login form that replaces it, the      *)
(* vault page that reads under it and the interceptor that takes it away.  *)
(*                                                                         *)
(* Routes have no guards and load nothing, so a navigation is over, and    *)
(* the new component initialised, before the next answer arrives.  A       *)
(* component that is left is destroyed but nothing cancels its requests:   *)
(* their callbacks run all the same.  A callback runs to its end.          *)
(*                                                                         *)
(* An attempt is one press of the form's button, with the retry that may   *)
(* follow from it.  The access token a login brings is named by the        *)
(* attempt, an e-mail address that the form accepts by its user.           *)
(***************************************************************************)
EXTENDS Naturals, Sequences

CONSTANTS
    User,
    Attempt,
    None,       \* null, and an e-mail address that the form does not accept
    MaxPages    \* bound: pages after which the user moves no more

VARIABLES
    session,    \* the signals of SessionService
    pages,      \* every component the router has shown; the last is on screen
    attempt     \* attempt[a]: where press a of the button is

vars == <<session, pages, attempt>>

InFlight == {"options", "assertion", "verify"}

Session == [valid : BOOLEAN, token : Attempt \cup {None},
            user : User \cup {None}, required : BOOLEAN]

\* The login form has an email, the vault page a list: request, with the token
\* it was sent with; the user its answer is decrypted as; whose items it shows.
Page == [kind : {"login", "vault"}, email : User \cup {None},
         loading : BOOLEAN, retries : 0 .. 1,
         list : {"none", "sent", "opening"}, token : Attempt \cup {None},
         reader : User \cup {None}, items : User \cup {None}]

\* asked counts the challenges requested; strayed: it succeeded after its form
\* had been left.
AttemptState == [pc : InFlight \cup {"new", "done", "strayed", "failed"},
                 page : Nat, user : User \cup {None}, asked : Nat]

ASSUME NoneAssumption == None \notin User \cup Attempt
ASSUME BoundAssumption == MaxPages \in Nat

TypeOK ==
    /\ session \in Session
    /\ pages \in Seq(Page)
    /\ attempt \in [Attempt -> AttemptState]

Screen == Len(pages)

\* vaultAccessBlocked
Blocked(s) == ~s.valid \/ s.required

\* The session before any login, and after clear().
Cleared == [valid |-> FALSE, token |-> None, user |-> None, required |-> FALSE]

Idle(kind) == [kind |-> kind, email |-> None, loading |-> FALSE, retries |-> 0,
               list |-> "none", token |-> None, reader |-> None, items |-> None]

\* The page has been loaded, at the address of either page.
Init ==
    /\ session = Cleared
    /\ pages \in {<<Idle("login")>>, <<Idle("vault")>>}
    /\ attempt = [a \in Attempt |->
                    [pc |-> "new", page |-> 0, user |-> None, asked |-> 0]]

-----------------------------------------------------------------------------
(* The router *)

\* Mutant: what was listed is kept for the next vault page.
OpenedCached(kind, s) ==
    IF kind = "login" \/ Blocked(s)
    THEN {[Idle(kind) EXCEPT !.items = pages[Screen].items]}
    ELSE {[Idle("vault") EXCEPT !.loading = TRUE, !.list = "sent", !.token = s.token],
          [Idle("vault") EXCEPT !.items = pages[Screen].items]}

\* The components that may come up under session s.  ngOnInit of a vault page
\* lists the items unless access is blocked or no key is in memory.
Opened(kind, s) ==
    IF kind = "login" \/ Blocked(s) THEN {Idle(kind)}
    ELSE {[Idle("vault") EXCEPT !.loading = TRUE, !.list = "sent", !.token = s.token],
          Idle("vault")}

\* The router goes to the page of this kind.  A component that is there already
\* stays: neither its own address nor other query parameters replace it.  One
\* that is left and waits for nothing is gone.
Navigate(kind, s, now) ==
    LET left == [now EXCEPT ![Len(now)] = IF @.loading THEN @ ELSE Idle(@.kind)]
    IN IF now[Len(now)].kind = kind THEN pages' = now
       ELSE \E p \in Opened(kind, s) : pages' = Append(left, p)

\* The pages once page k waits no longer: one that has been left is gone.
Settled(k) ==
    [pages EXCEPT ![k] =
        IF k = Screen THEN [@ EXCEPT !.loading = FALSE, !.list = "none",
                                     !.token = None, !.reader = None]
        ELSE Idle(@.kind)]

\* A link, or the buttons of the browser.
Visit(kind) ==
    /\ Screen < MaxPages
    /\ pages[Screen].kind # kind
    /\ Navigate(kind, session, pages)
    /\ UNCHANGED <<session, attempt>>

-----------------------------------------------------------------------------
(* The login form *)

\* The address can be edited at any time, also while a login is in progress.
Type(email) ==
    /\ pages[Screen].kind = "login"
    /\ pages' = [pages EXCEPT ![Screen].email = email]
    /\ UNCHANGED <<session, attempt>>

\* startReauth asks for a challenge for the address in the form.
Asking(a, k) ==
    [attempt EXCEPT ![a] = [pc |-> "options", page |-> k, user |-> pages[k].email,
                            asked |-> @.asked + 1]]

\* Mutant: the button is never disabled.
OnSubmitAlways(a) ==
    /\ attempt[a].pc = "new"
    /\ pages[Screen].kind = "login"
    /\ pages[Screen].email # None
    /\ attempt' = Asking(a, Screen)
    /\ pages' = [pages EXCEPT ![Screen].loading = TRUE]
    /\ UNCHANGED session

\* The button is disabled while a login is in progress and while the address is
\* not acceptable.
OnSubmit(a) ==
    /\ attempt[a].pc = "new"
    /\ pages[Screen].kind = "login"
    /\ ~pages[Screen].loading /\ pages[Screen].email # None
    /\ attempt' = Asking(a, Screen)
    /\ pages' = [pages EXCEPT ![Screen].loading = TRUE]
    /\ UNCHANGED session

\* The challenge has come, and then the authenticator's assertion of it.
Answered(a) ==
    /\ \/ /\ attempt[a].pc = "options"
          /\ attempt' = [attempt EXCEPT ![a].pc = "assertion"]
       \/ /\ attempt[a].pc = "assertion"
          /\ attempt' = [attempt EXCEPT ![a].pc = "verify"]
    /\ UNCHANGED <<session, pages>>

\* setSessionValid with what the backend answers to the assertion.
SessionOf(a) == [valid |-> TRUE, token |-> a, user |-> attempt[a].user,
                 required |-> FALSE]

\* Mutant: the page is left before the session is there.
VerifiedLate(a) ==
    LET k == attempt[a].page IN
    /\ attempt[a].pc = "verify"
    /\ session' = SessionOf(a)
    /\ Navigate("vault", session, Settled(k))
    /\ attempt' = [attempt EXCEPT ![a].pc = IF k = Screen THEN "done" ELSE "strayed"]

\* The login is verified: handleSuccess, then the vault page, whether or not
\* the form is still on screen.
Verified(a) ==
    LET k == attempt[a].page IN
    /\ attempt[a].pc = "verify"
    /\ session' = SessionOf(a)
    /\ Navigate("vault", session', Settled(k))
    /\ attempt' = [attempt EXCEPT ![a].pc = IF k = Screen THEN "done" ELSE "strayed"]

\* Mutant: off by one.
RetryTwice(a) ==
    LET k == attempt[a].page IN
    /\ attempt[a].pc = "assertion"
    /\ pages[k].retries <= 1
    /\ pages' = [pages EXCEPT ![k].retries = @ + 1]
    /\ attempt' = IF pages[k].email # None THEN Asking(a, k)
                  ELSE [attempt EXCEPT ![a].pc = "failed"]
    /\ UNCHANGED session

\* The assertion was rejected with a message that isChallengeExpired takes for
\* an expired challenge, for the first time on this form.  If the address has
\* become unacceptable meanwhile startReauth returns at once, and loading stays.
Retry(a) ==
    LET k == attempt[a].page IN
    /\ attempt[a].pc = "assertion"
    /\ pages[k].retries < 1
    /\ pages' = [pages EXCEPT ![k].retries = @ + 1]
    /\ attempt' = IF pages[k].email # None THEN Asking(a, k)
                  ELSE [attempt EXCEPT ![a].pc = "failed"]
    /\ UNCHANGED session

\* Mutant: a failed request does not free the form.
GiveUpLoading(a) ==
    /\ attempt[a].pc \in InFlight
    /\ attempt' = [attempt EXCEPT ![a].pc = "failed"]
    /\ pages' = [pages EXCEPT ![attempt[a].page].loading = attempt[a].pc = "verify"]
    /\ UNCHANGED session

\* handleError otherwise: a request failed, as HttpErrorResponse is no Error its
\* message is never looked at, or the assertion was rejected for good.
GiveUp(a) ==
    /\ attempt[a].pc \in InFlight
    /\ attempt' = [attempt EXCEPT ![a].pc = "failed"]
    /\ pages' = Settled(attempt[a].page)
    /\ UNCHANGED session

-----------------------------------------------------------------------------
(* The vault page and the interceptor *)

\* The items of the token's user have come, none at all (the list is shown at
\* once) or some, which are decrypted as the user of this moment.
Listed(k) ==
    /\ pages[k].list = "sent"
    /\ \/ pages' = Settled(k)
       \/ IF session.user = None
          THEN pages' = Settled(k)
          ELSE pages' = [pages EXCEPT ![k].list = "opening", ![k].reader = session.user]
    /\ UNCHANGED <<session, attempt>>

\* Decryption has succeeded, if it was tried as the user who had encrypted the
\* items, or has failed.
Decrypted(k) ==
    LET owner == attempt[pages[k].token].user IN
    /\ pages[k].list = "opening"
    /\ \E shown \in {None} \cup ({owner} \cap {pages[k].reader}) :
         pages' = IF k = Screen THEN [Settled(k) EXCEPT ![k].items = shown]
                  ELSE Settled(k)
    /\ UNCHANGED <<session, attempt>>

\* Mutant: ngOnInit without its finally clause.
ListFailedLoading(k) ==
    /\ pages[k].list = "sent"
    /\ pages' = [pages EXCEPT ![k].list = "none"]
    /\ UNCHANGED <<session, attempt>>

\* The request failed otherwise than by asking for reauthentication.
ListFailed(k) ==
    /\ pages[k].list = "sent"
    /\ pages' = Settled(k)
    /\ UNCHANGED <<session, attempt>>

\* requireReauthentication; userId and deviceId stay.
Rejected(s) == [s EXCEPT !.valid = FALSE, !.token = None, !.required = TRUE]

\* A 401 with the code ReauthenticationRequired: the interceptor blocks whatever
\* session there is by now and shows the login form.
ListRejected(k) ==
    /\ pages[k].list = "sent"
    /\ session' = Rejected(session)
    /\ Navigate("login", session', Settled(k))
    /\ UNCHANGED attempt

\* AuthService.handleNetworkFailure and logout, for whoever calls them.
HandleNetworkFailure ==
    /\ session' = Rejected(session)
    /\ UNCHANGED <<pages, attempt>>

Logout ==
    /\ session' = Cleared
    /\ UNCHANGED <<pages, attempt>>

-----------------------------------------------------------------------------
AttemptStep(a) == Answered(a) \/ Verified(a) \/ Retry(a) \/ GiveUp(a)

ListStep(k) ==
    /\ k \in DOMAIN pages
    /\ Listed(k) \/ Decrypted(k) \/ ListFailed(k) \/ ListRejected(k)

UserStep ==
    \/ \E kind \in {"login", "vault"} : Visit(kind)
    \/ \E email \in User \cup {None} : Type(email)
    \/ \E a \in Attempt : OnSubmit(a)
    \/ HandleNetworkFailure
    \/ Logout

Next ==
    \/ UserStep
    \/ \E a \in Attempt : AttemptStep(a)
    \/ \E k \in DOMAIN pages : ListStep(k)

Spec == Init /\ [][Next]_vars

\* Requests are answered or fail, the authenticator gives up in the end (the
\* options carry a timeout) and decryption ends; users need not do anything.
FairSpec ==
    /\ Spec
    /\ \A a \in Attempt : WF_vars(AttemptStep(a))
    /\ \A k \in 1 .. MaxPages : WF_vars(ListStep(k))

-----------------------------------------------------------------------------
(* Safety *)

Ongoing(k) == {a \in Attempt : attempt[a].pc \in InFlight /\ attempt[a].page = k}

\* A form never has two logins in progress, and while one is in progress its
\* button stays disabled, over retries, edits of the address and departures.
OneLoginPerForm ==
    \A k \in DOMAIN pages : \A a, b \in Ongoing(k) : a = b /\ pages[k].loading

\* A form is only ever left loading without a login in progress by the retry,
\* whose early return forgets it (login-verify.component.ts:131).
StuckOnlyByRetry ==
    \A k \in DOMAIN pages :
        pages[k].kind = "login" /\ pages[k].loading /\ Ongoing(k) = {} =>
            pages[k].retries = 1

\* However often the button of one form is pressed, it asks for only one
\* challenge more than that.
OneRetryPerForm ==
    \A a, b \in Attempt :
        /\ attempt[a].asked <= 2
        /\ attempt[a].asked = 2 /\ attempt[b].asked = 2
           /\ attempt[a].page = attempt[b].page => a = b

\* The session comes from a login whose form had been left before.
Strayed(s) == s.token # None /\ attempt[s.token].pc = "strayed"

\* Whoever is logged in sees only items of their own: the page on screen was
\* opened under the session there is, unless a login that had been walked away
\* from has taken the session over.
OwnItemsOnScreen ==
    LET p == pages[Screen] IN
    p.items # None /\ ~Blocked(session) /\ ~Strayed(session) =>
        p.items = session.user

\* The answer to a request sent under another session blocks the present one
\* only if it comes from a page that has been left, or the present session is
\* that of a login walked away from.
OnlyLeftPagesMisfire ==
    [][\A k \in DOMAIN pages :
         /\ pages[k].list = "sent" /\ session.token # None
         /\ ~Blocked(session) /\ ~Strayed(session)
         /\ pages'[k].list = "none" /\ Blocked(session')
         /\ pages[k].token # session.token
         => k # Screen]_vars

-----------------------------------------------------------------------------
(* Liveness *)

\* Every login that was begun comes to an end, with one retry or without, and
\* frees its form; only the early return of the retry does not.
LoginSettles ==
    \A a \in Attempt : attempt[a].pc \in InFlight ~>
        /\ attempt[a].pc \in {"done", "strayed", "failed"}
        /\ \/ ~pages[attempt[a].page].loading
           \/ pages[attempt[a].page].retries = 1

\* A vault page that waits for its items stops waiting.
Waiting(k) ==
    k \in DOMAIN pages /\ pages[k].kind = "vault" /\ pages[k].loading

ListSettles == \A k \in 1 .. MaxPages : Waiting(k) ~> ~Waiting(k)

\* Neither page shows its spinner for ever, but for the early return of the
\* retry (login-verify.component.ts:157-165, vault.component.ts:46-57).
PagesSettle == LoginSettles /\ ListSettles

-----------------------------------------------------------------------------
(* The inductive invariant of ClientSessionProofs, of any session s, pages   *)
(* pg with page n on screen, and attempts at.                                *)

\* Only a vault page lists, as long as it is loading and with the token of a
\* login that was verified; only it shows items.
PageFits(p, at) ==
    /\ p.kind = "login" => p.list = "none" /\ p.items = None
    /\ p.list # "none" => p.loading /\ p.token # None
    /\ p.list = "opening" => p.reader # None
    /\ p.token # None => at[p.token].pc \in {"done", "strayed"}

\* An attempt in progress, x, is that of a form p which is loading; a second
\* challenge was asked for by the retry of a form, as long as that form is there.
AttemptFits(x, p, n) ==
    /\ x.pc = "new" => x.asked = 0
    /\ x.asked \in 0 .. 2
    /\ x.pc # "new" => x.page \in 1 .. n
    /\ x.pc \in InFlight => p.kind = "login" /\ p.loading
    /\ x.pc \in InFlight \cup {"done", "strayed"} => x.user # None
    /\ x.asked = 2 /\ (x.page = n \/ p.loading) => p.retries = 1

\* One attempt at a time on page k, and none only when loading is over or was
\* forgotten by the retry.
FormFits(k, p, at) ==
    LET ongoing == {a \in Attempt : at[a].pc \in InFlight /\ at[a].page = k} IN
    /\ \A a, b \in ongoing : a = b
    /\ p.kind = "login" /\ p.loading /\ ongoing = {} => p.retries = 1

RetriesFit(at) ==
    \A a, b \in Attempt :
        at[a].asked = 2 /\ at[b].asked = 2 /\ at[a].page = at[b].page => a = b

\* The user of a session is the one who logged in.
SessionFits(s, at) ==
    /\ s.token # None => /\ at[s.token].pc \in {"done", "strayed"}
                         /\ s.user = at[s.token].user
    /\ ~Blocked(s) => s.token # None

\* What the page on screen does or shows belongs to the present session.
ScreenFits(s, p, at) ==
    ~Blocked(s) /\ at[s.token].pc = "done" =>
        /\ p.list # "none" => p.token = s.token
        /\ p.list = "opening" => p.reader = s.user
        /\ p.items # None => p.items = s.user

IInv ==
    /\ TypeOK
    /\ Screen > 0
    /\ \A k \in 1 .. Screen : PageFits(pages[k], attempt) /\ FormFits(k, pages[k], attempt)
    /\ \A a \in Attempt : AttemptFits(attempt[a], pages[attempt[a].page], Screen)
    /\ RetriesFit(attempt)
    /\ SessionFits(session, attempt)
    /\ ScreenFits(session, pages[Screen], attempt)
=============================================================================
