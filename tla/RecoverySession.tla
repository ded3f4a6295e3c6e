---- MODULE RecoverySession ----
(***************************************************************************)
(* Recovery sessions: a person, asked by an open attention, takes over the *)
(* browser to log in (recovery-session.ts).  A session is bound to one     *)
(* browser session, page and page epoch, owns the control lease of the     *)
(* browser instance for its whole life, and ends by completion, revocation,*)
(* expiry, a change of the page, or the disconnection of the browser.      *)
(*                                                                         *)
(* One browser instance with one tab.  Triggers and control clients also   *)
(* take the lease of the browser instance: they are Outsider.              *)
(***************************************************************************)
EXTENDS AttentionDelivery

CONSTANTS
    SessionTtl,     \* lifetime of a recovery session and of an outsider's lease
    MaxAge,         \* age in ticks up to which a page observation is fresh
    BrowserSession, \* 1..n: the sessions the extension can open, in this order
    Epoch,          \* 1..n: the epochs the page can have
    Outsider

ASSUME RecoveryAssumption ==
    /\ SessionTtl \in Nat \ {0}
    /\ MaxAge \in Nat
    /\ BrowserSession \subseteq Nat \ {0}
    /\ Epoch \subseteq Nat \ {0}
    /\ None \notin BrowserSession
    /\ Outsider \notin Run \cup {None}

VARIABLES
    session,    \* recovery_sessions: the session of each attention
    lease,      \* browser_control_leases: owner and time left
    connected,  \* browser_sessions without disconnected_at
    attached,   \* the browser sessions Core has a connection of
    opened,     \* how many browser sessions were opened
    page        \* browser_page_observations: epoch, login state and age

recoveryVars == <<session, lease, connected, attached, opened, page>>

NoSession == [state |-> "none", browser |-> None, epoch |-> 0, left |-> 0]
NoLease   == [owner |-> None, left |-> 0]
NoPage    == [epoch |-> 0, login |-> "blocked", age |-> MaxAge + 1]
Live      == {"issued", "active"}

RecoveryInit ==
    /\ session = [r \in Run |-> NoSession]
    /\ lease = NoLease
    /\ connected = {}
    /\ attached = {}
    /\ opened = 0
    /\ page = [b \in BrowserSession |-> NoPage]

LeaseFree == lease.left = 0

Held(owner) == [owner |-> owner, left |-> SessionTtl]

Released(owner) == IF lease.owner = owner THEN NoLease ELSE lease

\* Nobody reads the binding of a session that has ended.
EndAs(state) == [NoSession EXCEPT !.state = state]

Lapsed(s) == s.state \in Live /\ s.left = 0

\* expireRecoverySessions: every call begins with it; the lease lapses by itself.
Swept == [r \in Run |-> IF Lapsed(session[r]) THEN EndAs("expired")
                                              ELSE session[r]]

Fresh(b) == page[b].age <= MaxAge

unchangedBrowser == UNCHANGED <<connected, attached, opened, page>>

----
(* The calls of an operator.  A call that is refused leaves what the sweep did. *)

SweepExpired ==
    /\ session' = Swept
    /\ UNCHANGED lease
    /\ unchangedBrowser

Issuable(r, b) ==
    /\ attention[r] = "open"
    /\ run[r] = "ended"
    /\ r \in AuthRun
    /\ b \in connected
    /\ page[b].epoch # 0
    /\ Fresh(b)
    /\ page[b].login = "blocked"
    /\ session[r].state = "none"
    /\ LeaseFree

Issue(r, b) ==
    /\ Issuable(r, b)
    /\ session' = [Swept EXCEPT ![r] = [state |-> "issued", browser |-> b,
                                        epoch |-> page[b].epoch, left |-> SessionTtl]]
    /\ lease' = Held(r)
    /\ unchangedBrowser

Finish(r, state) ==
    /\ session' = [Swept EXCEPT ![r] = EndAs(state)]
    /\ lease' = Released(r)
    /\ unchangedBrowser

\* activeBinding: the browser is still there and its page is known.
Bound(s) == s.browser \in connected /\ page[s.browser].epoch # 0

InState(r, states) == Swept[r].state \in states

\* The page or the browser the session is bound to is gone: it is invalidated.
LoseBinding(r) ==
    \/ InState(r, Live) /\ ~Bound(session[r]) /\ Finish(r, "invalidated")
    \/ /\ InState(r, {"issued"})
       /\ Bound(session[r])
       /\ Fresh(session[r].browser)
       /\ page[session[r].browser].epoch # session[r].epoch
       /\ Finish(r, "invalidated")

Activate(r) ==
    LET s == session[r]
    IN  /\ InState(r, {"issued"})
        /\ Bound(s)
        /\ Fresh(s.browser)
        /\ page[s.browser].epoch = s.epoch
        /\ page[s.browser].login = "blocked"
        /\ session' = [Swept EXCEPT ![r].state = "active"]
        /\ UNCHANGED lease
        /\ unchangedBrowser

CompleteSession(r) ==
    LET s == session[r]
    IN  /\ InState(r, {"active"})
        /\ Bound(s)
        /\ Fresh(s.browser)
        /\ page[s.browser].login = "proven"
        /\ Finish(r, "completed")

Revoke(r) == InState(r, Live) /\ Finish(r, "revoked")

----
(* Outsiders use the lease through browser.control-lease.* and trigger attempts. *)

OutsiderLease ==
    /\ \/ LeaseFree /\ lease' = Held(Outsider)
       \/ lease.owner = Outsider /\ lease' = Held(Outsider)
       \/ lease.owner = Outsider /\ lease' = NoLease
    /\ UNCHANGED session
    /\ unchangedBrowser

----
(* The extension connects, reports its page and goes away. *)

OpenBrowser ==
    /\ opened + 1 \in BrowserSession
    /\ opened' = opened + 1
    /\ connected' = connected \cup {opened'}
    /\ attached' = attached \cup {opened'}
    /\ UNCHANGED <<session, lease, page>>

\* The session is opened again under its resume token, with a connection that
\* replaces any other; what was known of its page is deleted.
ResumeBrowser ==
    /\ opened > 0
    /\ connected' = connected \cup {opened}
    /\ attached' = attached \cup {opened}
    /\ page' = [page EXCEPT ![opened] = NoPage]
    /\ UNCHANGED <<session, lease, opened>>

Observe(b, epoch, login) ==
    /\ b \in attached
    /\ epoch >= page[b].epoch
    /\ page' = [page EXCEPT ![b] = [epoch |-> epoch, login |-> login, age |-> 0]]
    /\ UNCHANGED <<session, lease, connected, attached, opened>>

OfBrowser(b, r) == session[r].browser = b /\ session[r].state \in Live

\* The stale page of a disconnected session is never read: a resumption deletes it.

\* Mutant: the disconnection leaves the recovery sessions alone.
DetachOnly(b) ==
    /\ b \in attached
    /\ connected' = connected \ {b}
    /\ attached' = attached \ {b}
    /\ page' = [page EXCEPT ![b] = NoPage]
    /\ UNCHANGED <<session, lease, opened>>

Detach(b) ==
    /\ b \in attached
    /\ connected' = connected \ {b}
    /\ attached' = attached \ {b}
    /\ page' = [page EXCEPT ![b] = NoPage]
    /\ session' = [r \in Run |-> IF OfBrowser(b, r) THEN EndAs("invalidated")
                                                    ELSE session[r]]
    /\ lease' = IF \E r \in Run : OfBrowser(b, r) /\ lease.owner = r THEN NoLease ELSE lease
    /\ UNCHANGED opened

----

Less(n) == IF n > 0 THEN n - 1 ELSE 0

RecoveryTick ==
    /\ session' = [r \in Run |-> [session[r] EXCEPT !.left = Less(@)]]
    /\ lease' = IF lease.left > 1 THEN [lease EXCEPT !.left = @ - 1] ELSE NoLease
    /\ page' = [b \in BrowserSession |->
                   [page[b] EXCEPT !.age = IF @ > MaxAge THEN @ ELSE @ + 1]]
    /\ UNCHANGED <<connected, attached, opened>>

RecoveryCrash ==
    /\ attached' = {}
    /\ UNCHANGED <<session, lease, connected, opened, page>>

----

SessionRecord ==
    [state : {"none", "completed", "revoked", "invalidated", "expired"} \cup Live,
     browser : BrowserSession \cup {None}, epoch : Epoch \cup {0}, left : 0..SessionTtl]

PageRecord ==
    [epoch : Epoch \cup {0}, login : {"blocked", "proven", "unproven"}, age : 0..MaxAge + 1]

RecoveryTypeOK ==
    /\ session \in [Run -> SessionRecord]
    /\ lease \in [owner : Run \cup {None, Outsider}, left : 0..SessionTtl]
    /\ connected \in SUBSET BrowserSession
    /\ attached \in SUBSET BrowserSession
    /\ opened \in BrowserSession \cup {0}
    /\ page \in [BrowserSession -> PageRecord]

\* While a recovery session lasts nobody else controls the browser: it holds the
\* lease for exactly as long as it has left, and its browser session is connected
\* in the books.  Once it has ended, by whatever path, it holds no lease.
SessionHoldsBrowser ==
    \A r \in Run :
        IF session[r].state \in Live
        THEN /\ session[r].left > 0 => lease = [owner |-> r, left |-> session[r].left]
             /\ session[r].browser \in connected
        ELSE lease.owner # r
====
