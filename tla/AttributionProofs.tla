-------------------------- MODULE AttributionProofs --------------------------
(***************************************************************************)
(* Theorems about Attribution, for any page: any elements, URLs, hints and *)
(* bounds.  A handler is a function on the page, so each has a lemma that  *)
(* it keeps the page in order, lets no session go and moves a URL only by  *)
(* locking it.                                                             *)
(***************************************************************************)
EXTENDS Attribution, Recursions, SequenceTheorems

\* The memory of the page is in order: sessions have been opened, the maps lead to
\* sessions that know of it, and only a URL with an owner is locked.
Linked(p) ==
    /\ p \in Page /\ p.live \subseteq 1..p.opened
    /\ \A e \in Elements : p.byElement[e] # None =>
          p.byElement[e] \in p.live /\ p.sessions[p.byElement[e]].element = e
    /\ \A b \in Blobs : p.bySource[b] # None =>
          p.bySource[b] \in p.live /\ b \in p.sessions[p.bySource[b]].sources
    /\ \A url \in Urls : p.ledger[url].locked => p.ledger[url].owner # None

\* LedgerAgrees, of any page.
Agrees(p) ==
    \A url \in Urls :
        /\ p.ledger[url].owner # None =>
              p.ledger[url].owner \in p.live /\ Has(p, p.ledger[url].owner, url)
        /\ \A s \in p.live : p.sessions[s].urls[url] = "locked" =>
              p.ledger[url] = [owner |-> s, locked |-> TRUE]

Good(p) == Linked(p) /\ Agrees(p)

\* A click is about a session that was opened.
Heard(c) == c \in Click /\ (c.stage # "idle" => c.session # None)

Inv == Good(page) /\ Heard(click)

\* What OwnershipMovesByLock says, while no session is released.
ByLock(p, q) ==
    \A url \in Urls : p.ledger[url].owner # None /\ q.ledger[url] # p.ledger[url] =>
        ~p.ledger[url].locked /\ q.ledger[url].locked

\* A handler that releases no session.
Onward(p, q) == Good(q) /\ p.live \subseteq q.live /\ ByLock(p, q)

-----------------------------------------------------------------------------
(* Parts of a page.                                                        *)

\* The sessions are the same, but for what they have of URLs and for their hints.
SameSessions(p, q) ==
    \A t \in Ids : /\ q.sessions[t].element = p.sessions[t].element
                   /\ q.sessions[t].src = p.sessions[t].src
                   /\ q.sessions[t].sources = p.sessions[t].sources

\* The page is the same, but for its sessions and its ledger.
SameMaps(p, q) ==
    /\ q.opened = p.opened /\ q.live = p.live /\ q.byElement = p.byElement
    /\ q.bySource = p.bySource /\ q.lastBound = p.lastBound /\ q.known = p.known
    /\ q.recent = p.recent

\* The ids are numbers, and none of them stands for no session.
LEMMA IdsAreNumbers == Ids \subseteq Nat /\ None \notin Ids /\ None = 0
BY AttributionAssumption DEF Ids, None

\* The sessions of a page have ids.
LEMMA LiveIds ==
    ASSUME NEW p, Linked(p)
    PROVE  p.live \subseteq Ids
<1>1. p \in Page /\ p.live \subseteq 1..p.opened
    BY DEF Linked
<1>2. p.opened \in 0..MaxSessions
    BY <1>1 DEF Page
<1>3. 1..p.opened \subseteq 1..MaxSessions
    BY <1>2, AttributionAssumption
<1>. QED
    BY <1>1, <1>3 DEF Ids

\* Links survive what changes neither the maps nor what the sessions are.
LEMMA LinksStay ==
    ASSUME NEW p, Linked(p), NEW q \in Page, SameMaps(p, q), SameSessions(p, q),
           \A url \in Urls : q.ledger[url].locked => q.ledger[url].owner # None
    PROVE  Linked(q)
<1>1. p \in Page
    BY DEF Linked
<1>2. ASSUME NEW e \in Elements, q.byElement[e] # None
      PROVE  q.byElement[e] \in q.live /\ q.sessions[q.byElement[e]].element = e
    <2>1. p.byElement[e] \in p.live /\ p.sessions[p.byElement[e]].element = e
        BY <1>2 DEF Linked, SameMaps
    <2>2. p.byElement[e] \in Ids
        BY <2>1, LiveIds
    <2>. QED
        BY <2>1, <2>2 DEF SameMaps, SameSessions
<1>3. ASSUME NEW b \in Blobs, q.bySource[b] # None
      PROVE  q.bySource[b] \in q.live /\ b \in q.sessions[q.bySource[b]].sources
    <2>1. p.bySource[b] \in p.live /\ b \in p.sessions[p.bySource[b]].sources
        BY <1>3 DEF Linked, SameMaps
    <2>2. p.bySource[b] \in Ids
        BY <2>1, LiveIds
    <2>. QED
        BY <2>1, <2>2 DEF SameMaps, SameSessions
<1>4. q.live \subseteq 1..q.opened
    BY DEF Linked, SameMaps
<1>. QED
    BY <1>2, <1>3, <1>4 DEF Linked

\* A page with other sessions, or with another ledger.
LEMMA SessionsReplaced ==
    ASSUME NEW p \in Page, NEW f \in [Ids -> Session], NEW q, q = [p EXCEPT !.sessions = f]
    PROVE  q \in Page /\ q.sessions = f /\ q.ledger = p.ledger /\ SameMaps(p, q)
BY DEF Page, SameMaps

LEMMA LedgerReplaced ==
    ASSUME NEW p \in Page, NEW f \in [Urls -> Entry], NEW q, q = [p EXCEPT !.ledger = f]
    PROVE  q \in Page /\ q.sessions = p.sessions /\ q.ledger = f /\ SameMaps(p, q)
BY DEF Page, SameMaps

\* What recordAttribution, handoffUrl and claim do to the page.
Recorded(p, q, s, url, locked) ==
    /\ q \in Page /\ q.ledger = p.ledger /\ SameMaps(p, q) /\ SameSessions(p, q)
    /\ \A t \in Ids, v \in Urls :
          q.sessions[t].urls[v] =
              IF t = s /\ v = url THEN IF locked THEN "locked" ELSE "provisional"
              ELSE p.sessions[t].urls[v]

HandedOff(p, q, urls, s) ==
    /\ q \in Page /\ q.ledger = p.ledger /\ SameMaps(p, q) /\ SameSessions(p, q)
    /\ \A t \in Ids, v \in Urls \ urls : q.sessions[t].urls[v] = p.sessions[t].urls[v]
    /\ \A v \in urls : q.sessions[s].urls[v] = "locked"
    /\ \A t \in Ids \ {s}, v \in urls :
          q.sessions[t].urls[v] \in {p.sessions[t].urls[v], "absent"}

Claimed(p, q, s, url, locked) ==
    /\ q \in Page /\ q.sessions = p.sessions /\ SameMaps(p, q)
    /\ q.ledger[url] = [owner |-> s, locked |-> locked]
    /\ \A v \in Urls \ {url} : q.ledger[v] = p.ledger[v]

LEMMA Recording ==
    ASSUME NEW p \in Page, NEW s \in Ids, NEW url \in Urls,
           NEW byHint \in BOOLEAN, NEW locked \in BOOLEAN
    PROVE  Recorded(p, Record(p, s, url, byHint, locked), s, url, locked)
<1>. DEFINE q == Record(p, s, url, byHint, locked)
            x == p.sessions[s]
            y == Shows(x, url, byHint, locked)
            f == [p.sessions EXCEPT ![s] = y]
<1>1. p.sessions \in [Ids -> Session] /\ x \in Session
    BY DEF Page
<1>2. UrlHints[url] \subseteq Hints
    BY AttributionAssumption
<1>3. y \in Session
    BY <1>1, <1>2 DEF Session, Attribution, Shows
<1>4. f \in [Ids -> Session]
    BY <1>1, <1>3
<1>5. q = [p EXCEPT !.sessions = f]
    BY DEF Record
<1>6. q \in Page /\ q.sessions = f /\ q.ledger = p.ledger /\ SameMaps(p, q)
    <2>. HIDE DEF f, q
    <2>. QED
        BY <1>4, <1>5, SessionsReplaced
<1>7. /\ y.element = x.element /\ y.src = x.src /\ y.sources = x.sources
      /\ \A v \in Urls : y.urls[v] = IF v = url THEN IF locked THEN "locked" ELSE "provisional"
                                     ELSE x.urls[v]
    BY <1>1 DEF Session, Shows
<1>8. \A t \in Ids : f[t] = IF t = s THEN y ELSE p.sessions[t]
    BY <1>1
<1>. HIDE DEF q, y, f
<1>9. SameSessions(p, q)
    BY <1>6, <1>7, <1>8 DEF SameSessions
<1>10. Recorded(p, q, s, url, locked)
    BY <1>6, <1>7, <1>8, <1>9 DEF Recorded
<1>. QED
    BY <1>10 DEF q

\* handoffUrl for some URLs.
LEMMA HandingOff ==
    ASSUME NEW p \in Page, NEW urls \in SUBSET Urls, NEW s \in Ids
    PROVE  HandedOff(p, HandOff(p, urls, s), urls, s)
<1>. DEFINE q == HandOff(p, urls, s)
            lost(t) == {url \in urls : Holder(p, s, url) = t}
            f == [t \in Ids |-> IF t = s THEN Gains(p.sessions[t], urls)
                                ELSE IF lost(t) = {} THEN p.sessions[t]
                                ELSE Loses(p.sessions[t], lost(t))]
<1>1. q = [p EXCEPT !.sessions = f]
    BY DEF HandOff
<1>2. ASSUME NEW us \in SUBSET Urls
      PROVE  HintsOf(us) \subseteq Hints
    BY AttributionAssumption DEF HintsOf
<1>3. ASSUME NEW x \in Session
      PROVE  LET y == Gains(x, urls) IN
             /\ y \in Session /\ y.element = x.element /\ y.src = x.src /\ y.sources = x.sources
             /\ \A v \in Urls : y.urls[v] = IF v \in urls THEN "locked" ELSE x.urls[v]
    <2>1. HintsOf(urls) \subseteq Hints
        BY <1>2
    <2>2. [url \in Urls |-> IF url \in urls THEN "locked" ELSE x.urls[url]] \in [Urls -> Attribution]
        BY DEF Session, Attribution
    <2>. QED
        BY <2>1, <2>2 DEF Session, Gains
<1>4. ASSUME NEW x \in Session, NEW us \in SUBSET Urls
      PROVE  LET y == Loses(x, us) IN
             /\ y \in Session /\ y.element = x.element /\ y.src = x.src /\ y.sources = x.sources
             /\ \A v \in Urls : y.urls[v] = IF v \in us THEN "absent" ELSE x.urls[v]
    <2>. DEFINE kept == [url \in Urls |-> IF url \in us THEN "absent" ELSE x.urls[url]]
    <2>1. kept \in [Urls -> Attribution]
        BY DEF Session, Attribution
    <2>2. HintsOf({url \in Urls : kept[url] = "locked"}) \in SUBSET Hints
        BY <1>2
    <2>3. Loses(x, us) = [x EXCEPT !.urls = kept,
                                   !.hints = HintsOf({url \in Urls : kept[url] = "locked"})]
        BY DEF Loses
    <2>4. \A v \in Urls : kept[v] = IF v \in us THEN "absent" ELSE x.urls[v]
        OBVIOUS
    <2>. HIDE DEF kept
    <2>. QED
        BY <2>1, <2>2, <2>3, <2>4 DEF Session
<1>5. \A t \in Ids : p.sessions[t] \in Session /\ lost(t) \in SUBSET Urls
    BY DEF Page
<1>6. \A t \in Ids : f[t] = IF t = s THEN Gains(p.sessions[t], urls)
                            ELSE IF lost(t) = {} THEN p.sessions[t]
                            ELSE Loses(p.sessions[t], lost(t))
    OBVIOUS
<1>7. f \in [Ids -> Session]
    <2>1. ASSUME NEW t \in Ids PROVE f[t] \in Session
        <3>. HIDE DEF f, lost
        <3>. QED
            BY <1>3, <1>4, <1>5, <1>6
    <2>2. f = [t \in Ids |-> f[t]]
        OBVIOUS
    <2>. HIDE DEF f
    <2>. QED
        BY <2>1, <2>2
<1>8. q \in Page /\ q.sessions = f /\ q.ledger = p.ledger /\ SameMaps(p, q)
    <2>. HIDE DEF f, q
    <2>. QED
        BY <1>1, <1>7, SessionsReplaced
<1>9. \A t \in Ids : lost(t) \subseteq urls
    OBVIOUS
<1>. HIDE DEF f, lost, q
<1>10. SameSessions(p, q)
    BY <1>3, <1>4, <1>5, <1>6, <1>8 DEF SameSessions
<1>11. ASSUME NEW t \in Ids, NEW v \in Urls \ urls
       PROVE  q.sessions[t].urls[v] = p.sessions[t].urls[v]
    BY <1>3, <1>4, <1>5, <1>6, <1>8, <1>9
<1>12. ASSUME NEW v \in urls
       PROVE  q.sessions[s].urls[v] = "locked"
    BY <1>3, <1>5, <1>6, <1>8
<1>13. ASSUME NEW t \in Ids \ {s}, NEW v \in urls
       PROVE  q.sessions[t].urls[v] \in {p.sessions[t].urls[v], "absent"}
    BY <1>4, <1>5, <1>6, <1>8
<1>14. HandedOff(p, q, urls, s)
    BY <1>8, <1>10, <1>11, <1>12, <1>13 DEF HandedOff
<1>. QED
    BY <1>14 DEF q

-----------------------------------------------------------------------------
(* Agreement of the ledger and the sessions.                               *)

\* Some URLs that were not locked become a session's; nothing else is another's.
MovedTo(p, q, s, U) ==
    /\ q.live = p.live
    /\ \A v \in U : /\ ~p.ledger[v].locked
                    /\ q.ledger[v].owner = s
                    /\ q.sessions[s].urls[v] # "absent"
                    /\ q.sessions[s].urls[v] = "locked" => q.ledger[v].locked
    /\ \A v \in U, t \in Ids \ {s} : q.sessions[t].urls[v] \in {p.sessions[t].urls[v], "absent"}
    /\ \A v \in Urls \ U : /\ q.ledger[v] = p.ledger[v]
                           /\ \A t \in Ids : q.sessions[t].urls[v] = p.sessions[t].urls[v]

\* Such a move keeps them in agreement.
LEMMA MoveAgrees ==
    ASSUME NEW p, Good(p), NEW s \in p.live, NEW U \in SUBSET Urls,
           NEW q \in Page, MovedTo(p, q, s, U)
    PROVE  Agrees(q)
<1>1. p.live \subseteq Ids /\ q.live = p.live
    BY LiveIds DEF Good, MovedTo
<1>2. ASSUME NEW v \in Urls \ U
      PROVE  /\ q.ledger[v].owner # None =>
                  q.ledger[v].owner \in q.live /\ Has(q, q.ledger[v].owner, v)
             /\ \A t \in q.live : q.sessions[t].urls[v] = "locked" =>
                  q.ledger[v] = [owner |-> t, locked |-> TRUE]
    <2>1. q.ledger[v] = p.ledger[v] /\ \A t \in Ids : q.sessions[t].urls[v] = p.sessions[t].urls[v]
        BY DEF MovedTo
    <2>2. /\ p.ledger[v].owner # None => p.ledger[v].owner \in p.live /\ Has(p, p.ledger[v].owner, v)
          /\ \A t \in p.live : p.sessions[t].urls[v] = "locked" =>
                  p.ledger[v] = [owner |-> t, locked |-> TRUE]
        BY DEF Good, Agrees
    <2>. QED
        BY <1>1, <2>1, <2>2 DEF Has
<1>3. ASSUME NEW v \in U
      PROVE  /\ q.ledger[v].owner # None =>
                  q.ledger[v].owner \in q.live /\ Has(q, q.ledger[v].owner, v)
             /\ \A t \in q.live : q.sessions[t].urls[v] = "locked" =>
                  q.ledger[v] = [owner |-> t, locked |-> TRUE]
    <2>1. /\ ~p.ledger[v].locked /\ q.ledger[v].owner = s
          /\ q.sessions[s].urls[v] # "absent"
          /\ q.sessions[s].urls[v] = "locked" => q.ledger[v].locked
          /\ \A t \in Ids \ {s} : q.sessions[t].urls[v] \in {p.sessions[t].urls[v], "absent"}
        BY DEF MovedTo
    <2>2. ASSUME NEW t \in q.live, q.sessions[t].urls[v] = "locked"
          PROVE  t = s
        <3>1. SUFFICES ASSUME t # s PROVE FALSE
            OBVIOUS
        <3>2. p.sessions[t].urls[v] = "locked" /\ t \in p.live
            BY <1>1, <2>1, <2>2, <3>1
        <3>3. p.ledger[v] = [owner |-> t, locked |-> TRUE]
            BY <3>2 DEF Good, Agrees
        <3>. QED
            BY <2>1, <3>3
    <2>3. q.ledger[v] \in Entry
        BY DEF Page
    <2>4. q.ledger[v].locked => q.ledger[v] = [owner |-> s, locked |-> TRUE]
        BY <2>1, <2>3 DEF Entry
    <2>. QED
        BY <1>1, <2>1, <2>2, <2>4 DEF Has
<1>. QED
    BY <1>2, <1>3 DEF Agrees

\* A handler that does no more than such a move goes onward.
LEMMA MoveGoesOn ==
    ASSUME NEW p, Good(p), NEW s \in p.live, NEW U \in SUBSET Urls, NEW q \in Page,
           SameMaps(p, q), SameSessions(p, q), MovedTo(p, q, s, U),
           \A v \in U : p.ledger[v].owner = None \/ q.ledger[v].locked
    PROVE  Onward(p, q) /\ q.live = p.live
<1>1. s # None /\ q.live = p.live
    BY LiveIds, IdsAreNumbers DEF Good, MovedTo
<1>2. Agrees(q)
    BY MoveAgrees
<1>3. ASSUME NEW v \in Urls, q.ledger[v].locked PROVE q.ledger[v].owner # None
    BY <1>1, <1>3 DEF Good, Linked, MovedTo
<1>4. Linked(q)
    BY <1>3, LinksStay DEF Good
<1>5. ByLock(p, q)
    BY DEF ByLock, MovedTo
<1>. QED
    BY <1>1, <1>2, <1>4, <1>5 DEF Onward, Good

LEMMA StayingGoesOn ==
    ASSUME NEW p, Good(p)
    PROVE  Onward(p, p) /\ p.live = p.live
BY DEF Onward, ByLock

\* claim, of a URL that may be claimed, and of one that may not.
LEMMA Claiming ==
    ASSUME NEW p, Good(p), NEW s \in p.live, NEW url \in Urls, NEW locked \in BOOLEAN,
           ~p.ledger[url].locked, locked \/ p.ledger[url].owner = None
    PROVE  Claimed(p, [p EXCEPT !.ledger = Claim(@, url, s, locked)], s, url, locked)
<1>. DEFINE q == [p EXCEPT !.ledger = Claim(@, url, s, locked)]
            f == [p.ledger EXCEPT ![url] = [owner |-> s, locked |-> locked]]
<1>1. p \in Page /\ p.ledger \in [Urls -> Entry] /\ s \in Ids
    BY LiveIds DEF Good, Linked, Page
<1>2. f \in [Urls -> Entry]
    BY <1>1 DEF Entry
<1>3. q = [p EXCEPT !.ledger = f]
    BY DEF Claim
<1>4. q \in Page /\ q.sessions = p.sessions /\ q.ledger = f /\ SameMaps(p, q)
    <2>. HIDE DEF f, q
    <2>. QED
        BY <1>1, <1>2, <1>3, LedgerReplaced
<1>5. Claimed(p, q, s, url, locked)
    <2>. HIDE DEF q
    <2>. QED
        BY <1>1, <1>4 DEF Claimed
<1>. QED
    BY <1>5

LEMMA ClaimRefused ==
    ASSUME NEW p, Good(p), NEW s, NEW url \in Urls, NEW locked \in BOOLEAN,
           p.ledger[url].locked \/ (p.ledger[url].owner # None /\ ~locked)
    PROVE  [p EXCEPT !.ledger = Claim(@, url, s, locked)] = p
<1>1. Claim(p.ledger, url, s, locked) = p.ledger
    BY DEF Claim
<1>. QED
    BY <1>1 DEF Good, Linked, Page

LEMMA AttributeGoesOn ==
    ASSUME NEW p, Good(p), NEW s \in p.live, NEW url \in Urls, NEW byHint \in BOOLEAN
    PROVE  LET q == Attribute(p, s, url, byHint) IN Onward(p, q) /\ q.live = p.live
<1>. DEFINE c == [p EXCEPT !.ledger = Claim(@, url, s, FALSE)]
            owner == c.ledger[url].owner
            q == Attribute(p, s, url, byHint)
<1>1. q = IF owner \notin p.live \/ Has(p, owner, url) THEN c
          ELSE Record(c, owner, url, byHint, owner # s)
    BY DEF Attribute
<1>2. p \in Page /\ s \in Ids
    BY LiveIds DEF Good, Linked
<1>3. CASE p.ledger[url].locked \/ p.ledger[url].owner # None
    <2>1. c = p
        BY <1>3, ClaimRefused
    <2>2. owner # None
        BY <1>3, <2>1 DEF Good, Linked
    <2>3. Has(p, owner, url)
        BY <2>1, <2>2 DEF Good, Agrees
    <2>4. q = p
        BY <1>1, <2>1, <2>3
    <2>. QED
        BY <2>4, StayingGoesOn
<1>4. CASE ~p.ledger[url].locked /\ p.ledger[url].owner = None
    <2>1. /\ c \in Page /\ c.sessions = p.sessions /\ SameMaps(p, c)
          /\ c.ledger[url] = [owner |-> s, locked |-> FALSE]
          /\ \A v \in Urls \ {url} : c.ledger[v] = p.ledger[v]
        <3>1. Claimed(p, c, s, url, FALSE)
            BY <1>4, Claiming
        <3>. HIDE DEF c
        <3>. QED
            BY <3>1 DEF Claimed
    <2>. HIDE DEF c
    <2>2. owner = s
        BY <2>1
    <2>3. SameSessions(p, c)
        BY <2>1 DEF SameSessions
    <2>4. p.sessions[s].urls[url] # "locked"
        <3>1. p.sessions[s].urls[url] = "locked" => p.ledger[url] = [owner |-> s, locked |-> TRUE]
            BY DEF Good, Agrees
        <3>. QED
            BY <1>4, <3>1
    <2>5. CASE Has(p, s, url)
        <3>1. q = c
            BY <1>1, <2>2, <2>5
        <3>2. MovedTo(p, c, s, {url})
            BY <1>2, <1>4, <2>1, <2>4, <2>5 DEF MovedTo, Has, SameMaps
        <3>. QED
            BY <1>4, <2>1, <2>3, <3>1, <3>2, MoveGoesOn
    <2>6. CASE ~Has(p, s, url)
        <3>. DEFINE r == Record(c, s, url, byHint, FALSE)
        <3>1. q = r
            BY <1>1, <2>2, <2>6
        <3>2. /\ r \in Page /\ r.ledger = c.ledger /\ SameMaps(c, r) /\ SameSessions(c, r)
              /\ \A t \in Ids, v \in Urls :
                    r.sessions[t].urls[v] = IF t = s /\ v = url THEN "provisional"
                                            ELSE c.sessions[t].urls[v]
            <4>1. Recorded(c, r, s, url, FALSE)
                BY <1>2, <2>1, Recording
            <4>. HIDE DEF r
            <4>. QED
                BY <4>1 DEF Recorded
        <3>. HIDE DEF r
        <3>3. SameMaps(p, r) /\ SameSessions(p, r)
            BY <2>1, <2>3, <3>2 DEF SameMaps, SameSessions
        <3>4. MovedTo(p, r, s, {url})
            <4>1. r.live = p.live
                BY <3>3 DEF SameMaps
            <4>2. \A t \in Ids \ {s} : r.sessions[t].urls[url] = p.sessions[t].urls[url]
                BY <2>1, <3>2
            <4>3. r.sessions[s].urls[url] = "provisional" /\ r.ledger[url].owner = s
                BY <1>2, <2>1, <3>2
            <4>4. \A v \in Urls \ {url} : /\ r.ledger[v] = p.ledger[v]
                                          /\ \A t \in Ids : r.sessions[t].urls[v] = p.sessions[t].urls[v]
                BY <2>1, <3>2
            <4>. QED
                BY <1>4, <4>1, <4>2, <4>3, <4>4 DEF MovedTo
        <3>. QED
            BY <1>4, <3>1, <3>2, <3>3, <3>4, MoveGoesOn
    <2>. QED
        BY <2>5, <2>6
<1>. QED
    BY <1>3, <1>4

-----------------------------------------------------------------------------
(* The handlers.                                                           *)

\* The end of attributeBufferAppend.
LEMMA BoundByBufferGoesOn ==
    ASSUME NEW p, Good(p), NEW s \in p.live, NEW url \in Urls, ~p.ledger[url].locked
    PROVE  LET q == BoundByBuffer(p, s, url) IN Onward(p, q) /\ q.live = p.live
<1>. DEFINE c == [p EXCEPT !.ledger = Claim(@, url, s, TRUE)]
            q == BoundByBuffer(p, s, url)
<1>1. q = IF ~Has(p, s, url) THEN HandOff(c, {url}, s) ELSE Record(c, s, url, FALSE, TRUE)
    BY DEF BoundByBuffer
<1>2. p \in Page /\ s \in Ids
    BY LiveIds DEF Good, Linked
<1>3. Claimed(p, c, s, url, TRUE)
    BY Claiming
<1>. HIDE DEF c
<1>4. /\ c \in Page /\ c.sessions = p.sessions /\ SameMaps(p, c) /\ SameSessions(p, c)
      /\ c.ledger[url] = [owner |-> s, locked |-> TRUE]
      /\ \A v \in Urls \ {url} : c.ledger[v] = p.ledger[v]
    BY <1>3 DEF Claimed, SameSessions
<1>5. CASE ~Has(p, s, url)
    <2>1. q = HandOff(c, {url}, s)
        BY <1>1, <1>5
    <2>2. HandedOff(c, q, {url}, s)
        BY <1>2, <1>4, <2>1, HandingOff
    <2>. HIDE DEF q
    <2>3. q \in Page /\ SameMaps(p, q) /\ SameSessions(p, q)
        BY <1>4, <2>2 DEF HandedOff, SameMaps, SameSessions
    <2>4. MovedTo(p, q, s, {url}) /\ q.ledger[url].locked
        <3>1. q.live = p.live /\ q.ledger = c.ledger
            BY <2>2, <2>3 DEF SameMaps, HandedOff
        <3>2. /\ \A t \in Ids, v \in Urls \ {url} : q.sessions[t].urls[v] = p.sessions[t].urls[v]
              /\ q.sessions[s].urls[url] = "locked"
              /\ \A t \in Ids \ {s} : q.sessions[t].urls[url] \in {p.sessions[t].urls[url], "absent"}
            BY <1>4, <2>2 DEF HandedOff
        <3>. QED
            BY <1>4, <3>1, <3>2 DEF MovedTo
    <2>. QED
        BY <2>3, <2>4, MoveGoesOn DEF q
<1>6. CASE Has(p, s, url)
    <2>1. q = Record(c, s, url, FALSE, TRUE)
        BY <1>1, <1>6
    <2>2. Recorded(c, q, s, url, TRUE)
        BY <1>2, <1>4, <2>1, Recording
    <2>. HIDE DEF q
    <2>3. q \in Page /\ SameMaps(p, q) /\ SameSessions(p, q)
        BY <1>4, <2>2 DEF Recorded, SameMaps, SameSessions
    <2>4. MovedTo(p, q, s, {url}) /\ q.ledger[url].locked
        <3>1. q.live = p.live /\ q.ledger = c.ledger
            BY <2>2, <2>3 DEF SameMaps, Recorded
        <3>2. /\ \A t \in Ids, v \in Urls \ {url} : q.sessions[t].urls[v] = p.sessions[t].urls[v]
              /\ q.sessions[s].urls[url] = "locked"
              /\ \A t \in Ids \ {s} : q.sessions[t].urls[url] = p.sessions[t].urls[url]
            BY <1>2, <1>4, <2>2 DEF Recorded
        <3>. QED
            BY <1>4, <3>1, <3>2 DEF MovedTo
    <2>. QED
        BY <2>3, <2>4, MoveGoesOn DEF q
<1>. QED
    BY <1>5, <1>6

\* pickSessionAndTier gives a session of the page, if any.
LEMMA PickedLives ==
    ASSUME NEW p, Good(p), NEW url \in Urls
    PROVE  Picked(p, url) \in p.live \cup {None}
<1>1. p.live \subseteq Ids /\ p.live \subseteq Nat
    BY LiveIds, IdsAreNumbers DEF Good
<1>2. CASE ByHint(p, url) # {}
    <2>1. ByHint(p, url) \subseteq p.live
        BY DEF ByHint
    <2>2. \E s \in ByHint(p, url) : \A t \in ByHint(p, url) : s <= t
        BY <1>1, <1>2, <2>1, HasLeast
    <2>. QED
        BY <1>2, <2>1, <2>2 DEF Picked
<1>3. CASE ByHint(p, url) = {} /\ p.lastBound \in p.live
    BY <1>3 DEF Picked
<1>4. CASE ByHint(p, url) = {} /\ p.lastBound \notin p.live /\ \E s \in Ids : p.live = {s}
    <2>. DEFINE s == CHOOSE s \in Ids : p.live = {s}
    <2>1. p.live = {s}
        BY <1>4
    <2>2. Picked(p, url) = s
        BY <1>4 DEF Picked
    <2>. QED
        BY <2>1, <2>2
<1>5. CASE ByHint(p, url) = {} /\ p.lastBound \notin p.live /\ ~\E s \in Ids : p.live = {s}
    BY <1>5 DEF Picked
<1>. QED
    BY <1>2, <1>3, <1>4, <1>5

LEMMA GuessGoesOn ==
    ASSUME NEW p, Good(p), NEW url \in Urls
    PROVE  LET q == Guess(p, url) IN Onward(p, q) /\ q.live = p.live
<1>. DEFINE s == Picked(p, url)
            h == ByHint(p, url) # {}
<1>1. s \in p.live \cup {None}
    BY PickedLives
<1>2. CASE s = None \/ Has(p, s, url)
    <2>1. Guess(p, url) = p
        BY <1>2 DEF Guess
    <2>. QED
        BY <2>1, StayingGoesOn
<1>3. CASE ~(s = None \/ Has(p, s, url))
    <2>1. Guess(p, url) = Attribute(p, s, url, h)
        BY <1>3 DEF Guess
    <2>2. s \in p.live /\ h \in BOOLEAN
        BY <1>1, <1>3
    <2>. HIDE DEF s, h
    <2>. QED
        BY <2>1, <2>2, AttributeGoesOn
<1>. QED
    BY <1>2, <1>3

LEMMA AttributeFetchGoesOn ==
    ASSUME NEW p, Good(p), NEW url \in Urls
    PROVE  LET q == AttributeFetch(p, url) IN Onward(p, q) /\ q.live = p.live
<1>1. CASE ~p.ledger[url].locked
    <2>1. AttributeFetch(p, url) = Guess(p, url)
        BY <1>1 DEF AttributeFetch
    <2>. QED
        BY <2>1, GuessGoesOn
<1>2. CASE p.ledger[url].locked
    <2>1. p.ledger[url].owner # None
        BY <1>2 DEF Good, Linked
    <2>2. Has(p, p.ledger[url].owner, url)
        BY <2>1 DEF Good, Agrees
    <2>3. AttributeFetch(p, url) = p
        BY <1>2, <2>2 DEF AttributeFetch
    <2>. QED
        BY <2>3, StayingGoesOn
<1>. QED
    BY <1>1, <1>2

\* bindBlobToMediaSource.
LEMMA BindGoesOn ==
    ASSUME NEW p, Good(p), NEW s \in p.live, NEW src
    PROVE  LET q == Bind(p, s, src) IN Onward(p, q) /\ q.live = p.live
<1>. DEFINE unbound == src \notin p.known \/ src \in p.sessions[s].sources
            reclaimed == Reclaimed(p.ledger, s, p.sessions[s].hints)
            b == [p EXCEPT !.sessions[s].sources = @ \cup {src}, !.bySource[src] = s,
                           !.lastBound = s, !.ledger = LockAllFor(@, s, reclaimed)]
            q == HandOff(b, reclaimed, s)
            U == {v \in Urls : ~p.ledger[v].locked /\ (v \in reclaimed \/ p.ledger[v].owner = s)}
<1>1. CASE unbound
    <2>1. Bind(p, s, src) = p
        BY <1>1 DEF Bind
    <2>. QED
        BY <2>1, StayingGoesOn
<1>2. CASE ~unbound
    <2>1. Bind(p, s, src) = q
        BY <1>2 DEF Bind
    <2>2. p \in Page /\ s \in Ids /\ s # None /\ p.live \subseteq Ids
        BY LiveIds, IdsAreNumbers DEF Good, Linked
    <2>3. src \in Blobs
        BY <1>2, <2>2 DEF Page
    <2>4. reclaimed \in SUBSET Urls
        BY DEF Reclaimed
    <2>5. \A v \in reclaimed : ~p.ledger[v].locked
        BY DEF Reclaimed
    <2>. HIDE DEF reclaimed, unbound
    <2>6. LockAllFor(p.ledger, s, reclaimed) \in [Urls -> Entry]
        BY <2>2 DEF LockAllFor, Entry, Page
    <2>7. \A v \in Urls : LockAllFor(p.ledger, s, reclaimed)[v] =
                IF v \in reclaimed \/ p.ledger[v].owner = s THEN [owner |-> s, locked |-> TRUE]
                ELSE p.ledger[v]
        BY DEF LockAllFor
    <2>8. /\ b \in Page /\ b.opened = p.opened /\ b.live = p.live /\ b.byElement = p.byElement
          /\ b.bySource = [p.bySource EXCEPT ![src] = s]
          /\ b.ledger = LockAllFor(p.ledger, s, reclaimed)
          /\ \A t \in Ids : /\ b.sessions[t].element = p.sessions[t].element
                            /\ b.sessions[t].urls = p.sessions[t].urls
                            /\ b.sessions[t].sources = IF t = s THEN p.sessions[t].sources \cup {src}
                                                       ELSE p.sessions[t].sources
        <3>. DEFINE f == [p.sessions EXCEPT ![s].sources = @ \cup {src}]
                    k == LockAllFor(p.ledger, s, reclaimed)
        <3>1. /\ f \in [Ids -> Session]
              /\ \A t \in Ids : /\ f[t].element = p.sessions[t].element
                                /\ f[t].urls = p.sessions[t].urls
                                /\ f[t].sources = IF t = s THEN p.sessions[t].sources \cup {src}
                                                  ELSE p.sessions[t].sources
            BY <2>2, <2>3, ZenonT(30) DEF Page, Session
        <3>2. b = [p EXCEPT !.sessions = f, !.bySource = [@ EXCEPT ![src] = s],
                            !.lastBound = s, !.ledger = k]
            OBVIOUS
        <3>3. [p.bySource EXCEPT ![src] = s] \in [Blobs -> Ids \cup {None}]
            BY <2>2 DEF Page
        <3>. HIDE DEF f, b, k
        <3>4. b \in Page /\ b.sessions = f /\ b.ledger = k
            BY <2>2, <2>6, <3>1, <3>2, <3>3 DEF Page, k
        <3>. QED
            BY <2>2, <3>1, <3>2, <3>4 DEF Page, k
    <2>. HIDE DEF b
    <2>9. HandedOff(b, q, reclaimed, s)
        BY <2>2, <2>4, <2>8, HandingOff
    <2>. HIDE DEF q
    <2>10. MovedTo(p, q, s, U) /\ \A v \in U : q.ledger[v].locked
        <3>1. q.live = p.live /\ q.ledger = LockAllFor(p.ledger, s, reclaimed)
            BY <2>8, <2>9 DEF HandedOff, SameMaps
        <3>2. \A t \in Ids, v \in Urls \ reclaimed : q.sessions[t].urls[v] = p.sessions[t].urls[v]
            <4>1. \A t \in Ids, v \in Urls \ reclaimed : q.sessions[t].urls[v] = b.sessions[t].urls[v]
                BY <2>9 DEF HandedOff
            <4>. QED
                BY <2>8, <4>1, ZenonT(30)
        <3>3. \A t \in Ids \ {s}, v \in reclaimed :
                 q.sessions[t].urls[v] \in {p.sessions[t].urls[v], "absent"}
            <4>1. \A t \in Ids \ {s}, v \in reclaimed :
                     q.sessions[t].urls[v] \in {b.sessions[t].urls[v], "absent"}
                BY <2>9 DEF HandedOff
            <4>. QED
                BY <2>8, <4>1
        <3>4. ASSUME NEW v \in U
              PROVE  /\ ~p.ledger[v].locked /\ q.ledger[v] = [owner |-> s, locked |-> TRUE]
                     /\ q.sessions[s].urls[v] # "absent"
            <4>1. CASE v \in reclaimed
                BY <2>5, <2>7, <2>9, <3>1, <4>1 DEF HandedOff
            <4>2. CASE v \notin reclaimed
                <5>1. p.ledger[v].owner = s /\ ~p.ledger[v].locked
                    BY <4>2
                <5>2. Has(p, s, v)
                    BY <2>2, <5>1 DEF Good, Agrees
                <5>3. q.sessions[s].urls[v] = p.sessions[s].urls[v]
                    BY <2>2, <3>2, <4>2
                <5>. QED
                    BY <2>7, <3>1, <5>1, <5>2, <5>3 DEF Has
            <4>. QED
                BY <4>1, <4>2
        <3>5. ASSUME NEW v \in U, NEW t \in Ids \ {s}
              PROVE  q.sessions[t].urls[v] \in {p.sessions[t].urls[v], "absent"}
            <4>1. v \in Urls
                OBVIOUS
            <4>. QED
                BY <3>2, <3>3, <4>1
        <3>6. ASSUME NEW v \in Urls \ U
              PROVE  q.ledger[v] = p.ledger[v] /\ v \notin reclaimed
            <4>1. v \notin reclaimed
                BY <2>5
            <4>2. p.ledger[v].owner = s => p.ledger[v].locked
                BY <4>1
            <4>3. p.ledger[v].owner = s => p.ledger[v] = [owner |-> s, locked |-> TRUE]
                <5>1. p.ledger[v] \in Entry
                    BY <2>2 DEF Page
                <5>. QED
                    BY <4>2, <5>1 DEF Entry
            <4>. QED
                BY <2>7, <3>1, <4>1, <4>3
        <3>7. ASSUME NEW v \in Urls \ U, NEW t \in Ids
              PROVE  q.sessions[t].urls[v] = p.sessions[t].urls[v]
            BY <3>6, <3>2
        <3>. HIDE DEF U
        <3>. QED
            BY <3>1, <3>4, <3>5, <3>6, <3>7 DEF MovedTo
    <2>11. U \in SUBSET Urls
        OBVIOUS
    <2>. HIDE DEF U
    <2>12. /\ q \in Page /\ q.opened = p.opened /\ q.live = p.live /\ q.byElement = p.byElement
           /\ q.bySource = [p.bySource EXCEPT ![src] = s]
           /\ \A t \in Ids : /\ q.sessions[t].element = p.sessions[t].element
                             /\ q.sessions[t].sources = IF t = s
                                    THEN p.sessions[t].sources \cup {src} ELSE p.sessions[t].sources
        BY <2>8, <2>9 DEF HandedOff, SameMaps, SameSessions
    <2>13. Agrees(q)
        BY <2>10, <2>11, <2>12, MoveAgrees
    <2>14. Linked(q)
        <3>1. q.live \subseteq 1..q.opened
            BY <2>12 DEF Good, Linked
        <3>2. ASSUME NEW e \in Elements, q.byElement[e] # None
              PROVE  q.byElement[e] \in q.live /\ q.sessions[q.byElement[e]].element = e
            BY <2>2, <2>12, <3>2, ZenonT(30) DEF Good, Linked
        <3>3. ASSUME NEW d \in Blobs, q.bySource[d] # None
              PROVE  q.bySource[d] \in q.live /\ d \in q.sessions[q.bySource[d]].sources
            <4>1. q.bySource[d] = IF d = src THEN s ELSE p.bySource[d]
                BY <2>2, <2>12 DEF Page
            <4>2. CASE d = src
                BY <2>2, <2>12, <4>1, <4>2
            <4>3. CASE d # src
                <5>1. p.bySource[d] \in p.live /\ d \in p.sessions[p.bySource[d]].sources
                    BY <3>3, <4>1, <4>3 DEF Good, Linked
                <5>. QED
                    BY <2>2, <2>12, <4>1, <4>3, <5>1
            <4>. QED
                BY <4>2, <4>3
        <3>4. ASSUME NEW v \in Urls, q.ledger[v].locked PROVE q.ledger[v].owner # None
            BY <2>2, <2>10, <3>4 DEF MovedTo, Good, Linked
        <3>. QED
            BY <2>12, <3>1, <3>2, <3>3, <3>4 DEF Linked
    <2>15. ByLock(p, q)
        BY <2>10 DEF ByLock, MovedTo
    <2>. QED
        BY <2>1, <2>12, <2>13, <2>14, <2>15 DEF Onward, Good
<1>. QED
    BY <1>1, <1>2

\* mse_objecturl: the sessions are bound one after the other.
LEMMA BoundPlayersGoOn ==
    ASSUME NEW p, Good(p), NEW blob
    PROVE  LET q == BoundPlayers(p, blob) IN Onward(p, q) /\ q.live = p.live
<1>. DEFINE players == {s \in p.live : p.sessions[s].src = blob}
            body(f) == [s \in 0..MaxSessions |->
                          IF s = 0 THEN p ELSE IF s \in players THEN Bind(f[s - 1], s, blob) ELSE f[s - 1]]
            bound == CHOOSE f : f = body(f)
            S == {q \in Page : Onward(p, q) /\ q.live = p.live}
            op == [s \in 1..MaxSessions |-> [q \in S |-> IF s \in players THEN Bind(q, s, blob) ELSE q]]
<1>1. BoundPlayers(p, blob) = bound[MaxSessions]
    BY DEF BoundPlayers
<1>2. p \in S /\ MaxSessions \in Nat
    BY StayingGoesOn, AttributionAssumption DEF Good, Linked
<1>3. ASSUME NEW q \in S, NEW s \in players PROVE Bind(q, s, blob) \in S
    <2>1. Good(q) /\ ByLock(p, q) /\ q.live = p.live /\ s \in q.live
        BY DEF Onward
    <2>. DEFINE r == Bind(q, s, blob)
    <2>2. Onward(q, r) /\ r.live = q.live
        BY <2>1, BindGoesOn
    <2>. HIDE DEF r
    <2>3. ByLock(p, r)
        <3>1. ASSUME NEW v \in Urls, p.ledger[v].owner # None, r.ledger[v] # p.ledger[v]
              PROVE  ~p.ledger[v].locked /\ r.ledger[v].locked
            <4>1. CASE q.ledger[v] = p.ledger[v]
                BY <2>2, <3>1, <4>1 DEF Onward, ByLock
            <4>2. CASE q.ledger[v] # p.ledger[v]
                <5>1. ~p.ledger[v].locked /\ q.ledger[v].locked
                    BY <2>1, <3>1, <4>2 DEF ByLock
                <5>2. q.ledger[v].owner # None
                    BY <2>1, <5>1 DEF Good, Linked
                <5>3. r.ledger[v] = q.ledger[v]
                    BY <2>2, <5>1, <5>2 DEF Onward, ByLock
                <5>. QED
                    BY <5>1, <5>3
            <4>. QED
                BY <4>1, <4>2
        <3>. QED
            BY <3>1 DEF ByLock
    <2>4. r \in Page
        BY <2>2 DEF Onward, Good, Linked
    <2>. QED
        BY <2>1, <2>2, <2>3, <2>4 DEF Onward, r
<1>4. op \in [1..MaxSessions -> [S -> S]]
    <2>. HIDE DEF S, players
    <2>. QED
        BY <1>3
<1>5. PICK g \in [0..MaxSessions -> S] : Iterates(g, MaxSessions, p, op)
    <2>. HIDE DEF op, S
    <2>. QED
        BY <1>2, <1>4, IterationExists
<1>6. body(g) = g
    <2>. DEFINE b == body(g)
    <2>1. \A s \in 1..MaxSessions : s - 1 \in 0..MaxSessions /\ g[s - 1] \in S
        BY <1>2, <1>5
    <2>. HIDE DEF S
    <2>2. FunctionTo(b, MaxSessions) /\ TakesSteps(b, g, MaxSessions, p, op)
        BY <1>2, <2>1 DEF FunctionTo, TakesSteps
    <2>3. b = g
        <3>. HIDE DEF b, op
        <3>. QED
            BY <1>2, <1>5, <2>2, SameIteration
    <2>. QED
        BY <2>3
<1>7. bound = body(bound)
    <2>. HIDE DEF body
    <2>. QED
        BY <1>6, Zenon
<1>8. bound[0] \in S /\ \A s \in 1..MaxSessions : bound[s - 1] \in S => bound[s] \in S
    <2>. HIDE DEF bound, S, players
    <2>1. bound[0] = p
        BY <1>2, <1>7
    <2>2. ASSUME NEW s \in 1..MaxSessions, bound[s - 1] \in S PROVE bound[s] \in S
        <3>1. bound[s] = IF s \in players THEN Bind(bound[s - 1], s, blob) ELSE bound[s - 1]
            BY <1>2, <1>7
        <3>. QED
            BY <1>3, <2>2, <3>1
    <2>. QED
        BY <1>2, <2>1, <2>2
<1>9. \A s \in 0..MaxSessions : bound[s] \in S
    <2>. HIDE DEF bound, S
    <2>. QED
        BY <1>2, <1>8, StepByStep
<1>10. bound[MaxSessions] \in S
    <2>. HIDE DEF bound, S
    <2>. QED
        BY <1>2, <1>9
<1>. QED
    <2>. HIDE DEF bound
    <2>. QED
        BY <1>1, <1>10

\* recordFetch, and the fetch that a buffer was found to hold.
LEMMA RecentGoesOn ==
    ASSUME NEW p, Good(p), NEW recent \in Seq(Urls)
    PROVE  LET q == [p EXCEPT !.recent = recent]
           IN  Onward(p, q) /\ q.live = p.live /\ q.ledger = p.ledger /\ q.sessions = p.sessions
<1>. DEFINE q == [p EXCEPT !.recent = recent]
<1>1. /\ q \in Page /\ q.opened = p.opened /\ q.live = p.live /\ q.sessions = p.sessions
      /\ q.byElement = p.byElement /\ q.bySource = p.bySource /\ q.ledger = p.ledger
    BY DEF Good, Linked, Page
<1>. HIDE DEF q
<1>2. Linked(q)
    BY <1>1 DEF Good, Linked
<1>3. Agrees(q)
    BY <1>1 DEF Good, Agrees, Has
<1>4. Onward(p, q) /\ q.live = p.live /\ q.ledger = p.ledger /\ q.sessions = p.sessions
    BY <1>1, <1>2, <1>3 DEF Onward, Good, ByLock
<1>. QED
    BY <1>4 DEF q

LEMMA RecordFetchGoesOn ==
    ASSUME NEW p, Good(p), NEW url \in Urls
    PROVE  LET q == RecordFetch(p, url) IN Onward(p, q) /\ q.live = p.live /\ q.ledger = p.ledger
<1>. DEFINE r == IF Len(p.recent) < FetchesCap THEN Append(p.recent, url)
                 ELSE Append(Tail(p.recent), url)
<1>1. p.recent \in Seq(Urls)
    BY DEF Good, Linked, Page
<1>2. r \in Seq(Urls)
    <2>1. CASE Len(p.recent) < FetchesCap
        BY <1>1, <2>1
    <2>2. CASE ~(Len(p.recent) < FetchesCap)
        <3>1. p.recent # <<>>
            BY <1>1, <2>2, AttributionAssumption
        <3>2. Tail(p.recent) \in Seq(Urls)
            BY <1>1, <3>1
        <3>. QED
            BY <2>2, <3>2
    <2>. QED
        BY <2>1, <2>2
<1>3. RecordFetch(p, url) = [p EXCEPT !.recent = r]
    BY DEF RecordFetch
<1>. HIDE DEF r
<1>. QED
    BY <1>2, <1>3, RecentGoesOn

\* openSessionFor.
LEMMA OpenGoesOn ==
    ASSUME NEW p, Good(p), p.opened < MaxSessions, NEW e \in Elements, NEW src \in Sources
    PROVE  Onward(p, Open(p, e, src))
<1>. DEFINE s == p.opened + 1
            x == [element |-> e, src |-> src, hints |-> PosterHints[e],
                  urls |-> [url \in Urls |-> "absent"], sources |-> {}]
            f == [p.sessions EXCEPT ![s] = x]
            o == [p EXCEPT !.opened = s, !.live = @ \cup {s}, !.byElement[e] = s, !.sessions[s] = x]
<1>1. /\ p \in Page /\ p.opened \in Nat /\ p.live \subseteq 1..p.opened /\ p.live \subseteq Ids
    BY LiveIds, AttributionAssumption DEF Good, Linked, Page
<1>2. s \in Ids /\ s \notin p.live /\ s \in 0..MaxSessions /\ s \in 1..s /\ 1..p.opened \subseteq 1..s
    BY <1>1, AttributionAssumption DEF Ids
<1>3. x \in Session
    BY AttributionAssumption DEF Session, Attribution
<1>4. f \in [Ids -> Session] /\ \A t \in Ids : f[t] = IF t = s THEN x ELSE p.sessions[t]
    BY <1>1, <1>2, <1>3 DEF Page
<1>5. o = [p EXCEPT !.opened = s, !.live = @ \cup {s}, !.byElement = [@ EXCEPT ![e] = s],
                    !.sessions = f]
    OBVIOUS
<1>6. /\ x.element = e /\ x.sources = {} /\ \A v \in Urls : x.urls[v] = "absent"
    OBVIOUS
<1>. HIDE DEF s, x, f, o
<1>7. /\ o \in Page /\ o.opened = s /\ o.live = p.live \cup {s} /\ o.sessions = f
      /\ o.ledger = p.ledger /\ o.bySource = p.bySource
      /\ \A d \in Elements : o.byElement[d] = IF d = e THEN s ELSE p.byElement[d]
    BY <1>1, <1>2, <1>4, <1>5 DEF Page
<1>8. Linked(o)
    <2>1. o.live \subseteq 1..o.opened
        BY <1>1, <1>2, <1>7
    <2>2. ASSUME NEW d \in Elements, o.byElement[d] # None
          PROVE  o.byElement[d] \in o.live /\ o.sessions[o.byElement[d]].element = d
        <3>1. CASE d = e
            BY <1>2, <1>4, <1>6, <1>7, <3>1
        <3>2. CASE d # e
            <4>1. p.byElement[d] \in p.live /\ p.sessions[p.byElement[d]].element = d
                BY <1>7, <2>2, <3>2 DEF Good, Linked
            <4>. QED
                BY <1>1, <1>2, <1>4, <1>7, <3>2, <4>1
        <3>. QED
            BY <3>1, <3>2
    <2>3. ASSUME NEW b \in Blobs, o.bySource[b] # None
          PROVE  o.bySource[b] \in o.live /\ b \in o.sessions[o.bySource[b]].sources
        <3>1. p.bySource[b] \in p.live /\ b \in p.sessions[p.bySource[b]].sources
            BY <1>7, <2>3 DEF Good, Linked
        <3>. QED
            BY <1>1, <1>2, <1>4, <1>7, <3>1
    <2>. QED
        BY <1>7, <2>1, <2>2, <2>3 DEF Good, Linked
<1>9. Agrees(o)
    <2>1. ASSUME NEW url \in Urls, o.ledger[url].owner # None
          PROVE  o.ledger[url].owner \in o.live /\ Has(o, o.ledger[url].owner, url)
        <3>1. p.ledger[url].owner \in p.live /\ Has(p, p.ledger[url].owner, url)
            BY <1>7, <2>1 DEF Good, Agrees
        <3>. QED
            BY <1>1, <1>2, <1>4, <1>7, <3>1 DEF Has
    <2>2. ASSUME NEW url \in Urls, NEW t \in o.live, o.sessions[t].urls[url] = "locked"
          PROVE  o.ledger[url] = [owner |-> t, locked |-> TRUE]
        <3>1. t # s /\ t \in p.live
            BY <1>2, <1>4, <1>6, <1>7, <2>2
        <3>2. p.sessions[t].urls[url] = "locked"
            BY <1>1, <1>4, <1>7, <2>2, <3>1
        <3>. QED
            BY <1>7, <3>1, <3>2 DEF Good, Agrees
    <2>. QED
        BY <2>1, <2>2 DEF Agrees
<1>10. Good(o) /\ s \in o.live
    BY <1>7, <1>8, <1>9 DEF Good
<1>11. ASSUME NEW q, Onward(o, q) PROVE Onward(p, q)
    BY <1>7, <1>11 DEF Onward, ByLock
<1>12. Open(p, e, src) = IF src \in Blobs THEN Bind(o, s, src)
                         ELSE IF src \in Urls THEN Attribute(o, s, src, FALSE) ELSE o
    BY DEF Open, o, s, x
<1>13. CASE src \in Blobs
    BY <1>10, <1>11, <1>12, <1>13, BindGoesOn
<1>14. CASE src \notin Blobs /\ src \in Urls
    <2>1. Open(p, e, src) = Attribute(o, s, src, FALSE)
        BY <1>12, <1>14
    <2>2. Onward(o, Attribute(o, s, src, FALSE))
        BY <1>10, <1>14, AttributeGoesOn
    <2>. QED
        BY <1>11, <2>1, <2>2
<1>15. CASE src \notin Blobs /\ src \notin Urls
    <2>1. Open(p, e, src) = o
        BY <1>12, <1>15
    <2>. QED
        BY <1>10, <1>11, <2>1, StayingGoesOn
<1>. QED
    BY <1>13, <1>14, <1>15

\* onMediaEmptied: the session goes with what it owned, and nothing else.
LEMMA EmptiedKeeps ==
    ASSUME NEW p, Good(p), NEW s \in p.live
    PROVE  LET q == Emptied(p, s) IN
           /\ Good(q) /\ q.live = p.live \ {s}
           /\ \A url \in Urls : q.ledger[url] = IF p.ledger[url].owner = s THEN NoEntry
                                                ELSE p.ledger[url]
           /\ \A t \in Ids : q.sessions[t].element = p.sessions[t].element
<1>. DEFINE q == Emptied(p, s)
            x == Released(p.sessions[s])
            f == [p.sessions EXCEPT ![s] = x]
            k == Release(p.ledger, s)
            d == p.sessions[s].element
            m == [b \in Blobs |-> IF b \in p.sessions[s].sources THEN None ELSE p.bySource[b]]
<1>1. p \in Page /\ p.live \subseteq Ids /\ s \in Ids /\ s # None
    BY LiveIds, IdsAreNumbers DEF Good, Linked
<1>2. p.sessions[s] \in Session /\ d \in Elements
    BY <1>1 DEF Page, Session
<1>3. /\ x \in Session /\ x.element = d /\ \A v \in Urls : x.urls[v] = "absent"
    BY <1>2, AttributionAssumption DEF Released, Session, Attribution
<1>4. f \in [Ids -> Session] /\ \A t \in Ids : f[t] = IF t = s THEN x ELSE p.sessions[t]
    BY <1>1, <1>3 DEF Page
<1>5. k \in [Urls -> Entry] /\ \A v \in Urls : k[v] = IF p.ledger[v].owner = s THEN NoEntry ELSE p.ledger[v]
    BY <1>1 DEF Page, Release, Entry, NoEntry
<1>6. m \in [Blobs -> Ids \cup {None}]
      /\ \A b \in Blobs : m[b] = IF b \in p.sessions[s].sources THEN None ELSE p.bySource[b]
    BY <1>1 DEF Page
<1>7. q = [p EXCEPT !.ledger = k, !.live = @ \ {s}, !.sessions = f, !.byElement = [@ EXCEPT ![d] = None],
                    !.bySource = m, !.lastBound = IF @ = s THEN None ELSE @]
    BY DEF Emptied
<1>. HIDE DEF q, x, f, k, m
<1>8. /\ q \in Page /\ q.live = p.live \ {s} /\ q.opened = p.opened /\ q.sessions = f
      /\ q.ledger = k /\ q.bySource = m
      /\ \A e \in Elements : q.byElement[e] = IF e = d THEN None ELSE p.byElement[e]
    BY <1>1, <1>2, <1>4, <1>5, <1>6, <1>7 DEF Page
<1>9. Linked(q)
    <2>1. q.live \subseteq 1..q.opened
        BY <1>8 DEF Good, Linked
    <2>2. ASSUME NEW e \in Elements, q.byElement[e] # None
          PROVE  q.byElement[e] \in q.live /\ q.sessions[q.byElement[e]].element = e
        <3>1. e # d /\ p.byElement[e] \in p.live /\ p.sessions[p.byElement[e]].element = e
            BY <1>8, <2>2 DEF Good, Linked
        <3>2. p.byElement[e] # s
            BY <3>1
        <3>. QED
            BY <1>1, <1>4, <1>8, <3>1, <3>2
    <2>3. ASSUME NEW b \in Blobs, q.bySource[b] # None
          PROVE  q.bySource[b] \in q.live /\ b \in q.sessions[q.bySource[b]].sources
        <3>1. b \notin p.sessions[s].sources /\ q.bySource[b] = p.bySource[b]
            BY <1>6, <1>8, <2>3
        <3>2. p.bySource[b] \in p.live /\ b \in p.sessions[p.bySource[b]].sources
            BY <2>3, <3>1 DEF Good, Linked
        <3>. QED
            BY <1>1, <1>4, <1>8, <3>1, <3>2
    <2>4. ASSUME NEW v \in Urls, q.ledger[v].locked PROVE q.ledger[v].owner # None
        <3>1. p.ledger[v].locked /\ q.ledger[v] = p.ledger[v]
            BY <1>5, <1>8, <2>4 DEF NoEntry
        <3>. QED
            BY <3>1 DEF Good, Linked
    <2>. QED
        BY <1>8, <2>1, <2>2, <2>3, <2>4 DEF Linked
<1>10. Agrees(q)
    <2>1. ASSUME NEW url \in Urls, q.ledger[url].owner # None
          PROVE  q.ledger[url].owner \in q.live /\ Has(q, q.ledger[url].owner, url)
        <3>1. p.ledger[url].owner # s /\ q.ledger[url] = p.ledger[url]
            BY <1>5, <1>8, <2>1 DEF NoEntry
        <3>2. p.ledger[url].owner \in p.live /\ Has(p, p.ledger[url].owner, url)
            BY <2>1, <3>1 DEF Good, Agrees
        <3>. QED
            BY <1>1, <1>4, <1>8, <3>1, <3>2 DEF Has
    <2>2. ASSUME NEW url \in Urls, NEW t \in q.live, q.sessions[t].urls[url] = "locked"
          PROVE  q.ledger[url] = [owner |-> t, locked |-> TRUE]
        <3>1. t # s /\ t \in p.live /\ p.sessions[t].urls[url] = "locked"
            BY <1>1, <1>4, <1>8, <2>2
        <3>2. p.ledger[url] = [owner |-> t, locked |-> TRUE]
            BY <3>1 DEF Good, Agrees
        <3>. QED
            BY <1>5, <1>8, <3>1, <3>2
    <2>. QED
        BY <2>1, <2>2 DEF Agrees
<1>. QED
    BY <1>3, <1>4, <1>5, <1>8, <1>9, <1>10 DEF Good, q

\* What the background knows of the page is shown, and claims nothing.
LEMMA CopiedGoesOn ==
    ASSUME NEW p, Good(p), NEW s, NEW urls
    PROVE  Onward(p, Copied(p, s, urls))
<1>1. CASE s \notin p.live
    BY <1>1, StayingGoesOn DEF Copied
<1>2. CASE s \in p.live
    <2>. DEFINE u == [v \in Urls |-> IF v \in urls /\ p.sessions[s].urls[v] = "absent"
                                     THEN "provisional" ELSE p.sessions[s].urls[v]]
                f == [p.sessions EXCEPT ![s].urls = u]
                q == [p EXCEPT !.sessions = f]
    <2>1. Copied(p, s, urls) = q
        BY <1>2 DEF Copied
    <2>2. p \in Page /\ p.live \subseteq Ids
        BY LiveIds DEF Good, Linked
    <2>3. u \in [Urls -> Attribution]
        BY <1>2, <2>2 DEF Page, Session, Attribution
    <2>4. \A v \in Urls : /\ u[v] = "absent" => p.sessions[s].urls[v] = "absent"
                          /\ u[v] = "locked" => p.sessions[s].urls[v] = "locked"
        OBVIOUS
    <2>. HIDE DEF u
    <2>5. /\ f \in [Ids -> Session]
          /\ \A t \in Ids : /\ f[t].element = p.sessions[t].element
                            /\ f[t].src = p.sessions[t].src
                            /\ f[t].sources = p.sessions[t].sources
                            /\ f[t].urls = IF t = s THEN u ELSE p.sessions[t].urls
        BY <1>2, <2>2, <2>3, ZenonT(30) DEF Page, Session
    <2>6. q \in Page /\ q.sessions = f /\ q.ledger = p.ledger /\ SameMaps(p, q)
        <3>. HIDE DEF f
        <3>. QED
            BY <2>2, <2>5, SessionsReplaced
    <2>. HIDE DEF f, q
    <2>7. SameSessions(p, q)
        BY <2>5, <2>6 DEF SameSessions
    <2>8. Linked(q)
        <3>1. \A v \in Urls : q.ledger[v].locked => q.ledger[v].owner # None
            BY <2>6 DEF Good, Linked
        <3>. QED
            BY <2>6, <2>7, <3>1, LinksStay DEF Good
    <2>9. Agrees(q)
        <3>1. q.live = p.live
            BY <2>6 DEF SameMaps
        <3>2. \A t \in Ids, v \in Urls :
                /\ q.sessions[t].urls[v] = "absent" => p.sessions[t].urls[v] = "absent"
                /\ q.sessions[t].urls[v] = "locked" => p.sessions[t].urls[v] = "locked"
            BY <2>4, <2>5, <2>6
        <3>. QED
            BY <2>2, <2>6, <3>1, <3>2 DEF Good, Agrees, Has
    <2>. QED
        BY <2>1, <2>6, <2>8, <2>9 DEF Onward, Good, ByLock, SameMaps
<1>. QED
    BY <1>1, <1>2

-----------------------------------------------------------------------------
(* The steps.                                                              *)

\* OwnershipMovesByLock, of one step.
OwnershipMoves ==
    \A url \in Urls :
        LET before == page.ledger[url]
            after == page'.ledger[url]
        IN  (before.owner # None /\ after # before) =>
               \/ after = NoEntry /\ before.owner \notin page'.live
               \/ ~before.locked /\ after.locked

\* WaitingClickIsHeard, of one step.
NoneIsLeft ==
    click'.stage = "waiting" /\ click'.session \notin page'.live =>
        click'.session = click.session /\ click.session \notin page.live

\* What is to be shown of a step.
Keeps == Inv' /\ OwnershipMoves /\ NoneIsLeft

\* A click that goes on is about the session it was about.
ClickGoesOn ==
    \/ click' \in {click, NoClick}
    \/ /\ click.stage # "idle"
       /\ \E stage \in {"waiting", "dispatching"} : click' = [click EXCEPT !.stage = stage]

\* A step that releases no session leaves the click with its own.
LEMMA StillHeard ==
    ASSUME Inv, Onward(page, page'), ClickGoesOn
    PROVE  Keeps
<1>1. Good(page') /\ page.live \subseteq page'.live
    BY DEF Onward
<1>2. Heard(click)
    BY DEF Inv
<1>3. Heard(click')
    <2>1. CASE click' = click
        BY <1>1, <1>2, <2>1 DEF Heard
    <2>2. CASE click' = NoClick
        BY <2>2 DEF Heard, Click, NoClick
    <2>3. ASSUME click.stage # "idle",
                 NEW stage \in {"waiting", "dispatching"}, click' = [click EXCEPT !.stage = stage]
          PROVE  Heard(click')
        BY <1>1, <1>2, <2>3 DEF Heard, Click
    <2>. QED
        BY <2>1, <2>2, <2>3 DEF ClickGoesOn
<1>4. NoneIsLeft
    BY <1>1, <1>2 DEF ClickGoesOn, NoneIsLeft, NoClick, Heard, Click
<1>. QED
    BY <1>1, <1>3, <1>4 DEF Inv, Onward, ByLock, OwnershipMoves, Keeps

LEMMA NotifyingGoesOn ==
    ASSUME NEW told, Notifies(told)
    PROVE  ClickGoesOn
BY DEF Notifies, ClickGoesOn, Dispatching

LEMMA InitInv == Init => Inv
<1>. SUFFICES ASSUME Init PROVE Inv
    OBVIOUS
<1>. DEFINE e0 == CHOOSE e \in Elements : TRUE
            x == [element |-> e0, src |-> NoUrl, urls |-> [url \in Urls |-> "absent"],
                  hints |-> {}, sources |-> {}]
<1>1. e0 \in Elements
    BY AttributionAssumption
<1>2. x \in Session
    <2>. HIDE DEF e0
    <2>. QED
        BY <1>1 DEF Session, Attribution
<1>3. page = [opened |-> 0, live |-> {}, sessions |-> [s \in Ids |-> x],
              byElement |-> [e \in Elements |-> None], bySource |-> [b \in Blobs |-> None],
              lastBound |-> None, known |-> {}, ledger |-> [url \in Urls |-> NoEntry],
              recent |-> <<>>]
    BY DEF Init
<1>. HIDE DEF x
<1>4. page \in Page
    BY <1>2, <1>3, AttributionAssumption DEF Page, Entry, NoEntry
<1>5. Linked(page)
    BY <1>3, <1>4 DEF Linked, NoEntry
<1>6. Agrees(page)
    BY <1>3 DEF Agrees, NoEntry
<1>7. Heard(click)
    BY DEF Init, Heard, NoClick, Click
<1>. QED
    BY <1>5, <1>6, <1>7 DEF Inv, Good

\* Every handler keeps the invariant and moves a URL as OwnershipMovesByLock says.
LEMMA NextInv == Inv /\ [Next]_vars => Keeps
<1>. SUFFICES ASSUME Inv, [Next]_vars PROVE Keeps
    OBVIOUS
<1>1. Good(page) /\ Heard(click) /\ page \in Page
    BY DEF Inv, Good, Linked
<1>2. \A e \in Elements : page.byElement[e] # None => page.byElement[e] \in page.live
    BY <1>1 DEF Good, Linked
<1>3. ASSUME NEW e \in Elements, NEW src \in Sources, LoadStart(e, src)
      PROVE  Keeps
    <2>1. Onward(page, page')
        BY <1>1, <1>3, OpenGoesOn DEF LoadStart, Moves
    <2>2. ClickGoesOn
        BY <1>3, NotifyingGoesOn DEF LoadStart, Moves
    <2>. QED
        BY <2>1, <2>2, StillHeard
<1>4. ASSUME NEW e \in Elements, LoadedMetadata(e)
      PROVE  Keeps
    <2>1. Onward(page, page')
        BY <1>1, <1>2, <1>4, BindGoesOn DEF LoadedMetadata
    <2>2. ClickGoesOn
        BY <1>4, NotifyingGoesOn DEF LoadedMetadata
    <2>. QED
        BY <2>1, <2>2, StillHeard
<1>5. ASSUME NEW e \in Elements, MediaEmptied(e)
      PROVE  Keeps
    <2>. DEFINE s == page.byElement[e]
    <2>1. s \in page.live /\ page.sessions[s].element = e /\ page' = Emptied(page, s)
        BY <1>1, <1>5 DEF MediaEmptied, Good, Linked
    <2>2. /\ Good(page') /\ page'.live = page.live \ {s}
          /\ \A url \in Urls : page'.ledger[url] = IF page.ledger[url].owner = s THEN NoEntry
                                                   ELSE page.ledger[url]
        <3>. HIDE DEF s
        <3>. QED
            BY <1>1, <2>1, EmptiedKeeps
    <2>3. OwnershipMoves
        <3>. HIDE DEF s
        <3>. QED
            BY <2>2 DEF OwnershipMoves
    <2>4. click' = IF click.stage = "waiting" /\ ElementOf(click.session) = e THEN NoClick ELSE click
        BY <1>5 DEF MediaEmptied
    <2>5. Heard(click')
        BY <1>1, <2>4 DEF Heard, Click, NoClick
    <2>6. NoneIsLeft
        <3>. HIDE DEF s
        <3>1. SUFFICES ASSUME click'.stage = "waiting", click'.session \notin page'.live
                       PROVE  click'.session = click.session /\ click.session \notin page.live
            BY DEF NoneIsLeft
        <3>2. click' = click /\ ElementOf(click.session) # e
            BY <2>4, <3>1 DEF NoClick
        <3>3. click.session # s
            BY <2>1, <3>2 DEF ElementOf
        <3>. QED
            BY <2>2, <3>1, <3>2, <3>3
    <2>. QED
        BY <2>2, <2>3, <2>5, <2>6 DEF Inv, Keeps
<1>6. ASSUME NEW blob \in Blobs, ObjectUrl(blob)
      PROVE  Keeps
    <2>. DEFINE p == [page EXCEPT !.known = @ \cup {blob}]
    <2>1. /\ p \in Page /\ p.live = page.live /\ p.opened = page.opened /\ p.ledger = page.ledger
          /\ p.sessions = page.sessions /\ p.byElement = page.byElement /\ p.bySource = page.bySource
        BY <1>1 DEF Page
    <2>2. page' = BoundPlayers(p, blob)
        BY <1>6 DEF ObjectUrl, Moves
    <2>. HIDE DEF p
    <2>3. Good(p)
        BY <1>1, <2>1 DEF Good, Linked, Agrees, Has
    <2>4. Onward(p, page')
        BY <2>2, <2>3, BoundPlayersGoOn
    <2>5. Onward(page, page')
        BY <2>1, <2>4 DEF Onward, ByLock
    <2>6. ClickGoesOn
        BY <1>6, NotifyingGoesOn DEF ObjectUrl, Moves
    <2>. QED
        BY <2>5, <2>6, StillHeard
<1>7. ASSUME NEW blob \in Blobs, BufferAppended(blob)
      PROVE  Keeps
    <2>. DEFINE s == page.bySource[blob]
                recent == page.recent
                fitting(oldest) == {i \in oldest..Len(recent) : MayBeOf(page, s, recent[i])}
                found(oldest) == CHOOSE j \in fitting(oldest) : \A k \in fitting(oldest) : k <= j
    <2>1. s \in page.live
        BY <1>1, <1>7 DEF BufferAppended, Good, Linked
    <2>2. PICK oldest \in 1..Len(recent) :
             /\ fitting(oldest) # {}
             /\ page' = BoundByBuffer([page EXCEPT !.recent = Without(@, found(oldest))], s,
                                      recent[found(oldest)])
             /\ \E told : Notifies(told)
        BY <1>7 DEF BufferAppended
    <2>. DEFINE T == fitting(oldest)
                i == found(oldest)
    <2>3. recent \in Seq(Urls) /\ Len(recent) \in Nat
        BY <1>1 DEF Page
    <2>4. T \subseteq 0..Len(recent)
        BY <2>3
    <2>5. i \in T
        <3>1. \E j \in T : \A k \in T : k <= j
            <4>. HIDE DEF T
            <4>. QED
                BY <2>2, <2>3, <2>4, HasGreatest DEF T
        <3>. QED
            BY <3>1
    <2>6. i \in 1..Len(recent) /\ ~page.ledger[recent[i]].locked /\ recent[i] \in Urls
        <3>1. i \in oldest..Len(recent) /\ MayBeOf(page, s, recent[i])
            BY <2>5
        <3>. HIDE DEF i
        <3>. QED
            BY <2>3, <3>1 DEF MayBeOf
    <2>. DEFINE rest == Without(recent, i)
                q == [page EXCEPT !.recent = rest]
                url == recent[i]
    <2>7. page' = BoundByBuffer(q, s, url) /\ url \in Urls
        BY <2>2, <2>6
    <2>8. rest \in Seq(Urls)
        <3>. HIDE DEF i
        <3>1. SubSeq(recent, 1, i - 1) \in Seq(Urls) /\ SubSeq(recent, i + 1, Len(recent)) \in Seq(Urls)
            BY <2>3, <2>6
        <3>. QED
            BY <3>1 DEF Without
    <2>9. Onward(page, q) /\ q.live = page.live /\ q.ledger = page.ledger
        <3>. HIDE DEF rest
        <3>. QED
            BY <1>1, <2>8, RecentGoesOn
    <2>. HIDE DEF q, i, s, url, T
    <2>10. Onward(q, page')
        <3>1. Good(q) /\ s \in q.live /\ ~q.ledger[url].locked
            BY <2>1, <2>6, <2>9 DEF Onward, url
        <3>. QED
            BY <2>7, <3>1, BoundByBufferGoesOn
    <2>11. Onward(page, page')
        BY <2>9, <2>10 DEF Onward, ByLock
    <2>12. ClickGoesOn
        BY <2>2, NotifyingGoesOn
    <2>. QED
        BY <2>11, <2>12, StillHeard
<1>8. ASSUME NEW blob \in Blobs, TrackLearned(blob)
      PROVE  Keeps
    <2>1. Onward(page, page')
        BY <1>1, <1>8, StayingGoesOn DEF TrackLearned
    <2>2. ClickGoesOn
        BY <1>8, NotifyingGoesOn DEF TrackLearned
    <2>. QED
        BY <2>1, <2>2, StillHeard
<1>9. ASSUME NEW url \in Urls, RequestCompleted(url)
      PROVE  Keeps
    <2>. DEFINE q == RecordFetch(page, url)
    <2>1. Onward(page, q) /\ q.live = page.live /\ q.ledger = page.ledger
        BY <1>1, RecordFetchGoesOn
    <2>2. page' = AttributeFetch(q, url)
        BY <1>9 DEF RequestCompleted, Moves
    <2>. HIDE DEF q
    <2>3. Onward(q, page')
        BY <2>1, <2>2, AttributeFetchGoesOn DEF Onward
    <2>4. Onward(page, page')
        BY <2>1, <2>3 DEF Onward, ByLock
    <2>5. ClickGoesOn
        BY <1>9, NotifyingGoesOn DEF RequestCompleted, Moves
    <2>. QED
        BY <2>4, <2>5, StillHeard
<1>10. ASSUME NEW url \in Urls, ResourceTiming(url)
       PROVE  Keeps
    <2>1. Onward(page, page')
        BY <1>1, <1>10, AttributeFetchGoesOn DEF ResourceTiming, Moves
    <2>2. ClickGoesOn
        BY <1>10, NotifyingGoesOn DEF ResourceTiming, Moves
    <2>. QED
        BY <2>1, <2>2, StillHeard
<1>11. ASSUME NEW url \in Urls, StreamDetected(url)
       PROVE  Keeps
    <2>1. Onward(page, page')
        BY <1>1, <1>11, GuessGoesOn DEF StreamDetected
    <2>2. ClickGoesOn
        BY <1>11, NotifyingGoesOn DEF StreamDetected
    <2>. QED
        BY <2>1, <2>2, StillHeard
<1>12. ASSUME NEW e \in Elements, ClickDownload(e)
       PROVE  Keeps
    <2>1. page' = page
        BY <1>12 DEF ClickDownload
    <2>2. PICK stage \in {"fetching", "waiting", "dispatching"} :
             click' = [stage |-> stage, session |-> page.byElement[e]]
        BY <1>12 DEF ClickDownload
    <2>3. page.byElement[e] \in page.live /\ page.byElement[e] \in Ids /\ page.byElement[e] # None
        BY <1>1, <1>2, <1>12, LiveIds DEF ClickDownload, Good
    <2>4. Heard(click')
        BY <2>1, <2>2, <2>3 DEF Heard, Click
    <2>5. NoneIsLeft
        BY <2>1, <2>2, <2>3 DEF NoneIsLeft
    <2>. QED
        BY <1>1, <2>1, <2>4, <2>5 DEF Inv, OwnershipMoves, Keeps
<1>13. ASSUME BackgroundAnswers
       PROVE  Keeps
    <2>1. PICK urls \in SUBSET Urls : Selects(Copied(page, click.session, urls))
        BY <1>13 DEF BackgroundAnswers
    <2>2. Onward(page, page')
        BY <1>1, <2>1, CopiedGoesOn DEF Selects
    <2>3. ClickGoesOn
        BY <1>13, <2>1 DEF BackgroundAnswers, Selects, Dispatching, ClickGoesOn
    <2>. QED
        BY <2>2, <2>3, StillHeard
<1>14. ASSUME WaitTimesOut \/ Dispatched \/ UNCHANGED vars
       PROVE  Keeps
    <2>1. page' = page /\ click' \in {click, NoClick}
        BY <1>14 DEF WaitTimesOut, Dispatched, vars
    <2>2. Onward(page, page') /\ ClickGoesOn
        BY <1>1, <2>1, StayingGoesOn DEF ClickGoesOn
    <2>. QED
        BY <2>2, StillHeard
<1>. QED
    BY <1>3, <1>4, <1>5, <1>6, <1>7, <1>8, <1>9, <1>10, <1>11, <1>12, <1>13, <1>14
       DEF Next, Media, Clicking

-----------------------------------------------------------------------------
(* The theorems.                                                           *)

LEMMA InvIsInvariant == Spec => []Inv
<1>1. Inv /\ [Next]_vars => Inv'
    BY NextInv DEF Keeps
<1>. QED
    BY InitInv, <1>1, PTL DEF Spec

\* The page, its sessions, the ledger and the click have their types.
THEOREM TypeCorrect == Spec => []TypeOK
<1>1. Inv => TypeOK
    BY DEF Inv, TypeOK, Good, Linked, Heard
<1>. QED
    BY InvIsInvariant, <1>1, PTL

\* On any page, however its elements load, fetch, append and are emptied: the
\* ledger and the sessions agree on who owns a URL.
THEOREM LedgerAlwaysAgrees == Spec => []LedgerAgrees
<1>1. Inv => LedgerAgrees
    BY DEF Inv, LedgerAgrees, Good, Agrees
<1>. QED
    BY InvIsInvariant, <1>1, PTL

\* Whatever the page and the background do, the release of a session leaves no click
\* waiting for it.
THEOREM ClicksAreHeard == Spec => WaitingClickIsHeard
<1>1. Inv /\ [Next]_vars => [NoneIsLeft]_vars
    BY NextInv DEF Keeps
<1>. QED
    BY InvIsInvariant, <1>1, PTL DEF Spec, WaitingClickIsHeard, NoneIsLeft

\* A URL leaves its owner only for one whose MediaSource got its bytes, or when
\* its owner goes.
THEOREM OwnershipIsMovedByLocking == Spec => OwnershipMovesByLock
<1>1. Inv /\ [Next]_vars => [OwnershipMoves]_vars
    BY NextInv DEF Keeps
<1>2. ASSUME OwnershipMoves
      PROVE  \A url \in Urls :
                LET before == page.ledger[url]
                    after == page'.ledger[url]
                IN  (before.owner # None /\ after # before) =>
                       \/ after = NoEntry /\ before.owner \notin page'.live
                       \/ ~before.locked /\ after.locked
    BY <1>2 DEF OwnershipMoves
<1>. QED
    BY InvIsInvariant, <1>1, <1>2, PTL DEF Spec, OwnershipMovesByLock, OwnershipMoves
=============================================================================
