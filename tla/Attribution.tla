----------------------------- MODULE Attribution -----------------------------
(***************************************************************************)
(* page-media/attribution of the browser extension: which <video> of a     *)
(* page a fetched URL belongs to, and what a click on a video waits for.   *)
(*                                                                         *)
(* Each load of an element is a Video Session.  A URL is given to a        *)
(* session by guess (provisional) and locked to the one whose MediaSource  *)
(* got the bytes.  The ledger is the arbiter; the attributedUrls of the    *)
(* sessions are kept beside it and must agree with it.                     *)
(*                                                                         *)
(* The handlers of a page run one at a time, so each is a step, written as *)
(* a function on the state of MediaAttribution.  Which media a site's      *)
(* strategy selects is left open, and so are the parts of a URL that       *)
(* identify its video: they are a constant here.                           *)
(*                                                                         *)
(* An operator whose comment starts with "Faulty" is no part of the model: *)
(* it is a variant of the next one with a plausible mistake, kept to see   *)
(* that the properties notice it.                                          *)
(***************************************************************************)
EXTENDS Naturals, Sequences

CONSTANTS
    Elements,     \* the media elements of the page
    Blobs,        \* object URLs, each of one MediaSource
    Urls,         \* media the page may fetch
    NoUrl,        \* the source of an element that plays a MediaStream
    Sources,      \* what the elements of the page play
    Hints,        \* video ids that URLs and posters contain
    UrlHints,     \* urlIdHints of a URL
    PosterHints,  \* urlIdHints of the poster of an element
    MaxSessions,  \* bound: sessions opened on the page
    FetchesCap    \* RECENT_FETCHES_CAP

ASSUME AttributionAssumption ==
    /\ UrlHints \in [Urls -> SUBSET Hints] /\ PosterHints \in [Elements -> SUBSET Hints]
    /\ Elements # {} /\ NoUrl \notin Urls \cup Blobs /\ Urls \cap Blobs = {}
    /\ Sources \subseteq Urls \cup Blobs \cup {NoUrl}
    /\ MaxSessions \in Nat \ {0} /\ FetchesCap \in Nat \ {0}

VARIABLES
    page,   \* the maps of MediaAttribution
    click   \* the download the user asked for, if any; there is one at a time

vars == <<page, click>>

Ids == 1..MaxSessions
None == 0  \* no session

\* attributedUrls, with what is said of lockedByMse.
Attribution == {"absent", "provisional", "locked"}

Session == [element : Elements, src : Sources \cup {NoUrl},
            urls : [Urls -> Attribution], hints : SUBSET Hints, sources : SUBSET Blobs]

Entry == [owner : Ids \cup {None}, locked : BOOLEAN]
NoEntry == [owner |-> None, locked |-> FALSE]

\* sessionsById is the sessions in `live`; byElement, bySource and lastBound are
\* sessionsByElement, sessionByMediaSourceId and lastBoundSession, known is
\* mediaSourceIdByObjectUrl, recent is recentFetches.
Page == [opened : 0..MaxSessions, live : SUBSET Ids, sessions : [Ids -> Session],
         byElement : [Elements -> Ids \cup {None}], bySource : [Blobs -> Ids \cup {None}],
         lastBound : Ids \cup {None}, known : SUBSET Blobs,
         ledger : [Urls -> Entry], recent : Seq(Urls)]

Has(p, s, url) == p.sessions[s].urls[url] # "absent"

HintsOf(urls) == UNION {UrlHints[url] : url \in urls}

Meets(s, t) == s \cap t # {}

---------------------------------------------------------------------------
(* attribution-ledger.ts. *)

\* claim, by a session whose MediaSource got the bytes, or by guess.
Claim(ledger, url, s, locked) ==
    IF ledger[url].locked \/ (ledger[url].owner # None /\ ~locked) THEN ledger
    ELSE [ledger EXCEPT ![url] = [owner |-> s, locked |-> locked]]

\* Faulty: URLs that are locked are reclaimed too.
ReclaimedAlsoLocked(ledger, s, hints) ==
    {url \in Urls : ledger[url].owner \notin {None, s} /\ Meets(UrlHints[url], hints)}

\* The URLs that reclaimUrls moves to a session.
Reclaimed(ledger, s, hints) ==
    {url \in Urls : ~ledger[url].locked /\ ledger[url].owner \notin {None, s}
                    /\ Meets(UrlHints[url], hints)}

\* lockAllFor, after reclaimUrls.
LockAllFor(ledger, s, reclaimed) ==
    [url \in Urls |-> IF url \in reclaimed \/ ledger[url].owner = s
                      THEN [owner |-> s, locked |-> TRUE] ELSE ledger[url]]

Release(ledger, s) ==
    [url \in Urls |-> IF ledger[url].owner = s THEN NoEntry ELSE ledger[url]]

---------------------------------------------------------------------------
(* attribution.ts. *)

\* The session that handoffUrl takes a URL from: the first other one that has it.
Holder(p, s, url) ==
    LET others == {t \in p.live \ {s} : Has(p, t, url)}
    IN  IF others = {} THEN None ELSE CHOOSE t \in others : \A u \in others : t <= u

\* A session that URLs are handed to, and one that lost some: it keeps only the
\* hints of what is locked to it.
Gains(session, urls) ==
    [session EXCEPT !.hints = @ \cup HintsOf(urls),
                    !.urls = [url \in Urls |-> IF url \in urls THEN "locked" ELSE @[url]]]

Loses(session, urls) ==
    LET kept == [url \in Urls |-> IF url \in urls THEN "absent" ELSE session.urls[url]]
    IN  [session EXCEPT !.urls = kept, !.hints = HintsOf({url \in Urls : kept[url] = "locked"})]

\* handoffUrl for each of some URLs.
HandOff(p, urls, s) ==
    LET lost(t) == {url \in urls : Holder(p, s, url) = t}
    IN  [p EXCEPT !.sessions = [t \in Ids |-> IF t = s THEN Gains(@[t], urls)
                                              ELSE IF lost(t) = {} THEN @[t]
                                              ELSE Loses(@[t], lost(t))]]

\* bindBlobToMediaSource.
Bind(p, s, src) ==
    IF src \notin p.known \/ src \in p.sessions[s].sources THEN p
    ELSE LET reclaimed == Reclaimed(p.ledger, s, p.sessions[s].hints)
         IN  HandOff([p EXCEPT !.sessions[s].sources = @ \cup {src}, !.bySource[src] = s,
                               !.lastBound = s, !.ledger = LockAllFor(@, s, reclaimed)],
                     reclaimed, s)

\* recordAttribution; the guess by a hint is tier 1.
Shows(session, url, byHint, locked) ==
    [session EXCEPT !.urls[url] = IF locked THEN "locked" ELSE "provisional",
                    !.hints = IF locked \/ byHint THEN @ \cup UrlHints[url] ELSE @]

Record(p, s, url, byHint, locked) == [p EXCEPT !.sessions[s] = Shows(@, url, byHint, locked)]

\* attribute, which is only called with locked = false.
Attribute(p, s, url, byHint) ==
    LET claimed == [p EXCEPT !.ledger = Claim(@, url, s, FALSE)]
        owner == claimed.ledger[url].owner
    IN  IF owner \notin p.live \/ Has(p, owner, url) THEN claimed
        ELSE Record(claimed, owner, url, byHint, owner # s)

\* pickSessionAndTier: the sessions that may be picked, in the order of opening.
ByHint(p, url) == {s \in p.live : Meets(p.sessions[s].hints, UrlHints[url])}

Picked(p, url) ==
    IF ByHint(p, url) # {} THEN CHOOSE s \in ByHint(p, url) : \A t \in ByHint(p, url) : s <= t
    ELSE IF p.lastBound \in p.live THEN p.lastBound
    ELSE IF \E s \in Ids : p.live = {s} THEN CHOOSE s \in Ids : p.live = {s}
    ELSE None

Guess(p, url) ==
    LET s == Picked(p, url)
    IN  IF s = None \/ Has(p, s, url) THEN p ELSE Attribute(p, s, url, ByHint(p, url) # {})

\* attributeFetch.
AttributeFetch(p, url) ==
    LET owner == p.ledger[url].owner
    IN  IF ~p.ledger[url].locked THEN Guess(p, url)
        ELSE IF owner \notin p.live \/ Has(p, owner, url) THEN p
        ELSE Record(p, owner, url, FALSE, TRUE)

\* recordFetch.
RecordFetch(p, url) ==
    [p EXCEPT !.recent =
        IF Len(@) < FetchesCap THEN Append(@, url) ELSE Append(Tail(@), url)]

\* The recent fetches when one of them was found.
Without(recent, i) == SubSeq(recent, 1, i - 1) \o SubSeq(recent, i + 1, Len(recent))

\* attributeBufferAppend: a recent fetch that may be what this session appended.
MayBeOf(p, s, url) ==
    /\ ~p.ledger[url].locked
    /\ \/ UrlHints[url] = {} \/ p.sessions[s].hints = {}
       \/ Meets(UrlHints[url], p.sessions[s].hints)

\* Faulty: the claim of the session does not lock the URL.
BoundUnlocked(p, s, url) ==
    LET claimed == [p EXCEPT !.ledger = Claim(@, url, s, FALSE)]
    IN  IF ~Has(p, s, url) THEN HandOff(claimed, {url}, s)
        ELSE Record(claimed, s, url, FALSE, TRUE)

\* The rest of attributeBufferAppend for the URL it found.
BoundByBuffer(p, s, url) ==
    LET claimed == [p EXCEPT !.ledger = Claim(@, url, s, TRUE)]
    IN  IF ~Has(p, s, url) THEN HandOff(claimed, {url}, s)
        ELSE Record(claimed, s, url, FALSE, TRUE)

\* openSessionFor.
Open(p, e, src) ==
    LET s == p.opened + 1
        opened == [p EXCEPT !.opened = s, !.live = @ \cup {s}, !.byElement[e] = s,
                            !.sessions[s] = [element |-> e, src |-> src, hints |-> PosterHints[e],
                                             urls |-> [url \in Urls |-> "absent"], sources |-> {}]]
    IN  IF src \in Blobs THEN Bind(opened, s, src)
        ELSE IF src \in Urls THEN Attribute(opened, s, src, FALSE)
        ELSE opened

\* What is left of a session that is released: nobody asks what it had.
Released(session) ==
    [session EXCEPT !.src = NoUrl, !.urls = [url \in Urls |-> "absent"], !.hints = {}, !.sources = {}]

\* onMediaEmptied.
Emptied(p, s) ==
    [p EXCEPT !.ledger = Release(@, s), !.live = @ \ {s}, !.sessions[s] = Released(@),
              !.byElement[p.sessions[s].element] = None,
              !.bySource = [b \in Blobs |-> IF b \in p.sessions[s].sources THEN None ELSE @[b]],
              !.lastBound = IF @ = s THEN None ELSE @]

\* fetchUrlsFromBackground: copies that the ledger knows nothing of.
Copied(p, s, urls) ==
    IF s \notin p.live THEN p
    ELSE [p EXCEPT !.sessions[s].urls =
             [url \in Urls |-> IF url \in urls /\ @[url] = "absent" THEN "provisional" ELSE @[url]]]

---------------------------------------------------------------------------
(* The click: downloadMedia of media-button.ts with selectMediaForElement.
   "fetching" and "dispatching" are its awaits, "waiting" that it has its
   listener in selectionListenerByElement. *)

NoClick == [stage |-> "idle", session |-> None]

Click == [stage : {"idle", "fetching", "waiting", "dispatching"}, session : Ids \cup {None}]

Dispatching == [click EXCEPT !.stage = "dispatching"]

ElementOf(s) == page.sessions[s].element

\* The sessions to which a URL was attributed or handed off.
Gained(p) ==
    {s \in p.live : \E url \in Urls : Has(p, s, url)
                        /\ (s \notin page.live \/ p.sessions[s].urls[url] # page.sessions[s].urls[url])}

\* notifyResolveListener for some sessions: the strategy of the site is asked
\* again, and selects, refuses, or lets the click wait on.
Notifies(told) ==
    IF click.stage = "waiting" /\ \E s \in told : ElementOf(s) = ElementOf(click.session)
    THEN click' \in {click, Dispatching, NoClick}
    ELSE UNCHANGED click

Moves(p) == page' = p /\ Notifies(Gained(p))

Init ==
    /\ page = [opened |-> 0, live |-> {},
               sessions |-> [s \in Ids |-> [element |-> CHOOSE e \in Elements : TRUE,
                   src |-> NoUrl, urls |-> [url \in Urls |-> "absent"], hints |-> {}, sources |-> {}]],
               byElement |-> [e \in Elements |-> None], bySource |-> [b \in Blobs |-> None],
               lastBound |-> None, known |-> {}, ledger |-> [url \in Urls |-> NoEntry],
               recent |-> <<>>]
    /\ click = NoClick

\* trackMediaElement and onMediaLoadStart.
LoadStart(e, src) ==
    /\ page.opened < MaxSessions
    /\ page.byElement[e] # None => page.sessions[page.byElement[e]].src # src
    /\ Moves(Open(page, e, src))

\* A session that loads has been opened at its loadstart.
LoadedMetadata(e) ==
    LET s == page.byElement[e]
    IN  /\ s # None
        /\ page' = Bind(page, s, page.sessions[s].src)
        /\ Notifies({s})

\* Faulty: the click is left waiting.
MediaEmptiedSilently(e) ==
    LET s == page.byElement[e]
    IN  /\ s # None
        /\ page' = Emptied(page, s)
        /\ UNCHANGED click

MediaEmptied(e) ==
    LET s == page.byElement[e]
    IN  /\ s # None
        /\ page' = Emptied(page, s)
        /\ click' = IF click.stage = "waiting" /\ ElementOf(click.session) = e THEN NoClick
                    ELSE click

\* mse_objecturl; sessions that play the blob may be open already, and are bound
\* in the order of opening.
BoundPlayers(p, blob) ==
    LET players == {s \in p.live : p.sessions[s].src = blob}
        bound[s \in 0..MaxSessions] ==
            IF s = 0 THEN p ELSE IF s \in players THEN Bind(bound[s - 1], s, blob) ELSE bound[s - 1]
    IN  bound[MaxSessions]

ObjectUrl(blob) == Moves(BoundPlayers([page EXCEPT !.known = @ \cup {blob}], blob))

RequestCompleted(url) == Moves(AttributeFetch(RecordFetch(page, url), url))

\* onResourceTimingEntries.
ResourceTiming(url) == Moves(AttributeFetch(page, url))

\* stream_detected, which also marks what the owner, or else the session that
\* was picked, has of the URL.
StreamDetected(url) ==
    LET s == Picked(page, url)
        owner == page'.ledger[url].owner
        told == {IF owner \in page.live THEN owner ELSE s}
    IN  /\ s # None
        /\ page' = Guess(page, url)
        /\ Notifies({t \in told : Has(page', t, url)})

\* mse_buffer_appended; entries older than the correlation window are left alone.
BufferAppended(blob) ==
    LET s == page.bySource[blob]
        recent == page.recent
    IN  /\ s # None
        /\ \E oldest \in 1..Len(recent) :
             LET fitting == {i \in oldest..Len(recent) : MayBeOf(page, s, recent[i])}
                 i == CHOOSE j \in fitting : \A k \in fitting : k <= j
             IN  /\ fitting # {}
                 /\ page' = BoundByBuffer([page EXCEPT !.recent = Without(@, i)], s, recent[i])
                 /\ Notifies({t \in {s} : ~Has(page, t, recent[i])})

\* mse_source_buffer_added and mse_buffer_matched.
TrackLearned(blob) ==
    page.bySource[blob] # None /\ Notifies({page.bySource[blob]}) /\ UNCHANGED page

Selects(p) ==
    click' \in {Dispatching, NoClick, [click EXCEPT !.stage = "waiting"]} /\ page' = p

ClickDownload(e) ==
    /\ click.stage = "idle" /\ page.byElement[e] # None
    /\ LET asked == [stage |-> "fetching", session |-> page.byElement[e]]
       IN  \/ click' = asked
           \* A stream is known already.
           \/ /\ \E url \in Urls : Has(page, page.byElement[e], url)
              /\ click' \in {[asked EXCEPT !.stage = stage] : stage \in {"waiting", "dispatching"}}
    /\ UNCHANGED page

BackgroundAnswers ==
    /\ click.stage = "fetching"
    /\ \E urls \in SUBSET Urls : Selects(Copied(page, click.session, urls))

WaitTimesOut == click.stage = "waiting" /\ click' = NoClick /\ UNCHANGED page

Dispatched == click.stage = "dispatching" /\ click' = NoClick /\ UNCHANGED page

Media ==
    \/ \E e \in Elements : \/ \E src \in Sources : LoadStart(e, src)
                           \/ LoadedMetadata(e) \/ MediaEmptied(e)
    \/ \E blob \in Blobs : ObjectUrl(blob) \/ BufferAppended(blob) \/ TrackLearned(blob)
    \/ \E url \in Urls : RequestCompleted(url) \/ ResourceTiming(url) \/ StreamDetected(url)

Clicking ==
    \/ \E e \in Elements : ClickDownload(e)
    \/ BackgroundAnswers \/ WaitTimesOut \/ Dispatched

Next == Media \/ Clicking

Spec == Init /\ [][Next]_vars

---------------------------------------------------------------------------
(* Properties. *)

\* The memory of the page has its types.
TypeOK == page \in Page /\ click \in Click

\* The ledger and the sessions agree: who owns a URL is a session of the page
\* that has it, and a URL locked in a session is locked to it in the ledger, so
\* that no two videos claim the same bytes as theirs.
LedgerAgrees ==
    \A url \in Urls :
        /\ page.ledger[url].owner # None =>
              page.ledger[url].owner \in page.live /\ Has(page, page.ledger[url].owner, url)
        /\ \A s \in page.live : page.sessions[s].urls[url] = "locked" =>
              page.ledger[url] = [owner |-> s, locked |-> TRUE]

\* A URL changes its owner only when it is locked to another session, and one
\* that is locked stays where it is, until its session is released.
OwnershipMovesByLock ==
    [][\A url \in Urls :
          LET before == page.ledger[url]
              after == page'.ledger[url]
          IN  (before.owner # None /\ after # before) =>
                 \/ after = NoEntry /\ before.owner \notin page'.live
                 \/ ~before.locked /\ after.locked]_vars

\* No release leaves a click waiting, for eight seconds, on the session it released:
\* one that waits on a session that is gone has begun to after it went.
WaitingClickIsHeard ==
    [][click'.stage = "waiting" /\ click'.session \notin page'.live =>
          click'.session = click.session /\ click.session \notin page.live]_vars
=============================================================================
