------------------------- MODULE MeetingSetupProofs -------------------------
(***************************************************************************)
(* What holds of MeetingSetup for all meeting links, passwords and pages,  *)
(* proved: the links survive the parsers, nothing is left open, and the    *)
(* two states keep the contract that BotMachine keeps as well.             *)
(***************************************************************************)
EXTENDS MeetingSetup, TLAPS

USE NoneAssumption, GivenAssumption

-----------------------------------------------------------------------------
(* The parsers *)

LinkRecords == [spelling : Spellings, host : Hosts, path : Paths,
                code : Codes \union {None}, p : Passwords \union {None},
                anon : BOOLEAN, inner : Wrapped \union {None}]

\* An address is a link again, of the kind that its parser accepts.
LEMMA PlainIsLink ==
    ASSUME NEW u \in Links, u.host = "meet"
    PROVE  Plain(u) \in Links /\ Plain(Plain(u)) = Plain(u)
<1>1. u \in LinkRecords
    BY DEF Links, LinkRecords
<1>2. Plain(u) \in LinkRecords
    BY <1>1 DEF Plain, LinkRecords, Spellings
<1>3. \A f \in {"host", "path", "code", "p", "anon", "inner"} : Plain(u)[f] = u[f]
    BY <1>1 DEF Plain, LinkRecords
<1>4. Plain(u).spelling = "plain"
    BY <1>1 DEF Plain, LinkRecords
<1>5. Plain(u) \in Links
    BY <1>2, <1>3, <1>4 DEF Links, LinkRecords
<1>6. Plain(Plain(u)) = Plain(u)
    BY <1>1 DEF Plain, LinkRecords
<1> QED BY <1>5, <1>6

\* Google Meet: the address is the link without its decoration.
LEMMA MeetInfo ==
    ASSUME NEW u \in Links
    PROVE  /\ MeetParseURL(u) \in {Invalid} \union [link : Links, password : {None}]
           /\ MeetParseURL(u) # Invalid =>
                  /\ MeetParseURL(u) = Info(Plain(u), None)
                  /\ u.host = "meet" /\ u.path = "code" /\ u.code # None
BY PlainIsLink DEF MeetParseURL, Info

\* What the registry returns is what the page driver is given.
LEMMA ParsedInfo ==
    ASSUME NEW u \in Links
    PROVE  ParseURL(u).info \in {Invalid} \union [link : Links, password : {None}]
BY MeetInfo DEF ParseURL, Parsed

\* What the two changes of a link's fields leave.
LEMMA LinkChanges ==
    ASSUME NEW u \in LinkRecords
    PROVE  /\ Plain(u) = [spelling |-> "plain", host |-> u.host, path |-> u.path,
                          code |-> u.code, p |-> u.p, anon |-> u.anon, inner |-> u.inner]
           /\ AppendAnonParam(u) = [spelling |-> u.spelling, host |-> u.host,
                                    path |-> u.path, code |-> u.code, p |-> u.p,
                                    anon |-> TRUE, inner |-> u.inner]
           /\ Plain(u) \in LinkRecords
           /\ AppendAnonParam(u) \in LinkRecords
           /\ u.spelling = "plain" => Plain(u) = u
           /\ u.anon = TRUE => AppendAnonParam(u) = u
<1> USE DEF LinkRecords
<1>1. /\ Plain(u) = [spelling |-> "plain", host |-> u.host, path |-> u.path,
                     code |-> u.code, p |-> u.p, anon |-> u.anon, inner |-> u.inner]
      /\ u.spelling = "plain" => Plain(u) = u
  BY DEF Plain
<1>2. /\ AppendAnonParam(u) = [spelling |-> u.spelling, host |-> u.host,
                               path |-> u.path, code |-> u.code, p |-> u.p,
                               anon |-> TRUE, inner |-> u.inner]
      /\ u.anon = TRUE => AppendAnonParam(u) = u
  <2> DEFINE w == [u EXCEPT !.anon = TRUE]
  <2>1. /\ w.spelling = u.spelling /\ w.host = u.host /\ w.path = u.path
        /\ w.code = u.code /\ w.p = u.p /\ w.inner = u.inner
    OBVIOUS
  <2>2. w.anon = TRUE
    OBVIOUS
  <2>3. w \in LinkRecords
    OBVIOUS
  <2> HIDE DEF w
  <2>4. w = [spelling |-> u.spelling, host |-> u.host, path |-> u.path, code |-> u.code,
             p |-> u.p, anon |-> TRUE, inner |-> u.inner]
    BY <2>1, <2>2, <2>3
  <2>5. u.anon = TRUE => w = u
    BY <2>1, <2>2, <2>3
  <2>6. QED
    BY <2>4, <2>5 DEF AppendAnonParam, w
<1>3. Plain(u) \in LinkRecords
  BY DEF Plain, Spellings
<1>4. AppendAnonParam(u) \in LinkRecords
  BY DEF AppendAnonParam
<1>5. QED
  BY <1>1, <1>2, <1>3, <1>4

\* The fields of a link whose decoration is stripped.
LEMMA LinkFields ==
    ASSUME NEW u \in LinkRecords
    PROVE  /\ Plain(u).spelling = "plain" /\ Plain(u).host = u.host
           /\ Plain(u).path = u.path /\ Plain(u).code = u.code
           /\ Plain(u).p = u.p /\ Plain(u).inner = u.inner
           /\ Plain(Plain(u)) = Plain(u)
<1>1. Plain(u) = [spelling |-> "plain", host |-> u.host, path |-> u.path,
                  code |-> u.code, p |-> u.p, anon |-> u.anon, inner |-> u.inner]
  BY LinkChanges
<1>2. /\ Plain(u).spelling = "plain" /\ Plain(u).host = u.host
      /\ Plain(u).path = u.path /\ Plain(u).code = u.code
      /\ Plain(u).p = u.p /\ Plain(u).inner = u.inner
  BY <1>1
<1>3. QED
  BY <1>2, LinkChanges

\* The same of a link that gets the anonymous parameter as well.
LEMMA AnonFields ==
    ASSUME NEW u \in LinkRecords
    PROVE  LET w == AppendAnonParam(Plain(u))
           IN  /\ w.spelling = "plain" /\ w.host = u.host
               /\ w.path = u.path /\ w.code = u.code
               /\ Plain(w) = w /\ AppendAnonParam(w) = w
<1> DEFINE v == Plain(u)
<1> SUFFICES LET w == AppendAnonParam(v)
             IN  /\ w.spelling = v.spelling /\ w.host = v.host
                 /\ w.path = v.path /\ w.code = v.code
                 /\ Plain(w) = w /\ AppendAnonParam(w) = w
  BY LinkFields
<1>1. v \in LinkRecords /\ v.spelling = "plain"
  BY LinkChanges, LinkFields
<1> HIDE DEF v
<1> DEFINE w == AppendAnonParam(v)
<1>2. /\ w.spelling = v.spelling /\ w.host = v.host /\ w.path = v.path
      /\ w.code = v.code /\ w.anon = TRUE
  BY <1>1 DEF LinkRecords, AppendAnonParam
<1>3. w \in LinkRecords
  BY <1>1, LinkChanges
<1> HIDE DEF w
<1>4. Plain(w) = w /\ AppendAnonParam(w) = w
  BY <1>1, <1>2, <1>3, LinkChanges
<1>5. QED
  BY <1>2, <1>4 DEF w

\* Every link is such a record.
LEMMA LinksAreRecords == Links \subseteq LinkRecords
BY DEF Links, LinkRecords

\* The code of the meeting that a link names, wrapped or not.
Named(u) == IF u.inner = None THEN u.code ELSE u.inner.code

\* The shapes of an accepted Microsoft Teams link and of its address.
LEMMA TeamsShapes ==
    ASSUME NEW u \in Links, TeamsParseURL(u) # Invalid
    PROVE  \/ \E p : TeamsParseURL(u) = Info(LiveLink(Named(u), p), p) /\ Named(u) # None
           \/ TeamsParseURL(u) = Info(V2Link(Named(u)), None)
           \/ /\ u.host = "teamsLive" /\ u.path = "code" /\ u.code # None
              /\ TeamsParseURL(u) = Info(Plain(u), u.p)
           \/ /\ u.host = "teamsMicrosoft" /\ u.path = "v2"
              /\ TeamsParseURL(u) = Info(Plain(u), None)
           \/ /\ u.host = "teamsMicrosoft" /\ u.path = "else"
              /\ TeamsParseURL(u) = Info(AppendAnonParam(Plain(u)), None)
<1> DEFINE v == Plain(u)
<1>1. /\ v.host = u.host /\ v.path = u.path /\ v.code = u.code /\ v.p = u.p
      /\ v.inner = u.inner
  BY LinkFields, LinksAreRecords
<1>2. u.inner # None => u.inner \in Wrapped /\ u.inner.code # None
  BY DEF Links, Wrapped
<1> HIDE DEF v
<1>3. ASSUME ParseLightMeetingsURL(v) # Invalid
      PROVE  \/ \E p : /\ ParseLightMeetingsURL(v) = Info(LiveLink(Named(u), p), p)
                       /\ Named(u) # None
             \/ ParseLightMeetingsURL(v) = Info(V2Link(Named(u)), None)
  BY <1>1, <1>2, <1>3 DEF ParseLightMeetingsURL, Named
<1>4. CASE u.host = "teamsLive"
  <2>1. TeamsParseURL(u) = ParseTeamsLiveURL(v)
    BY <1>4 DEF TeamsParseURL, v
  <2>2. CASE u.path = "launcher"
    BY <1>1, <1>2, <2>1, <2>2 DEF ParseTeamsLiveURL, Named
  <2>3. CASE u.path = "light"
    BY <1>1, <1>3, <2>1, <2>3 DEF ParseTeamsLiveURL
  <2>4. CASE u.path \notin {"launcher", "light"}
    BY <1>1, <1>4, <2>1, <2>4 DEF ParseTeamsLiveURL, v
  <2>5. QED
    BY <2>2, <2>3, <2>4
<1>5. CASE u.host = "teamsMicrosoft"
  <2>1. TeamsParseURL(u) = ParseTeamsMicrosoftURL(v)
    BY <1>5 DEF TeamsParseURL, v
  <2>2. u.path \in {"light", "meetup", "v2", "else"} /\ (u.path = "meetup" => u.inner = None)
    BY <1>5 DEF Links
  <2>3. CASE u.path = "light"
    BY <1>1, <1>3, <2>1, <2>3 DEF ParseTeamsMicrosoftURL
  <2>4. CASE u.path = "meetup"
    BY <1>1, <2>1, <2>2, <2>4 DEF ParseTeamsMicrosoftURL, TransformTeamsLink, Named
  <2>5. CASE u.path \in {"v2", "else"}
    BY <1>1, <1>5, <2>1, <2>5 DEF ParseTeamsMicrosoftURL, TransformTeamsLink, v
  <2>6. QED
    BY <2>2, <2>3, <2>4, <2>5
<1>6. QED
  BY <1>4, <1>5 DEF TeamsParseURL

\* An address of a parser's own making is taken as it is.
LEMMA LiveLinkStays ==
    ASSUME NEW c, NEW p, c # None
    PROVE  TeamsParseURL(LiveLink(c, p)) = Info(LiveLink(c, p), p)
<1>1. Plain(LiveLink(c, p)) = LiveLink(c, p)
  <2>1. LiveLink(c, p) \in [spelling : {"plain"}, host : {"teamsLive"}, path : {"code"},
                            code : {c}, p : {p}, anon : {TRUE}, inner : {None}]
    BY DEF LiveLink
  <2>2. QED
    BY <2>1 DEF Plain
<1>2. TeamsParseURL(LiveLink(c, p)) = ParseTeamsLiveURL(LiveLink(c, p))
  BY <1>1 DEF LiveLink, TeamsParseURL
<1>3. QED
  BY <1>2 DEF LiveLink, ParseTeamsLiveURL

LEMMA V2LinkStays ==
    ASSUME NEW c
    PROVE  TeamsParseURL(V2Link(c)) = Info(V2Link(c), None)
<1>1. Plain(V2Link(c)) = V2Link(c)
  <2>1. V2Link(c) \in [spelling : {"plain"}, host : {"teamsMicrosoft"}, path : {"v2"},
                       code : {c}, p : {None}, anon : {TRUE}, inner : {None}]
    BY DEF V2Link
  <2>2. QED
    BY <2>1 DEF Plain
<1>2. TeamsParseURL(V2Link(c)) = ParseTeamsMicrosoftURL(V2Link(c))
  BY <1>1 DEF V2Link, TeamsParseURL
<1>3. QED
  BY <1>2 DEF V2Link, ParseTeamsMicrosoftURL

\* However a link is spelled or wrapped: what Google Meet's parser and Microsoft
\* Teams' make of it names its meeting, and a parser takes its own output as it is.
LEMMA LinksSurvive == ASSUME url \in Links PROVE LinkSurvivesParsing
<1> DEFINE meet == MeetParseURL(url)
           teams == TeamsParseURL(url)
<1>1. ASSUME meet # Invalid
      PROVE  /\ meet.link.code = Named(url)
             /\ meet.link.host = "meet"
             /\ MeetParseURL(meet.link) = meet
  <2>1. /\ meet = Info(Plain(url), None)
        /\ url.host = "meet" /\ url.path = "code" /\ url.code # None
    BY <1>1, MeetInfo
  <2>2. url.inner = None
    BY <2>1 DEF Links
  <2>3. meet.link = Plain(url)
    BY <2>1 DEF Info
  <2>4. /\ Plain(url).spelling = "plain" /\ Plain(url).host = "meet"
        /\ Plain(url).path = "code" /\ Plain(url).code = url.code
    BY <2>1, LinkFields, LinksAreRecords
  <2>5. MeetParseURL(Plain(url)) = Info(Plain(url), None)
    BY <2>1, <2>4, PlainIsLink DEF MeetParseURL
  <2>6. QED
    BY <2>1, <2>2, <2>3, <2>4, <2>5 DEF Named
<1> DEFINE Good == /\ teams.link.code = Named(url)
                   /\ teams.password = teams.link.p \/ teams.link.host # "teamsLive"
                   /\ TeamsParseURL(teams.link) = teams
<1>2. ASSUME teams # Invalid PROVE Good
  <2> DEFINE v == Plain(url)
  <2>0. /\ v.spelling = "plain" /\ v.host = url.host /\ v.path = url.path
        /\ v.code = url.code /\ v.p = url.p /\ v.inner = url.inner
        /\ Plain(v) = v
    BY LinkFields, LinksAreRecords
  <2>1. ASSUME NEW p, teams = Info(LiveLink(Named(url), p), p), Named(url) # None
        PROVE  Good
    <3>1. teams.link = LiveLink(Named(url), p) /\ teams.password = p
      BY <2>1 DEF Info
    <3>2. LiveLink(Named(url), p).code = Named(url) /\ LiveLink(Named(url), p).p = p
      BY DEF LiveLink
    <3>3. QED
      BY <2>1, <3>1, <3>2, LiveLinkStays
  <2>2. CASE teams = Info(V2Link(Named(url)), None)
    <3>1. teams.link = V2Link(Named(url))
      BY <2>2 DEF Info
    <3>2. /\ V2Link(Named(url)).code = Named(url)
          /\ V2Link(Named(url)).host = "teamsMicrosoft"
      BY DEF V2Link
    <3>3. QED
      BY <2>2, <3>1, <3>2, V2LinkStays
  <2>3. CASE /\ url.host = "teamsLive" /\ url.path = "code" /\ url.code # None
             /\ teams = Info(v, url.p)
    <3>1. teams.link = v /\ teams.password = url.p
      BY <2>3 DEF Info
    <3>2. TeamsParseURL(v) = ParseTeamsLiveURL(v)
      BY <2>0, <2>3 DEF TeamsParseURL
    <3>3. ParseTeamsLiveURL(v) = Info(v, v.p)
      BY <2>0, <2>3 DEF ParseTeamsLiveURL
    <3>4. url.inner = None
      BY <2>3 DEF Links
    <3>5. QED
      BY <2>0, <2>3, <3>1, <3>2, <3>3, <3>4 DEF Named
  <2>4. CASE /\ url.host = "teamsMicrosoft" /\ url.path = "v2"
             /\ teams = Info(v, None)
    <3>1. teams.link = v
      BY <2>4 DEF Info
    <3>2. TeamsParseURL(v) = ParseTeamsMicrosoftURL(v)
      BY <2>0, <2>4 DEF TeamsParseURL
    <3>3. ParseTeamsMicrosoftURL(v) = Info(v, None)
      BY <2>0, <2>4 DEF ParseTeamsMicrosoftURL
    <3>4. url.inner = None
      BY <2>4 DEF Links
    <3>5. QED
      BY <2>0, <2>4, <3>1, <3>2, <3>3, <3>4 DEF Named
  <2>5. CASE /\ url.host = "teamsMicrosoft" /\ url.path = "else"
             /\ teams = Info(AppendAnonParam(v), None)
    <3> DEFINE w == AppendAnonParam(v)
    <3>1. /\ w.spelling = "plain" /\ w.host = url.host /\ w.path = url.path
          /\ w.code = url.code /\ Plain(w) = w /\ AppendAnonParam(w) = w
      BY AnonFields, LinksAreRecords
    <3>2. teams.link = w
      BY <2>5 DEF Info
    <3> HIDE DEF w
    <3>3. TeamsParseURL(w) = ParseTeamsMicrosoftURL(w)
      BY <2>5, <3>1 DEF TeamsParseURL
    <3>4. ParseTeamsMicrosoftURL(w) = Info(w, None)
      BY <2>5, <3>1 DEF ParseTeamsMicrosoftURL, TransformTeamsLink
    <3>5. url.inner = None
      BY <2>5 DEF Links
    <3>6. QED
      BY <2>5, <3>1, <3>2, <3>3, <3>4, <3>5 DEF Named, w
  <2>6. QED
    BY <1>2, <2>1, <2>2, <2>3, <2>4, <2>5, TeamsShapes
<1>3. QED
  BY <1>1, <1>2 DEF LinkSurvivesParsing, NamesMeeting, Stable, Named

-----------------------------------------------------------------------------
(* The inductive invariant, in named parts *)

\* Every point of the code belongs to the states whose Execute reaches it.
FlowInv ==
    /\ pc \in {"initialization", "parse", "launch", "backoff", "newPage", "goto",
               "freeze", "waitingRoom"} => current = "initialization"
    /\ pc \in JoinLoop \union {"typeName", "cancelCheck", "joinFailed", "joinClassify",
                              "inCall"} => current = "waitingRoom"
    /\ pc = "call" => current = "inCall"
    /\ pc = "error" => current \in {"initialization", "waitingRoom", "inCall"}
    /\ pc = "sendError" => current = "error"
    /\ pc = "cleanup" => current \in {"waitingRoom", "inCall", "error"}
    /\ pc \in {"closeBrowser", "terminated"} => current = "cleanup"
    /\ pc = "exited" <=> current = "terminated"

\* What is open at each point, whatever the code ignored.
OpenInv ==
    /\ context = "open" => driver /\ runtimes >= 1
    /\ pc \in {"initialization", "parse", "launch", "backoff"} =>
           ~driver /\ page = None
    /\ pc \in {"newPage", "goto", "freeze"} => context = "open" /\ page = None
    /\ pc \in {"goto", "freeze"} => tabs >= 1
    /\ pc = "freeze" => info # Invalid
    /\ pc = "waitingRoom" => page # None
    /\ pc = "terminated" => context = "none"
    /\ pc = "backoff" => attempt < MaxAttempts

\* How many are open, unless the code ignored an error of closing one.
CountInv ==
    ~lost =>
        /\ runtimes = (IF context = "open" THEN 1 ELSE 0)
        /\ tabs <= (IF context = "open" THEN 1 ELSE 0)
        /\ pc = "newPage" => tabs = 0

SInv == SetupTypeOK /\ FlowInv /\ OpenInv /\ CountInv

-----------------------------------------------------------------------------
(* The invariant is inductive *)

LEMMA SelectorRange == DOMAIN Selectors = 1 .. 8 /\ Len(Selectors) = 8
BY DEF Selectors

LEMMA SetupInitInv == SetupInit => SInv
<1> SUFFICES ASSUME SetupInit PROVE SInv
  OBVIOUS
<1>1. /\ hasError \in BOOLEAN /\ ctxDone \in BOOLEAN /\ expired \in BOOLEAN
      /\ lost \in BOOLEAN /\ steady \in BOOLEAN
      /\ driver \in BOOLEAN /\ ~driver
  BY Zenon DEF SetupInit
<1>2. state \in States /\ current \in Stages /\ pc \in Locations /\ endReason \in Reasons
  BY Zenon DEF SetupInit, States, Stages, Locations, Reasons
<1>3. /\ current = "initialization" /\ pc = "initialization" /\ context = "none"
      /\ index = 1 /\ attempt = 1 /\ runtimes = 0 /\ tabs = 0 /\ page = None
  BY Zenon DEF SetupInit
<1>4. index \in DOMAIN Selectors /\ attempt \in 1 .. NameTypeMaxAttempts
  BY <1>3, SelectorRange DEF NameTypeMaxAttempts
<1>5. /\ url \in Given /\ info \in {Invalid} \union [link : Links, password : {None}]
      /\ view \in Views \union {{}}
  BY Zenon DEF SetupInit
<1>6. SetupTypeOK
  BY <1>1, <1>2, <1>3, <1>4, <1>5 DEF SetupTypeOK
<1>7. FlowInv
  BY <1>3 DEF FlowInv, JoinLoop
<1>8. OpenInv /\ CountInv
  BY <1>1, <1>3 DEF OpenInv, CountInv
<1>9. QED
  BY <1>6, <1>7, <1>8 DEF SInv

\* The error flag is set or left alone.
LEMMA ErrorFlagStep == SInv /\ [SetupNext]_setupVars => hasError' \in BOOLEAN
<1> SUFFICES ASSUME SInv, [SetupNext]_setupVars PROVE hasError' \in BOOLEAN
  OBVIOUS
<1>1. hasError' = TRUE \/ hasError' = hasError
  <2>1. CASE Enter \/ Parse \/ RuntimeFailed \/ ContextFailed \/ Launched \/ Backoff
    BY <2>1, Zenon DEF Enter, Parse, RuntimeFailed, ContextFailed, Launched, Backoff,
        LaunchFailed, Fail, SetError, outcome
  <2>2. CASE NewPage \/ GotoPage \/ Frozen \/ Opened \/ TypeName \/ CancelCheck
    BY <2>2, Zenon DEF NewPage, GotoPage, Frozen, Opened, TypeName, CancelCheck, Fail,
        SetError, outcome
  <2>3. CASE Poll \/ Detect \/ Answer \/ JoinFailed \/ JoinClassify \/ PageChanges
    BY <2>3, Zenon DEF Poll, Detect, Answer, JoinFailed, JoinClassify, PageChanges, Fail,
        SetError, outcome
  <2>4. CASE EndOfCall \/ SendError \/ CloseBrowser
    BY <2>4, Zenon DEF EndOfCall, SendError, CloseBrowser, Fail, SetError, outcome
  <2>5. CASE TimePasses \/ StopRequested \/ Sigterm \/ UNCHANGED setupVars
    BY <2>5, Zenon DEF TimePasses, StopRequested, Sigterm, SetError, outcome, setupVars
  <2>6. QED
    BY <2>1, <2>2, <2>3, <2>4, <2>5 DEF SetupNext, Session
<1>2. QED
  BY <1>1 DEF SInv, SetupTypeOK

\* Each variable stays within its type.
LEMMA SetupTypeStep == SInv /\ [SetupNext]_setupVars => SetupTypeOK'
<1> SUFFICES ASSUME SInv, [SetupNext]_setupVars PROVE SetupTypeOK'
  OBVIOUS
<1> USE DEF SInv, SetupTypeOK, FlowInv, OpenInv, Goto, Fail, SetError, ClosePage,
            LaunchFailed, resources, detection, signals, outcome
<1> USE DEF Locations, Stages, JoinLoop, Reasons, StopReasons, MaxAttempts, MaxOpenPageAttempts,
            NameTypeMaxAttempts
<1>0. hasError' \in BOOLEAN
  BY ErrorFlagStep
<1> USE <1>0
<1>1. CASE Enter
  <2>1. pc' \in Locations /\ current' \in Stages
    BY <1>1 DEF Enter, Entry
  <2>2. expired' \in BOOLEAN
    BY <1>1, Zenon DEF Enter
  <2>3. QED
    BY <1>1, <2>1, <2>2 DEF Enter
<1>2. CASE Parse
  <2>1. info' \in {Invalid} \union [link : Links, password : {None}]
    BY <1>2, ParsedInfo DEF Parse
  <2>2. QED
    BY <1>2, <2>1 DEF Parse
<1>3. CASE RuntimeFailed
  BY <1>3 DEF RuntimeFailed
<1>4. CASE ContextFailed
  <2>1. lost' \in BOOLEAN
    BY <1>4, Zenon DEF ContextFailed
  <2>2. QED
    BY <1>4, <2>1 DEF ContextFailed
<1>5. CASE Launched
  BY <1>5 DEF Launched
<1>6. CASE Backoff
  BY <1>6 DEF Backoff
<1>7. CASE NewPage
  BY <1>7 DEF NewPage
<1>8. CASE GotoPage
  <2>1. lost' \in BOOLEAN
    BY <1>8, Zenon DEF GotoPage
  <2>2. tabs' \in Nat
    <3>1. pc = "goto" /\ (tabs' = tabs \/ tabs' = tabs - 1)
      BY <1>8, Zenon DEF GotoPage
    <3>2. QED
      BY <3>1
  <2>3. UNCHANGED <<current, info, attempt, runtimes, context, driver, page, detection, signals>>
    BY <1>8 DEF GotoPage
  <2>4. pc' \in Locations /\ endReason' \in Reasons
    BY <1>8 DEF GotoPage
  <2>5. QED
    BY <2>1, <2>2, <2>3, <2>4
<1>9. CASE Frozen
  <2>1. lost' \in BOOLEAN
    BY <1>9, Zenon DEF Frozen
  <2>2. tabs' \in Nat
    BY <1>9 DEF Frozen
  <2>3. QED
    BY <1>9, <2>1, <2>2 DEF Frozen
<1>10. CASE Opened
  BY <1>10 DEF Opened
<1>11. CASE TypeName
  BY <1>11 DEF TypeName
<1>12. CASE CancelCheck
  BY <1>12 DEF CancelCheck
<1>13. CASE Poll
  BY <1>13 DEF Poll
<1>14. CASE Detect
  <2>1. state' \in States
    BY <1>14, SelectorRange DEF Detect, Returns, States
  <2>2. index' \in DOMAIN Selectors
    <3>1. index \in 1 .. 8 /\ (index' = index \/ (index # 8 /\ index' = index + 1))
      BY <1>14, SelectorRange DEF Detect, Returns
    <3>2. QED
      BY <3>1, SelectorRange
  <2>3. steady' \in BOOLEAN
    BY <1>14, Zenon DEF Detect, Returns
  <2>4. pc' \in Locations
    BY <1>14 DEF Detect, Returns
  <2>5. UNCHANGED <<current, info, attempt, resources, view, signals, outcome>>
    BY <1>14 DEF Detect
  <2>6. QED
    BY <2>1, <2>2, <2>3, <2>4, <2>5
<1>15. CASE Answer
  <2>1. steady' \in BOOLEAN
    BY <1>15, Zenon DEF Answer
  <2>2. state' \in States
    BY <1>15, Zenon DEF Answer, States
  <2>3. index' \in DOMAIN Selectors
    <3>1. index' = 1
      BY <1>15, Zenon DEF Answer
    <3>2. QED
      BY <3>1, SelectorRange
  <2>4. pc' \in Locations
    BY <1>15 DEF Answer
  <2>5. view' \in Views \union {{}}
    BY <1>15, Zenon DEF Answer
  <2>6. UNCHANGED <<current, info, attempt, resources, signals, outcome>>
    BY <1>15 DEF Answer
  <2>7. QED
    BY <2>1, <2>2, <2>3, <2>4, <2>5, <2>6
<1>16. CASE JoinFailed
  BY <1>16 DEF JoinFailed
<1>17. CASE JoinClassify
  BY <1>17 DEF JoinClassify
<1>18. CASE EndOfCall
  BY <1>18 DEF EndOfCall
<1>19. CASE SendError
  BY <1>19 DEF SendError
<1>20. CASE CloseBrowser
  <2>1. lost' \in BOOLEAN
    BY <1>20, Zenon DEF CloseBrowser
  <2>2. runtimes' \in Nat /\ tabs' \in Nat /\ context' \in {"none", "open"}
    BY <1>20 DEF CloseBrowser
  <2>3. QED
    BY <1>20, <2>1, <2>2 DEF CloseBrowser
<1>21. CASE PageChanges
  <2>1. steady' \in BOOLEAN
    BY <1>21, Zenon DEF PageChanges
  <2>2. QED
    BY <1>21, <2>1 DEF PageChanges
<1>22. CASE TimePasses \/ StopRequested \/ Sigterm
  <2>1. ctxDone' \in BOOLEAN /\ expired' \in BOOLEAN
    BY <1>22, Zenon DEF TimePasses, StopRequested, Sigterm
  <2>2. QED
    BY <1>22, <2>1 DEF TimePasses, StopRequested, Sigterm
<1>23. CASE UNCHANGED setupVars
  BY <1>23 DEF setupVars
<1> HIDE DEF SetupTypeOK
<1>24. QED
  BY <1>1, <1>2, <1>3, <1>4, <1>5, <1>6, <1>7, <1>8, <1>9, <1>10, <1>11, <1>12, <1>13,
     <1>14, <1>15, <1>16, <1>17, <1>18, <1>19, <1>20, <1>21, <1>22, <1>23
  DEF SetupNext, Session

-----------------------------------------------------------------------------
(* The steps of each part *)

LaunchStep == RuntimeFailed \/ ContextFailed \/ Launched \/ Backoff
OpenStep == NewPage \/ GotoPage \/ Frozen \/ Opened
NameStep == TypeName \/ CancelCheck
JoinStep == Poll \/ Detect \/ Answer \/ JoinFailed \/ JoinClassify \/ PageChanges
EndStep == EndOfCall \/ SendError
SignalStep == TimePasses \/ StopRequested \/ Sigterm

\* Every step is one of these.
LEMMA SetupCases ==
    ASSUME [SetupNext]_setupVars
    PROVE  \/ Enter \/ Parse \/ LaunchStep \/ OpenStep \/ NameStep \/ JoinStep
           \/ EndStep \/ CloseBrowser \/ SignalStep \/ UNCHANGED setupVars
BY DEF SetupNext, Session, LaunchStep, OpenStep, NameStep, JoinStep, EndStep, SignalStep

\* The waiting room, the call and the error state open and close nothing.
LEMMA QuietSteps ==
    ASSUME NameStep \/ JoinStep \/ EndStep \/ SignalStep
    PROVE  UNCHANGED <<current, info, resources>>
BY DEF NameStep, TypeName, CancelCheck, JoinStep, Poll, Detect, Answer, JoinFailed,
    JoinClassify, PageChanges, EndStep, EndOfCall, SendError, SignalStep, TimePasses,
    StopRequested, Sigterm

\* The goroutine follows the control flow.
LEMMA FlowStep == SInv /\ [SetupNext]_setupVars => FlowInv'
<1> SUFFICES ASSUME SInv, [SetupNext]_setupVars PROVE FlowInv'
  OBVIOUS
<1>0. FlowInv
  BY DEF SInv
<1> USE DEF FlowInv, JoinLoop, Goto, Fail
<1>1. CASE Enter
  BY <1>0, <1>1 DEF Enter, Entry, Stages
<1>2. CASE Parse
  BY <1>0, <1>2 DEF Parse
<1>3. CASE LaunchStep
  BY <1>0, <1>3 DEF LaunchStep, RuntimeFailed, ContextFailed, Launched, Backoff, LaunchFailed
<1>4. CASE OpenStep
  BY <1>0, <1>4 DEF OpenStep, NewPage, GotoPage, Frozen, Opened
<1>5. CASE NameStep
  BY <1>0, <1>5 DEF NameStep, TypeName, CancelCheck
<1>6. CASE JoinStep
  BY <1>0, <1>6 DEF JoinStep, Poll, Detect, Returns, Answer, JoinFailed, JoinClassify,
     PageChanges
<1>7. CASE EndStep
  BY <1>0, <1>7 DEF EndStep, EndOfCall, SendError
<1>8. CASE CloseBrowser
  BY <1>0, <1>8 DEF CloseBrowser
<1>9. CASE SignalStep
  BY <1>0, <1>9 DEF SignalStep, TimePasses, StopRequested, Sigterm
<1>10. CASE UNCHANGED setupVars
  BY <1>0, <1>10 DEF setupVars
<1>11. QED
  BY SetupCases, <1>1, <1>2, <1>3, <1>4, <1>5, <1>6, <1>7, <1>8, <1>9, <1>10

\* What is opened is there for what follows, and closed by the cleanup.
LEMMA OpenInvStep == SInv /\ [SetupNext]_setupVars => OpenInv'
<1> SUFFICES ASSUME SInv, [SetupNext]_setupVars PROVE OpenInv'
  OBVIOUS
<1>0. FlowInv /\ OpenInv
  BY DEF SInv
<1>types. /\ runtimes \in Nat /\ tabs \in Nat
          /\ context \in {"none", "open"} /\ driver \in BOOLEAN
  BY DEF SInv, SetupTypeOK
<1> USE DEF OpenInv, resources, Goto, Fail, ClosePage, LaunchFailed, MaxAttempts
<1>1. CASE Enter
  BY <1>0, <1>1 DEF Enter, Entry, Stages, FlowInv
<1>2. CASE Parse
  BY <1>0, <1>2 DEF Parse
<1>3. CASE RuntimeFailed \/ Backoff
  BY <1>0, <1>3 DEF RuntimeFailed, Backoff
<1>4. CASE ContextFailed
  BY <1>0, <1>4 DEF ContextFailed
<1>5. CASE Launched
  BY <1>0, <1>types, <1>5 DEF Launched
<1>6. CASE NewPage
  BY <1>0, <1>types, <1>6 DEF NewPage
<1>7. CASE GotoPage
  BY <1>0, <1>7 DEF GotoPage
<1>8. CASE Frozen
  BY <1>0, <1>8 DEF Frozen
<1>9. CASE Opened
  <2>1. info.link # None
    BY <1>0, <1>9 DEF Opened, SInv, SetupTypeOK
  <2>2. QED
    BY <1>0, <1>9, <2>1 DEF Opened
<1>10. CASE NameStep \/ JoinStep \/ EndStep \/ SignalStep
  <2>1. UNCHANGED <<info, resources>>
    BY <1>10, QuietSteps
  <2>2. \/ pc' \notin {"initialization", "parse", "launch", "backoff", "newPage", "goto",
                       "freeze", "waitingRoom", "terminated"}
        \/ UNCHANGED <<pc, attempt>>
    BY <1>10 DEF NameStep, TypeName, CancelCheck, JoinStep, Poll, Detect, Returns, Answer,
       JoinFailed, JoinClassify, PageChanges, EndStep, EndOfCall, SendError, SignalStep,
       TimePasses, StopRequested, Sigterm
  <2>3. QED
    BY <1>0, <2>1, <2>2
<1>11. CASE CloseBrowser
  BY <1>0, <1>types, <1>11 DEF CloseBrowser
<1>12. CASE UNCHANGED setupVars
  BY <1>0, <1>12 DEF setupVars
<1>13. QED
  BY SetupCases, <1>1, <1>2, <1>3, <1>4, <1>5, <1>6, <1>7, <1>8, <1>9, <1>10, <1>11,
     <1>12 DEF LaunchStep, OpenStep

\* Unless an error of closing was ignored, there is one browser and one tab.
LEMMA CountStep == SInv /\ [SetupNext]_setupVars => CountInv'
<1> SUFFICES ASSUME SInv, [SetupNext]_setupVars, ~lost' PROVE CountInv'
  BY DEF CountInv
<1>0. FlowInv /\ OpenInv
  BY DEF SInv
<1>types. /\ runtimes \in Nat /\ tabs \in Nat
          /\ context \in {"none", "open"} /\ driver \in BOOLEAN
  BY DEF SInv, SetupTypeOK
<1>l. ~lost
  BY SetupCases, QuietSteps DEF Enter, Parse, LaunchStep, RuntimeFailed, ContextFailed,
     Launched, Backoff, OpenStep, NewPage, GotoPage, Frozen, Opened, ClosePage,
     CloseBrowser, resources, setupVars
<1>c. /\ runtimes = (IF context = "open" THEN 1 ELSE 0)
      /\ tabs <= (IF context = "open" THEN 1 ELSE 0)
      /\ pc = "newPage" => tabs = 0
  BY <1>l DEF SInv, CountInv
<1> USE DEF CountInv, OpenInv, resources, Goto, Fail, ClosePage
<1>1. CASE Enter
  BY <1>c, <1>1 DEF Enter, Entry, Stages
<1>2. CASE Parse
  BY <1>c, <1>2 DEF Parse
<1>3. CASE RuntimeFailed \/ Backoff
  BY <1>c, <1>3 DEF RuntimeFailed, Backoff, LaunchFailed
<1>4. CASE ContextFailed
  BY <1>c, <1>4 DEF ContextFailed, LaunchFailed
<1>5. CASE Launched
  BY <1>c, <1>types, <1>5 DEF Launched
<1>6. CASE NewPage
  BY <1>0, <1>c, <1>types, <1>6 DEF NewPage
<1>7. CASE GotoPage
  <2>1. /\ tabs' = tabs \/ tabs' = tabs - 1
        /\ UNCHANGED <<runtimes, context>> /\ pc' # "newPage"
    BY <1>7 DEF GotoPage
  <2>2. QED
    BY <1>c, <1>types, <2>1
<1>8. CASE Frozen
  BY <1>0, <1>c, <1>types, <1>8 DEF Frozen
<1>9. CASE Opened
  BY <1>c, <1>9 DEF Opened
<1>10. CASE NameStep \/ JoinStep \/ EndStep \/ SignalStep
  <2>1. UNCHANGED resources /\ (pc' = "newPage" => pc = "newPage")
    BY <1>10, QuietSteps DEF NameStep, TypeName, CancelCheck, JoinStep, Poll, Detect,
       Returns, Answer, JoinFailed, JoinClassify, PageChanges, EndStep, EndOfCall,
       SendError, SignalStep, TimePasses, StopRequested, Sigterm
  <2>2. QED
    BY <1>c, <2>1
<1>11. CASE CloseBrowser
  BY <1>c, <1>types, <1>11 DEF CloseBrowser
<1>12. CASE UNCHANGED setupVars
  BY <1>c, <1>12 DEF setupVars
<1>13. QED
  BY SetupCases, <1>1, <1>2, <1>3, <1>4, <1>5, <1>6, <1>7, <1>8, <1>9, <1>10, <1>11,
     <1>12 DEF LaunchStep, OpenStep

THEOREM SetupInvariance == SetupSpec => []SInv
<1>1. SInv /\ [SetupNext]_setupVars => SInv'
  BY SetupTypeStep, FlowStep, OpenInvStep, CountStep DEF SInv
<1>2. QED
  BY SetupInitInv, <1>1, PTL DEF SetupSpec

-----------------------------------------------------------------------------
(* The theorems *)

\* Every variable of MeetingSetup keeps its type.
THEOREM SetupTypeCorrect == SetupSpec => []SetupTypeOK
<1>1. SInv => SetupTypeOK
  BY DEF SInv
<1>2. QED
  BY <1>1, SetupInvariance, PTL

\* Whatever attempt of the launch or the page failed, the session never has two
\* tabs of the meeting, and nothing of Playwright's after its cleanup.
THEOREM NothingIsLeft == SetupSpec => []NothingLeftOpen
<1>1. SInv => NothingLeftOpen
  <2> SUFFICES ASSUME SInv, ~lost
               PROVE  /\ tabs <= 1
                      /\ pc = "terminated" => runtimes = 0 /\ context = "none" /\ tabs = 0
    BY DEF NothingLeftOpen
  <2>1. tabs \in Nat /\ context \in {"none", "open"}
    BY DEF SInv, SetupTypeOK
  <2>2. QED
    BY <2>1 DEF SInv, CountInv, OpenInv
<1>2. QED
  BY <1>1, SetupInvariance, PTL

\* The meeting of every link of a configuration survives its parsing.
THEOREM LinksKeepTheirMeeting == SetupSpec => []LinkSurvivesParsing
<1>1. SInv => LinkSurvivesParsing
  BY LinksSurvive DEF SInv, SetupTypeOK
<1>2. QED
  BY <1>1, SetupInvariance, PTL

-----------------------------------------------------------------------------
(* The contract *)

BrowserView ==
    IF context = "open" THEN "open"
    ELSE IF ~driver THEN "none" ELSE IF runtimes + tabs > 0 THEN "leaked" ELSE "closed"
PageView == IF page = None THEN "none" ELSE "open"

\* The stages the contract allows, one at a time.
LEMMA ContractStages ==
    /\ Contract!Successors["initialization"] = {"waitingRoom", "error"}
    /\ Contract!Successors["waitingRoom"] = {"inCall", "error", "cleanup"}
    /\ Contract!Successors["inCall"] = {"error", "cleanup"}
    /\ Contract!Successors["error"] = {"cleanup"}
    /\ Contract!Successors["cleanup"] = {"terminated"}
BY DEF Contract!Successors

\* Machine.Run moves to the next stage, starts the first one or gives up.
LEMMA EnterMoves ==
    SInv /\ Enter => \/ Contract!Move \/ Contract!GiveUp
                     \/ UNCHANGED <<current, BrowserView, PageView, ctxDone>>
<1> SUFFICES ASSUME SInv, Enter
             PROVE  \/ Contract!Move \/ Contract!GiveUp
                    \/ UNCHANGED <<current, BrowserView, PageView, ctxDone>>
  OBVIOUS
<1>1. UNCHANGED <<BrowserView, PageView, ctxDone>> /\ pc \in Stages
  BY DEF Enter, resources, BrowserView, PageView
<1>2. FlowInv /\ OpenInv
  BY DEF SInv
<1>3. CASE ctxDone /\ current' = "terminated"
  <2>1. current # "terminated"
    BY <1>1, <1>2 DEF FlowInv, Stages
  <2>2. QED
    BY <1>1, <1>3, <2>1 DEF Contract!GiveUp, BrowserView, PageView
<1>4. CASE current' = pc
  <2>1. pc = current \/ pc \in Contract!Successors[current]
    BY <1>1, <1>2, ContractStages DEF FlowInv, Stages
  <2>2. pc = "waitingRoom" => PageView = "open"
    BY <1>2 DEF OpenInv, PageView
  <2>3. pc = "terminated" => BrowserView # "open"
    BY <1>2 DEF OpenInv, BrowserView
  <2>4. QED
    BY <1>1, <1>4, <2>1, <2>2, <2>3 DEF Contract!Move, BrowserView, PageView
<1>5. QED
  BY <1>3, <1>4 DEF Enter

\* Every step of the two states in full is a step of the contract or leaves it
\* unchanged.
LEMMA StepKeepsContract ==
    SInv /\ [SetupNext]_setupVars => [Contract!Next]_Contract!vars
<1> SUFFICES ASSUME SInv, [SetupNext]_setupVars PROVE [Contract!Next]_Contract!vars
  OBVIOUS
<1> USE DEF Contract!Next, Contract!vars
<1>0. FlowInv /\ OpenInv
  BY DEF SInv
<1> DEFINE Same == UNCHANGED <<current, BrowserView, PageView, ctxDone>>
<1>s. Same => [Contract!Next]_Contract!vars
  BY DEF BrowserView, PageView
<1>1. CASE Enter
  BY <1>1, <1>s, EnterMoves
<1>2. CASE Launched
  BY <1>0, <1>2 DEF Launched, FlowInv, OpenInv, signals, Contract!OpenBrowser
<1>3. CASE Opened
  <2>1. info.link # None
    BY <1>0, <1>3 DEF Opened, Goto, OpenInv, SInv, SetupTypeOK
  <2>2. QED
    BY <1>0, <1>3, <2>1 DEF Opened, Goto, FlowInv, OpenInv, signals, Contract!OpenPage
<1>4. CASE CloseBrowser
  <2>1. UNCHANGED <<current, driver, page, ctxDone>> /\ current = "cleanup"
    BY <1>0, <1>4 DEF CloseBrowser, Goto, FlowInv, signals
  <2>2. \/ UNCHANGED <<context, runtimes, tabs>>
        \/ driver /\ context = "open" /\ context' = "none"
    BY <1>4 DEF CloseBrowser
  <2>3. QED
    BY <2>1, <2>2 DEF Contract!CloseBrowser
<1>5. CASE Sigterm
  BY <1>5 DEF Sigterm, resources, Contract!Cancel
<1>6. CASE Parse \/ RuntimeFailed \/ ContextFailed \/ Backoff \/ NewPage \/ GotoPage \/ Frozen
  <2>1. /\ UNCHANGED <<current, context, driver, page, ctxDone>>
        /\ ~driver \/ context = "open"
    BY <1>0, <1>6 DEF Parse, RuntimeFailed, ContextFailed, Backoff, NewPage, GotoPage, Frozen,
       ClosePage, resources, signals, OpenInv, Goto
  <2>2. QED
    BY <2>1, <1>s DEF BrowserView, PageView
<1>7. CASE NameStep \/ JoinStep \/ EndStep \/ TimePasses \/ StopRequested
  <2>1. UNCHANGED <<current, resources, ctxDone>>
    BY <1>7, QuietSteps DEF SignalStep, NameStep, TypeName, CancelCheck, JoinStep, Poll,
       Detect, Answer, JoinFailed, JoinClassify, PageChanges, EndStep, EndOfCall,
       SendError, TimePasses, StopRequested, signals
  <2>2. QED
    BY <2>1, <1>s DEF BrowserView, PageView, resources
<1>8. CASE UNCHANGED setupVars
  BY <1>8, <1>s DEF setupVars, BrowserView, PageView
<1>9. QED
  BY SetupCases, <1>1, <1>2, <1>3, <1>4, <1>5, <1>6, <1>7, <1>8
  DEF LaunchStep, OpenStep, SignalStep

\* MeetingSetup implements the contract, for all links, pages and failures.
THEOREM ContractIsKept == SetupSpec => ImplementsContract
<1>1. SetupInit => Contract!Init
  BY DEF SetupInit, Contract!Init
<1>2. QED
  BY <1>1, StepKeepsContract, SetupInvariance, PTL
  DEF SetupSpec, ImplementsContract, Contract!Spec

-----------------------------------------------------------------------------
(* Every retry runs out *)

\* The places of the code in the order in which a session can still get to them.
Base ==
    [initialization |-> 45, parse        |-> 44, launch     |-> 39, backoff     |-> 38,
     newPage        |-> 32, goto         |-> 31, freeze     |-> 30, waitingRoom |-> 29,
     typeName       |-> 19, cancelCheck  |-> 18, detect     |-> 10, answer      |-> 9,
     poll           |-> 8,  joinFailed   |-> 7,  inCall     |-> 7,  joinClassify |-> 6,
     call           |-> 6,  error        |-> 5,  sendError  |-> 4,  cleanup     |-> 3,
     closeBrowser   |-> 2,  terminated   |-> 1,  exited     |-> 0]

\* What the attempts or selectors left there add to it.
Spare(p, a, i) ==
    CASE p \in {"launch", "backoff"}         -> 2 * (MaxAttempts - a)
      [] p \in {"newPage", "goto", "freeze"} -> 3 * (MaxOpenPageAttempts - a)
      [] p = "typeName"                      -> NameTypeMaxAttempts - a
      [] p = "detect"                        -> 8 - i
      [] OTHER                               -> 0

StepsLeft(p, a, i) == Base[p] + Spare(p, a, i)
Fuel == StepsLeft(pc, attempt, index)

\* The one step that a session can take again and again.
LooksAgain == pc = "poll" /\ pc' = "detect" /\ ~JoinDone /\ ~ShouldStop

\* Every step of the session but another look at the lobby brings it nearer to
\* its end, by the same measure for the retries of the launch, of the page and of
\* the name (retry.go, join.go, open_page.go): once the time limit, a stop or a
\* cancel is there, at most Fuel steps are left.
StepsRunOut == [][/\ Session => LooksAgain \/ Fuel' < Fuel
                  /\ ~Session => Fuel' = Fuel]_setupVars

\* The retry that is going on has attempts left, or is at its last.
AttemptInv ==
    /\ pc = "parse" => attempt = 1
    /\ pc \in {"launch", "backoff"} => attempt <= MaxAttempts
    /\ pc \in {"newPage", "goto", "freeze"} => attempt <= MaxOpenPageAttempts

\* The measure at every place of the code.
Measured(p, a, i, f) ==
    /\ p = "initialization" => f = 45
    /\ p = "parse"          => f = 44
    /\ p = "launch"         => f = 39 + 2 * (3 - a)
    /\ p = "backoff"        => f = 38 + 2 * (3 - a)
    /\ p = "newPage"        => f = 32 + 3 * (3 - a)
    /\ p = "goto"           => f = 31 + 3 * (3 - a)
    /\ p = "freeze"         => f = 30 + 3 * (3 - a)
    /\ p = "waitingRoom"    => f = 29
    /\ p = "typeName"       => f = 29 - a
    /\ p = "cancelCheck"    => f = 18
    /\ p = "detect"         => f = 18 - i
    /\ p = "answer"         => f = 9
    /\ p = "poll"           => f = 8
    /\ p = "joinFailed"     => f = 7
    /\ p = "inCall"         => f = 7
    /\ p = "joinClassify"   => f = 6
    /\ p = "call"           => f = 6
    /\ p = "error"          => f = 5
    /\ p = "sendError"      => f = 4
    /\ p = "cleanup"        => f = 3
    /\ p = "closeBrowser"   => f = 2
    /\ p = "terminated"     => f = 1
    /\ p = "exited"         => f = 0

LEMMA StepsLeftAt ==
    ASSUME NEW p, NEW a \in Nat, NEW i \in Nat
    PROVE  Measured(p, a, i, StepsLeft(p, a, i))
BY DEF Measured, StepsLeft, Base, Spare, MaxAttempts, MaxOpenPageAttempts, NameTypeMaxAttempts

\* No retry goes past its last attempt.
LEMMA AttemptStep == SInv /\ AttemptInv /\ [SetupNext]_setupVars => AttemptInv'
<1> SUFFICES ASSUME SInv, AttemptInv, [SetupNext]_setupVars PROVE AttemptInv'
  OBVIOUS
<1>0. attempt \in Nat /\ FlowInv /\ OpenInv
  BY DEF SInv, SetupTypeOK
<1> USE DEF AttemptInv, MaxAttempts, MaxOpenPageAttempts, Goto, Fail
<1>1. CASE Enter
  BY <1>1 DEF Enter, Entry, Stages
<1>2. CASE Parse
  BY <1>2 DEF Parse
<1>3. CASE LaunchStep
  BY <1>0, <1>3 DEF LaunchStep, RuntimeFailed, ContextFailed, Launched, Backoff, LaunchFailed,
     OpenInv
<1>4. CASE OpenStep
  BY <1>0, <1>4 DEF OpenStep, NewPage, GotoPage, Frozen, Opened
<1>5. CASE NameStep \/ JoinStep \/ EndStep \/ SignalStep
  <2>1. \/ pc' \notin {"parse", "launch", "backoff", "newPage", "goto", "freeze"}
        \/ UNCHANGED <<pc, attempt>>
    BY <1>5 DEF NameStep, TypeName, CancelCheck, JoinStep, Poll, Detect, Returns, Answer,
       JoinFailed, JoinClassify, PageChanges, EndStep, EndOfCall, SendError, SignalStep,
       TimePasses, StopRequested, Sigterm
  <2>2. QED
    BY <2>1
<1>6. CASE CloseBrowser
  BY <1>6 DEF CloseBrowser
<1>7. CASE UNCHANGED setupVars
  BY <1>7 DEF setupVars
<1>8. QED
  BY SetupCases, <1>1, <1>2, <1>3, <1>4, <1>5, <1>6, <1>7

\* The measure is a bound, and never negative.
LEMMA FuelBounds == SInv /\ AttemptInv => Fuel \in 0 .. 45
<1> SUFFICES ASSUME SInv, AttemptInv PROVE Fuel \in 0 .. 45
  OBVIOUS
<1>1. attempt \in 1 .. 10 /\ index \in 1 .. 8 /\ pc \in Locations
  BY SelectorRange DEF SInv, SetupTypeOK, NameTypeMaxAttempts
<1>2. Measured(pc, attempt, index, Fuel)
  BY <1>1, StepsLeftAt DEF Fuel
<1>3. QED
  BY <1>1, <1>2 DEF Measured, AttemptInv, MaxAttempts, MaxOpenPageAttempts, Locations,
     Stages, JoinLoop

\* What the session does by itself uses it up, but for another look at the lobby.
LEMMA SessionBurns ==
    ASSUME SInv, AttemptInv, SetupTypeOK', Session
    PROVE  LooksAgain \/ Fuel' < Fuel
<1>1. /\ attempt \in 1 .. 10 /\ index \in 1 .. 8
      /\ attempt' \in 1 .. 10 /\ index' \in 1 .. 8
  BY SelectorRange DEF SInv, SetupTypeOK, NameTypeMaxAttempts
<1>2. Measured(pc, attempt, index, Fuel) /\ Measured(pc', attempt', index', Fuel')
  BY <1>1, StepsLeftAt DEF Fuel
<1> HIDE DEF Fuel
<1> USE <1>1, <1>2 DEF Measured, MaxAttempts, MaxOpenPageAttempts, NameTypeMaxAttempts, Goto, Fail
<1>3. CASE Enter
  BY <1>3 DEF Enter, Entry, Stages
<1>4. CASE Parse
  <2>1. attempt = 1
    BY <1>4 DEF Parse, AttemptInv
  <2>2. QED
    BY <1>4, <2>1 DEF Parse
<1>5. CASE RuntimeFailed \/ ContextFailed
  <2>1. /\ pc = "launch" /\ attempt' = attempt
        /\ \/ attempt <= 3 /\ pc' = "error"
           \/ pc' = "backoff"
    BY <1>5 DEF RuntimeFailed, ContextFailed, LaunchFailed
  <2>2. QED
    BY <2>1
<1>6. CASE Launched
  <2>1. pc = "launch" /\ attempt <= 3 /\ pc' = "newPage" /\ attempt' = 1
    BY <1>6 DEF Launched, AttemptInv
  <2>2. QED
    BY <2>1
<1>7. CASE Backoff
  <2>1. pc = "backoff" /\ attempt < 3
    BY <1>7 DEF Backoff, SInv, OpenInv
  <2>2. \/ pc' = "launch" /\ attempt' = attempt + 1
        \/ pc' = "error"
    BY <1>7 DEF Backoff
  <2>3. QED
    BY <2>1, <2>2
<1>8. CASE NewPage \/ GotoPage \/ Frozen \/ Opened
  <2>1. pc \in {"newPage", "goto", "freeze"} /\ attempt <= 3
    BY <1>8 DEF NewPage, GotoPage, Frozen, Opened, AttemptInv
  <2>2. \/ pc' = "error"
        \/ pc = "newPage" /\ pc' = "goto" /\ attempt' = attempt
        \/ pc = "goto" /\ pc' = "freeze" /\ attempt' = attempt
        \/ pc = "freeze" /\ pc' = "newPage" /\ attempt < 3 /\ attempt' = attempt + 1
        \/ pc = "freeze" /\ pc' = "waitingRoom"
    BY <1>8 DEF NewPage, GotoPage, Frozen, Opened
  <2>3. QED
    BY <2>1, <2>2
<1>9. CASE TypeName
  BY <1>9 DEF TypeName
<1>10. CASE CancelCheck \/ JoinFailed \/ JoinClassify \/ EndOfCall \/ SendError \/ CloseBrowser
  BY <1>10 DEF CancelCheck, JoinFailed, JoinClassify, EndOfCall, SendError, CloseBrowser
<1>11. CASE Poll
  BY <1>11 DEF Poll, LooksAgain
<1>12. CASE Detect
  <2>1. pc = "detect" /\ (pc' = "answer" \/ (pc' = "detect" /\ index' = index + 1))
    BY <1>12, SelectorRange DEF Detect, Returns
  <2>2. QED
    BY <2>1
<1>13. CASE Answer
  <2>1. pc = "answer" /\ pc' \in {"inCall", "joinFailed", "poll"}
    BY <1>13 DEF Answer
  <2>2. QED
    BY <2>1
<1>14. QED
  BY <1>3, <1>4, <1>5, <1>6, <1>7, <1>8, <1>9, <1>10, <1>11, <1>12, <1>13 DEF Session

\* A session that only waits for its limit, a stop or a cancel apart, has at most
\* 45 steps to go, whatever fails and is retried on the way.
THEOREM RetriesRunOut == SetupSpec => [](Fuel \in 0 .. 45) /\ StepsRunOut
<1>1. SetupInit => AttemptInv
  BY DEF SetupInit, AttemptInv
<1>2. ASSUME SInv, SInv', AttemptInv, [SetupNext]_setupVars
      PROVE  [/\ Session => LooksAgain \/ Fuel' < Fuel
              /\ ~Session => Fuel' = Fuel]_setupVars
  <2>1. CASE Session
    BY <1>2, <2>1, SessionBurns DEF SInv
  <2>2. CASE ~Session
    <3>1. UNCHANGED setupVars \/ PageChanges \/ TimePasses \/ StopRequested \/ Sigterm
      BY <1>2, <2>2 DEF SetupNext
    <3>2. UNCHANGED <<pc, attempt, index>>
      BY <3>1 DEF setupVars, PageChanges, TimePasses, StopRequested, Sigterm, detection
    <3>3. QED
      BY <2>2, <3>2 DEF Fuel
  <2>3. QED
    BY <2>1, <2>2
<1>3. QED
  BY <1>1, <1>2, AttemptStep, FuelBounds, SetupInvariance, PTL DEF SetupSpec, StepsRunOut

-----------------------------------------------------------------------------
(* A stop in the waiting room *)

\* What JoinMeeting does, up to what Execute makes of its error.
Joining == pc \in JoinLoop \union {"typeName", "cancelCheck", "joinFailed"}

\* Up to the end of the call, only a request to stop has set an end reason.
OnlyStops ==
    pc \notin {"error", "sendError", "cleanup", "closeBrowser", "terminated", "exited"} =>
        /\ endReason \in {"none"} \union StopReasons
        /\ endReason = "exitingMeetingBeforeRecord" => hasError

LEMMA OnlyStopsStep == SInv /\ OnlyStops /\ [SetupNext]_setupVars => OnlyStops'
<1> SUFFICES ASSUME SInv, OnlyStops, [SetupNext]_setupVars PROVE OnlyStops'
  OBVIOUS
<1> USE DEF OnlyStops, Goto, Fail, outcome
<1>1. CASE Enter
  BY <1>1 DEF Enter, Entry, Stages
<1>2. CASE Parse
  BY <1>2 DEF Parse
<1>3. CASE LaunchStep
  BY <1>3 DEF LaunchStep, RuntimeFailed, ContextFailed, Launched, Backoff, LaunchFailed
<1>4. CASE OpenStep
  BY <1>4 DEF OpenStep, NewPage, GotoPage, Frozen, Opened
<1>5. CASE NameStep \/ JoinStep
  BY <1>5 DEF NameStep, TypeName, CancelCheck, JoinStep, Poll, Detect, Returns, Answer,
     JoinFailed, JoinClassify, PageChanges
<1>6. CASE EndStep \/ CloseBrowser
  BY <1>6 DEF EndStep, EndOfCall, SendError, CloseBrowser
<1>7. CASE StopRequested
  <2>1. pc' = pc
    BY <1>7 DEF StopRequested
  <2>2. CASE SetError("exitingMeetingBeforeRecord")
    BY <2>2 DEF SetError, StopReasons
  <2>3. CASE endReason' = "apiRequest"
    BY <2>3 DEF StopReasons
  <2>4. QED
    BY <1>7, <2>2, <2>3 DEF StopRequested
<1>8. CASE TimePasses \/ Sigterm \/ UNCHANGED setupVars
  BY <1>8 DEF TimePasses, Sigterm, setupVars
<1>9. QED
  BY SetupCases, <1>1, <1>2, <1>3, <1>4, <1>5, <1>6, <1>7, <1>8 DEF SignalStep

\* A stop that comes while the bot joins is kept as a stop, and from then on no
\* step makes anything else of it, whatever the page shows, whichever limit passes
\* and however often it is repeated: the session reports the request's own reason,
\* an error set with it stays set, and the join goes on, succeeds, or ends in the
\* cleanup, never in the error state (join.go:55-107, waiting_room.go:55-67).
StopsStay ==
    [][ShouldStop /\ Joining =>
          /\ endReason' \in StopReasons
          /\ endReason' = "exitingMeetingBeforeRecord" => hasError'
          /\ hasError => hasError'
          /\ Joining' \/ pc' \in {"inCall", "cleanup"}]_setupVars

\* This and RetriesRunOut leave of StopBeatsTimeout only that the goroutine runs:
\* once stopped it looks at the lobby no more, and every step burns its measure.
THEOREM StopsStayStops == SetupSpec => StopsStay
<1>1. SetupInit => OnlyStops
  BY DEF SetupInit, OnlyStops
<1>2. ASSUME SInv, OnlyStops, OnlyStops', [SetupNext]_setupVars
      PROVE  [ShouldStop /\ Joining =>
                 /\ endReason' \in StopReasons
                 /\ endReason' = "exitingMeetingBeforeRecord" => hasError'
                 /\ hasError => hasError'
                 /\ Joining' \/ pc' \in {"inCall", "cleanup"}]_setupVars
  <2> SUFFICES ASSUME ShouldStop, Joining
               PROVE  /\ endReason' \in StopReasons
                      /\ endReason' = "exitingMeetingBeforeRecord" => hasError'
                      /\ hasError => hasError'
                      /\ Joining' \/ pc' \in {"inCall", "cleanup"}
    OBVIOUS
  <2>0. /\ endReason \in StopReasons
        /\ endReason = "exitingMeetingBeforeRecord" => hasError
    BY <1>2 DEF OnlyStops, Joining, JoinLoop, ShouldStop
  <2>1. CASE NameStep \/ JoinStep
    <3>1. UNCHANGED outcome /\ (Joining' \/ pc' \in {"inCall", "cleanup"})
      BY <2>1 DEF Joining, JoinLoop, NameStep, TypeName, CancelCheck, JoinStep, Poll, Detect,
         Returns, Answer, JoinFailed, JoinClassify, PageChanges, ShouldStop, outcome, Goto
    <3>2. QED
      BY <2>0, <3>1 DEF outcome
  <2>2. CASE StopRequested
    <3>1. pc' = pc
      BY <2>2 DEF StopRequested
    <3>2. CASE SetError("exitingMeetingBeforeRecord")
      BY <3>1, <3>2 DEF SetError, StopReasons, Joining
    <3>3. CASE endReason' = "apiRequest" /\ UNCHANGED hasError
      BY <3>1, <3>3 DEF StopReasons, Joining
    <3>4. QED
      BY <2>2, <3>2, <3>3 DEF StopRequested
  <2>3. CASE TimePasses \/ Sigterm \/ UNCHANGED setupVars
    BY <2>0, <2>3 DEF TimePasses, Sigterm, setupVars, Joining, outcome
  <2>4. ~(Enter \/ Parse \/ LaunchStep \/ OpenStep \/ EndStep \/ CloseBrowser)
    BY DEF Joining, JoinLoop, Enter, Stages, Parse, LaunchStep, RuntimeFailed, ContextFailed,
       LaunchFailed, Launched, Backoff, OpenStep, NewPage, GotoPage, Frozen, Opened, EndStep,
       EndOfCall, SendError, CloseBrowser, Goto
  <2>5. QED
    BY <1>2, <2>1, <2>2, <2>3, <2>4, SetupCases DEF SignalStep
<1>3. QED
  BY <1>1, <1>2, OnlyStopsStep, SetupInvariance, PTL DEF SetupSpec, StopsStay

=============================================================================
