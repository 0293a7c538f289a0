----------------------------- MODULE MeetingUrls -----------------------------
(***************************************************************************)
(* How a meeting link becomes a provider and the address the bot opens:    *)
(* DetectProvider, the registry of parsers and the parsers of Google Meet  *)
(* and Microsoft Teams. A link is its spelling (how it was pasted), the    *)
(* kind of host and path, and the parts that a parser takes from it; an    *)
(* address a parser returns is a link again.                               *)
(***************************************************************************)
EXTENDS Naturals

CONSTANTS
    Codes,        \* meeting codes
    Passwords,    \* values of the p= parameter
    None          \* no code, no password, no wrapped link

\* The link as such; without its scheme; between double quotes; after other
\* text; before other text; with backslashes before ?, = and &; encoded as the
\* parameter of a redirect of Google's; percent-encoded as a whole.
Spellings == {"plain", "bare", "quoted", "textBefore", "textAfter", "escaped",
              "redirect", "encoded"}

Hosts == {"meet", "teamsMicrosoft", "teamsLive", "zoom", "other"}

\* code:     meet.google.com/<code> or teams.live.com/meet/<code>
\* launcher: /dl/launcher/, the link proper in its url= parameter
\* light:    /light-meetings/launch, the link proper in its coords= parameter
\* meetup:   /l/meetup-join/<thread>/<n>?context=
\* v2:       /v2/?meetingjoin=true#/l/meetup-join/...
Paths == {"code", "launcher", "light", "meetup", "v2", "else"}

\* What a launcher or coords parameter holds: a code with its password, a
\* thread (conversation, tenant and message), or neither.
Wrapped == [kind : {"code"}, code : Codes, p : Passwords \union {None}]
             \union [kind : {"thread"}, code : Codes, p : {None}]

Links ==
    {u \in [spelling : Spellings, host : Hosts, path : Paths,
            code : Codes \union {None}, p : Passwords \union {None},
            anon : BOOLEAN, inner : Wrapped \union {None}] :
        /\ u.path \in {"launcher", "light"} => u.code = None
        /\ u.path \notin {"launcher", "light"} => u.inner = None
        /\ u.path \in {"meetup", "v2"} => u.code # None
        /\ u.path \in {"meetup", "v2", "launcher"} => u.p = None
        /\ u.host \in {"meet", "zoom", "other"} => u.path \in {"code", "else"} /\ ~u.anon /\ u.p = None
        /\ u.spelling = "textAfter" => u.host = "meet"    \* Teams takes the text for a value
        /\ u.host = "teamsLive" => u.path \in {"code", "launcher", "light", "else"}
        /\ u.host = "teamsMicrosoft" => u.path \in {"light", "meetup", "v2", "else"}}

ASSUME NoneAssumption == None \notin Links \union Wrapped \union Codes

Invalid == [link |-> None, password |-> None]
Info(link, password) == [link |-> link, password |-> password]

-----------------------------------------------------------------------------
(* meeting/detect_provider.go: url.Parse must find a host *)

\* A redirect has a host, which is Google's search and not the meeting's.
ShowsHost(u) == u.spelling \in {"plain", "textAfter", "escaped"}

DetectProvider(u) ==
    IF ~ShowsHost(u) THEN "invalid"
    ELSE CASE u.host = "meet" -> "Meet"
           [] u.host \in {"teamsMicrosoft", "teamsLive"} -> "Teams"
           [] u.host = "zoom" -> "Zoom"
           [] OTHER -> "invalid"

-----------------------------------------------------------------------------
(* meet/url_parser.go *)

Plain(u) == [u EXCEPT !.spelling = "plain"]

\* Quotes, escapes and other text are stripped and a scheme is added; only an
\* encoding, which hides the slash before the code, is not undone.
MeetParseURL(u) ==
    IF /\ u.spelling \notin {"encoded", "redirect"}
       /\ u.host = "meet"
       /\ u.path = "code"
       /\ u.code # None
    THEN Info(Plain(u), None)
    ELSE Invalid

-----------------------------------------------------------------------------
(* teams/url_parser.go *)

LiveLink(code, p) ==
    [spelling |-> "plain", host |-> "teamsLive", path |-> "code", code |-> code,
     p |-> p, anon |-> TRUE, inner |-> None]

V2Link(code) ==
    [spelling |-> "plain", host |-> "teamsMicrosoft", path |-> "v2", code |-> code,
     p |-> None, anon |-> TRUE, inner |-> None]

-----------------------------------------------------------------------------
(* Plausible bugs: each replaces the definition it is named after *)

\* The link gets the p of the query, the password the passcode.
ParseLightMeetingsURLQuery(u) ==
    IF u.inner = None THEN Invalid
    ELSE IF u.inner.kind = "thread" THEN Info(V2Link(u.inner.code), None)
    ELSE Info(LiveLink(u.inner.code, u.p), u.inner.p)

-----------------------------------------------------------------------------
(* teams/url_parser.go, continued *)

\* The passcode in the coordinates is preferred to the one in the query.
ParseLightMeetingsURL(u) ==
    IF u.inner = None THEN Invalid
    ELSE IF u.inner.kind = "thread" THEN Info(V2Link(u.inner.code), None)
    ELSE LET p == IF u.inner.p # None THEN u.inner.p ELSE u.p
         IN  Info(LiveLink(u.inner.code, p), p)

ParseTeamsLiveURL(u) ==
    CASE u.path = "launcher" ->
            IF u.inner # None /\ u.inner.kind = "code"
            THEN Info(LiveLink(u.inner.code, u.inner.p), u.inner.p)
            ELSE Invalid
      [] u.path = "light" -> ParseLightMeetingsURL(u)
      [] u.path = "code" /\ u.code # None -> Info(u, u.p)
      [] OTHER -> Invalid

AppendAnonParam(u) == [u EXCEPT !.anon = TRUE]

TransformTeamsLink(u) ==
    IF u.path = "meetup" THEN V2Link(u.code) ELSE AppendAnonParam(u)

ParseTeamsMicrosoftURL(u) ==
    CASE u.path = "v2" -> Info(u, None)
      [] u.path = "light" -> ParseLightMeetingsURL(u)
      [] OTHER -> Info(TransformTeamsLink(u), None)

\* A redirect, an encoding and escapes are undone; nothing else is.
TeamsParseURL(u) ==
    CASE u.spelling \in {"bare", "quoted", "textBefore"} -> Invalid
      [] u.host = "teamsLive" -> ParseTeamsLiveURL(Plain(u))
      [] u.host = "teamsMicrosoft" -> ParseTeamsMicrosoftURL(Plain(u))
      [] OTHER -> Invalid

-----------------------------------------------------------------------------
(* meeting/url_parser.go: the worker links the parser of Google Meet alone, so
   a provider that is known and has none gives empty information and no error *)

Registered == {"Meet"}

Parsed(provider, err, info) == [provider |-> provider, err |-> err, info |-> info]

ParseURL(u) ==
    LET provider == DetectProvider(u)
    IN  CASE provider = "invalid" -> Parsed(None, TRUE, Invalid)
          [] provider \notin Registered -> Parsed(provider, FALSE, Invalid)
          [] OTHER -> LET info == MeetParseURL(u)
                      IN  Parsed(provider, info = Invalid, info)

=============================================================================
