------------------------------- MODULE Frontend -------------------------------
(***************************************************************************)
(* The web client (fe/src/App.tsx on the combinators of watch.ts): one     *)
(* page, computed from the address bar, the signed-in user, the messages   *)
(* of a get_game stream, and what the user does on the page.               *)
(*                                                                         *)
(* App is combine(urlBar, authState), under switchMap(newState), under     *)
(* mapFold(fold).  Each of the four sources settles a promise, and a       *)
(* Promise.race per combinator picks one that has settled.  An action of   *)
(* this module is one event of the browser or one such pick.  The browser  *)
(* runs promise callbacks to the end before the next event (Quiet), but    *)
(* one event may settle several: a chunk of a stream has several messages. *)
(*                                                                         *)
(* Rendering is left out: index.tsx renders every page in turn, so that    *)
(* the user acts on the last one.  Firebase, the grpc client, the AsyncSink*)
(* of ix and the browser are external.                                     *)
(***************************************************************************)
EXTENDS Naturals, Sequences

CONSTANTS
    GameIds, Uids,
    AsParsed,       \* what parseLocation reads in the address of a game
    Views,          \* the messages of a stream, of the kinds a page tells apart
    MaxStreams,     \* bound: calls of getGame
    MaxChunk        \* bound: messages in a chunk

Home == [page |-> "home"]
Unknown == [page |-> "unknown"]
GameAt(g) == [page |-> "game", gameId |-> g]

Location == {Home, Unknown} \cup {GameAt(g) : g \in GameIds}

Fetch == {"LOADING", "UNAVAILABLE"} \cup Uids

ASSUME ParametersAssumption ==
    /\ AsParsed \in [GameIds -> Location]
    /\ {"unstarted", "yourTurn"} \subseteq Views
    /\ {"loading", "disconnected", "end"} \cap Views = {}
    /\ {"LOADING", "UNAVAILABLE"} \cap Uids = {}
    /\ MaxStreams \in Nat /\ MaxChunk \in Nat

VARIABLES
    location,       \* document.location
    entries,        \* the session history, which the back button goes through
    popped,         \* a popstate event that watchableUrlBar has not taken
    urlBar,         \* the value of watchableUrlBar in combine
    authSink,       \* users told by Firebase and not yet taken
    auth,           \* the value of watchableAuthState in combine
    state,          \* the State of the page
    unread,         \* messages of the page's stream, not yet taken
    action,         \* the action in the sink of the page, or NoAction
    streams,        \* the calls of getGame so far
    sent,           \* history: the last message of each of them
    intent,         \* history: the last request the user asked for on a page
    request,        \* history: what was sent for it
    stale           \* history: auth changed while urlBar was not the address

vars == <<location, entries, popped, urlBar, authSink, auth, state, unread, action,
          streams, sent, intent, request, stale>>

sources == <<location, entries, popped, urlBar, authSink, auth>>
history == <<sent, intent, request, stale>>

NoAction == [kind |-> "none"]
NoRequest == [kind |-> "none"]

\* parseLocation(document.location.pathname), after serializeLocation.
Parse(loc) == IF loc.page = "game" THEN AsParsed[loc.gameId] ELSE loc

-----------------------------------------------------------------------------
\* newState, without the call of getGame that it makes for a game.
NewState(loc, user) ==
    CASE user = "LOADING" -> [state |-> "LOAD_AUTH"]
      [] user = "UNAVAILABLE" -> [state |-> "SIGN_IN"]
      [] user \in Uids /\ loc.page = "home" -> [state |-> "HOME", user |-> user]
      [] user \in Uids /\ loc.page = "unknown" -> [state |-> "404", user |-> user]
      [] user \in Uids /\ loc.page = "game" ->
            [state |-> "SHOW_GAME", user |-> user, gameId |-> loc.gameId,
             stream |-> Len(streams) + 1, game |-> "loading"]

FetchedUserFromState(s) ==
    CASE s.state = "SIGN_IN" -> "UNAVAILABLE"
      [] s.state = "LOAD_AUTH" -> "LOADING"
      [] OTHER -> s.user

\* A new page, with a sink of its own for actions; a game's page calls getGame.
\* The stream of the page before goes on, but nobody reads what it says.
GoTo(loc, user) ==
    /\ state' = NewState(loc, user)
    /\ IF state'.state = "SHOW_GAME"
       THEN /\ streams' = Append(streams, [gameId |-> loc.gameId, user |-> user])
            /\ sent' = Append(sent, "loading")
       ELSE UNCHANGED <<streams, sent>>
    /\ action' = NoAction
    /\ unread' = <<>>

Init == /\ location \in Location
        /\ entries = {location}
        /\ popped = FALSE
        /\ urlBar = Parse(location)
        /\ authSink = <<>>
        /\ auth = "LOADING"
        /\ state = [state |-> "LOAD_AUTH"]
        /\ unread = <<>>
        /\ action = NoAction
        /\ streams = <<>> /\ sent = <<>>
        /\ intent = NoRequest /\ request = NoRequest
        /\ stale = FALSE

-----------------------------------------------------------------------------
(* Settled promises.                                                       *)

\* Faulty variant: watchableUrlBar goes on with the address it was made for.
UrlNextAsBefore ==
    /\ popped
    /\ popped' = FALSE /\ stale' = FALSE
    /\ GoTo(urlBar, auth)
    /\ UNCHANGED <<location, entries, urlBar, authSink, auth, intent, request>>

\* The popstate listener, then watchableUrlBar, which reads the address and
\* listens again; combine keeps auth; switchMap starts over with newState.
UrlNext ==
    /\ popped
    /\ popped' = FALSE /\ stale' = FALSE
    /\ urlBar' = Parse(location)
    /\ GoTo(urlBar', auth)
    /\ UNCHANGED <<location, entries, authSink, auth, intent, request>>

\* Faulty variant: the page keeps the user that it was made for.
AuthNextAsBefore ==
    /\ authSink # <<>>
    /\ auth' = Head(authSink) /\ authSink' = Tail(authSink)
    /\ stale' = (urlBar # Parse(location))
    /\ GoTo(urlBar, IF auth \in Uids THEN auth ELSE auth')
    /\ UNCHANGED <<location, entries, popped, urlBar, intent, request>>

\* The next user; combine keeps urlBar, whose value is that of the last
\* popstate: pushState fires none.
AuthNext ==
    /\ authSink # <<>>
    /\ auth' = Head(authSink) /\ authSink' = Tail(authSink)
    /\ stale' = (urlBar # Parse(location))
    /\ GoTo(urlBar, auth')
    /\ UNCHANGED <<location, entries, popped, urlBar, intent, request>>

\* Faulty variant: the end of the stream is taken for a message.
GameNextOrEnd ==
    /\ unread # <<>>
    /\ state' = [state EXCEPT !.game = Head(unread)]
    /\ unread' = Tail(unread)
    /\ action' = NoAction
    /\ UNCHANGED <<sources, streams, history>>

\* The next message of the page's stream: sealState, and the source branch of
\* mapFold, which makes a new page; the end of the stream repeats the last one.
GameNext ==
    /\ unread # <<>>
    /\ state' = IF Head(unread) = "end" THEN state
                ELSE [state EXCEPT !.game = Head(unread)]
    /\ unread' = Tail(unread)
    /\ action' = NoAction
    /\ UNCHANGED <<sources, streams, history>>

\* Faulty variant: the branch of join sends what the branch of create sends.
SentAsCreate(a) ==
    [kind |-> IF a.kind = "join" THEN "create" ELSE a.kind,
     gameId |-> IF a.kind \in {"create", "join"} THEN a.gameId ELSE state.gameId,
     user |-> state.user]

\* The request that fold sends for an action other than navigate.
Sent(a) ==
    [kind |-> a.kind,
     gameId |-> IF a.kind \in {"create", "join"} THEN a.gameId ELSE state.gameId,
     user |-> state.user]

\* fold throws for an action that does not fit the state; RequestsAsAsked says
\* that it never meets one, so that throwing is no step of this module.
Fits(a) == \/ a.kind \in {"none", "navigate"}
           \/ a.kind \in {"create", "join"} /\ state.state = "HOME"
           \/ a.kind \in {"start", "submit"} /\ state.state = "SHOW_GAME"

Navigate == /\ action.kind = "navigate"
            /\ GoTo(action.location, FetchedUserFromState(state))
            /\ stale' = FALSE
            /\ UNCHANGED <<sources, intent, request>>

SendRequest == /\ action.kind \in {"create", "join", "start", "submit"}
               /\ Fits(action)
               /\ request' = Sent(action)
               /\ action' = NoAction
               /\ UNCHANGED <<sources, state, unread, streams, sent, intent, stale>>

-----------------------------------------------------------------------------
(* Events of the browser, each after all callbacks have run.               *)
Quiet == ~popped /\ authSink = <<>> /\ action = NoAction /\ unread = <<>>

\* Back or forward, between the entries that this run of the program made.
Pop == /\ Quiet /\ Len(streams) < MaxStreams
       /\ location' \in entries
       /\ popped' = TRUE
       /\ UNCHANGED <<entries, urlBar, authSink, auth, state, unread, action, streams, history>>

\* onAuthStateChanged: signed in or out, here or in another window.
AuthChanged(user) ==
    /\ Quiet /\ Len(streams) < MaxStreams
    /\ authSink' = Append(authSink, user)
    /\ UNCHANGED <<location, entries, popped, urlBar, auth, state, unread, action,
                   streams, history>>

\* Faulty variant: the sink is the same for all calls of getGame.
HeardOnAnyPage(i) == state.state = "SHOW_GAME"

\* Each call of getGame has a sink of its own, which its page's watchable reads.
Heard(i) == state.state = "SHOW_GAME" /\ state.stream = i

\* A chunk of a stream: several messages, and perhaps its end.  A failure of
\* the stream is written as "disconnected", then the sink is ended.
Data(i, chunk) ==
    /\ Quiet /\ sent[i] # "disconnected"
    /\ sent' = [sent EXCEPT ![i] = chunk[Len(chunk)]]
    /\ unread' = IF ~Heard(i) THEN <<>>
                 ELSE IF chunk[Len(chunk)] = "disconnected" THEN Append(chunk, "end")
                 ELSE chunk
    /\ UNCHANGED <<sources, state, action, streams, intent, request, stale>>

\* The forms of the home page and the buttons of a game's page.
CreateOrJoin(kind, g) ==
    /\ Quiet /\ state.state = "HOME"
    /\ action' = [kind |-> kind, gameId |-> g]
    /\ intent' = [kind |-> kind, gameId |-> g, user |-> auth]
    /\ request' = NoRequest
    /\ UNCHANGED <<sources, state, unread, streams, sent, stale>>

StartOrSubmit(kind, view) ==
    /\ Quiet /\ state.state = "SHOW_GAME" /\ state.game = view
    /\ action' = [kind |-> kind]
    /\ intent' = [kind |-> kind, gameId |-> streams[state.stream].gameId, user |-> auth]
    /\ request' = NoRequest
    /\ UNCHANGED <<sources, state, unread, streams, sent, stale>>

\* "Go to a game": pushState, then the action navigate.
GoToGame(g) ==
    /\ Quiet /\ state.state = "HOME" /\ Len(streams) < MaxStreams
    /\ location' = GameAt(g)
    /\ entries' = entries \cup {GameAt(g)}
    /\ action' = [kind |-> "navigate", location |-> GameAt(g)]
    /\ UNCHANGED <<popped, urlBar, authSink, auth, state, unread, streams, history>>

Chunks == (UNION {[1..n -> Views] : n \in 1..MaxChunk})
          \cup {Append(c, "disconnected") : c \in UNION {[1..n -> Views] : n \in 0..(MaxChunk - 1)}}

Next == \/ UrlNext \/ AuthNext \/ GameNext \/ Navigate \/ SendRequest
        \/ Pop
        \/ \E user \in {"UNAVAILABLE"} \cup Uids : AuthChanged(user)
        \/ \E i \in DOMAIN streams, chunk \in Chunks : Data(i, chunk)
        \/ \E kind \in {"create", "join"}, g \in GameIds : CreateOrJoin(kind, g)
        \/ StartOrSubmit("start", "unstarted") \/ StartOrSubmit("submit", "yourTurn")
        \/ \E g \in GameIds : GoToGame(g)

Spec == Init /\ [][Next]_vars

-----------------------------------------------------------------------------
TypeOK ==
    /\ location \in Location /\ urlBar \in Location /\ entries \subseteq Location
    /\ popped \in BOOLEAN /\ stale \in BOOLEAN
    /\ auth \in Fetch /\ authSink \in Seq(Fetch)
    /\ state.state \in {"LOAD_AUTH", "SIGN_IN", "HOME", "404", "SHOW_GAME"}
    /\ state.state = "SHOW_GAME" => state.game \in Views \cup {"loading", "disconnected"}
    /\ unread \in Seq(Views \cup {"disconnected", "end"})
    /\ streams \in Seq([gameId : GameIds, user : Uids])

\* The page is that of the user whom switchMap last took from Firebase's reports
\* (App.tsx:278; reports that wait in authSink have not been taken): not after a
\* sign-out in another window, and not after a navigation, which takes the user
\* from the page (App.tsx:219), is it another user's.
PageIsOfTheUser == FetchedUserFromState(state) = auth

\* A game's page shows the last message of the stream that was opened for its
\* game and its user: messages of streams that were left, and never cancelled
\* (App.tsx:154-174), do not get there, and no race loses one (watch.ts:58, 154).
LatestIsShown ==
    state.state = "SHOW_GAME" =>
        /\ streams[state.stream] = [gameId |-> state.gameId, user |-> state.user]
        /\ Quiet => state.game = sent[state.stream]

\* When the callbacks have run, a signed-in user sees the page of the address:
\* of the address as it was pushed, or as parseLocation reads it.  There is one
\* exception, `stale': the user changed after a pushState, which urlBar does
\* not know of (App.tsx:196-203).
AddressIsShown ==
    LET Shows(loc) == CASE state.state = "HOME" -> loc.page = "home"
                        [] state.state = "404" -> loc.page = "unknown"
                        [] state.state = "SHOW_GAME" -> loc = GameAt(state.gameId)
                        [] OTHER -> FALSE
    IN  Quiet /\ auth \in Uids /\ ~stale => Shows(location) \/ Shows(Parse(location))

\* What the user asks for on a page is sent, for the game and the user of that
\* page: fold never meets an action of another page, on which it would throw
\* (App.tsx:222, 233, 244, 256), and no race loses an action (watch.ts:154).
RequestsAsAsked ==
    /\ Fits(action)
    /\ Quiet => request = intent
=============================================================================
