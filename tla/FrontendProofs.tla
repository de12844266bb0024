---------------------------- MODULE FrontendProofs ----------------------------
(***************************************************************************)
(* Proofs about Frontend, for any games, users and messages, any number of *)
(* streams and chunks of any length.                                       *)
(*                                                                         *)
(* The inductive invariant rests on OneSettles: the browser lets at most   *)
(* one source of a combinator settle at a time, so that no Promise.race    *)
(* drops what another source had to say.  The other parts say what a       *)
(* settled promise holds: the location that was pushed, the request that   *)
(* the user asked for, the last message of the page's stream.              *)
(***************************************************************************)
EXTENDS Frontend, SequenceTheorems, TLAPS

Requests == {"create", "join", "start", "submit"}

Message == Views \cup {"disconnected"}

\* The pages, of App.tsx's type State.
Page ==
    [state : {"LOAD_AUTH", "SIGN_IN"}]
    \cup [state : {"HOME", "404"}, user : Uids]
    \cup [state : {"SHOW_GAME"}, user : Uids, gameId : GameIds, stream : DOMAIN streams,
          game : Message \cup {"loading"}]

\* The actions that the forms and buttons of a page make.
Action ==
    {NoAction}
    \cup [kind : {"navigate"}, location : Location]
    \cup [kind : {"create", "join"}, gameId : GameIds]
    \cup [kind : {"start", "submit"}]

ShapesOK ==
    /\ state \in Page /\ action \in Action
    /\ sent \in Seq(Message \cup {"loading"}) /\ Len(sent) = Len(streams)

\* At most one promise has settled.
OneSettles ==
    /\ popped => authSink = <<>> /\ action = NoAction /\ unread = <<>>
    /\ authSink # <<>> => Len(authSink) = 1 /\ action = NoAction /\ unread = <<>>
    /\ action # NoAction => unread = <<>>

\* A navigation leads where the address bar was set, from a page that can send
\* what the user asks for.
ActionIsOfThePage ==
    /\ action.kind = "navigate" => action.location = location
    /\ Fits(action)

\* What the user asked for last is sent, or waits in the sink of the page.
IntentIsSent ==
    IF action.kind \in Requests THEN Sent(action) = intent ELSE request = intent

PageIsOfItsStream ==
    state.state = "SHOW_GAME" =>
        /\ streams[state.stream] = [gameId |-> state.gameId, user |-> state.user]
        /\ unread = <<>> => state.game = sent[state.stream]

\* The last unread message is the last that the page's stream has sent.
UnreadEndsWithSent ==
    unread # <<>> =>
        LET n == Len(unread)
        IN  /\ state.state = "SHOW_GAME"
            /\ \A i \in 1..(n - 1) : unread[i] # "end"
            /\ unread[n] # "end" => unread[n] = sent[state.stream]
            /\ unread[n] = "end" =>
                  (IF n = 1 THEN state.game ELSE unread[n - 1]) = sent[state.stream]

\* A page is that of an address.
IsPageOf(s, loc) == \/ s.state = "HOME" /\ loc.page = "home"
                    \/ s.state = "404" /\ loc.page = "unknown"
                    \/ s.state = "SHOW_GAME" /\ loc = GameAt(s.gameId)

PageIsOfTheAddress ==
    ~popped /\ action.kind # "navigate" /\ auth \in Uids /\ ~stale =>
        IsPageOf(state, location) \/ IsPageOf(state, Parse(location))

IInv == /\ TypeOK
        /\ ShapesOK
        /\ OneSettles
        /\ PageIsOfTheUser
        /\ ActionIsOfThePage
        /\ IntentIsSent
        /\ PageIsOfItsStream
        /\ UnreadEndsWithSent
        /\ PageIsOfTheAddress

-----------------------------------------------------------------------------
LEMMA LocationCases ==
    ASSUME NEW loc \in Location
    PROVE  /\ loc.page \in {"home", "unknown", "game"}
           /\ loc.page = "game" => loc.gameId \in GameIds /\ loc = GameAt(loc.gameId)
           /\ Parse(loc) \in Location
<1>1. CASE loc = Home \/ loc = Unknown
  BY <1>1 DEF Home, Unknown, Parse
<1>2. CASE \E g \in GameIds : loc = GameAt(g)
  <2>1. PICK g \in GameIds : loc = GameAt(g)
    BY <1>2
  <2>2. loc.page = "game" /\ loc.gameId = g
    BY <2>1 DEF GameAt
  <2>3. AsParsed[g] \in Location
    BY ParametersAssumption
  <2>. QED
    BY <2>1, <2>2, <2>3 DEF Parse
<1>. QED
  BY <1>1, <1>2 DEF Location

\* newState, case by case.
LEMMA NewStateCases ==
    ASSUME NEW loc \in Location, NEW user \in Fetch
    PROVE  /\ user \notin Uids =>
                  /\ NewState(loc, user).state \in {"LOAD_AUTH", "SIGN_IN"}
                  /\ NewState(loc, user) \in [state : {"LOAD_AUTH", "SIGN_IN"}]
           /\ user \in Uids /\ loc.page = "home" =>
                  NewState(loc, user) = [state |-> "HOME", user |-> user]
           /\ user \in Uids /\ loc.page = "unknown" =>
                  NewState(loc, user) = [state |-> "404", user |-> user]
           /\ user \in Uids /\ loc.page = "game" =>
                  NewState(loc, user) =
                      [state |-> "SHOW_GAME", user |-> user, gameId |-> loc.gameId,
                       stream |-> Len(streams) + 1, game |-> "loading"]
           /\ FetchedUserFromState(NewState(loc, user)) = user
<1>1. loc.page \in {"home", "unknown", "game"}
  BY LocationCases
<1>2. user \in Uids => user # "LOADING" /\ user # "UNAVAILABLE"
  BY ParametersAssumption
<1>3. CASE user = "LOADING"
  <2>1. NewState(loc, user) = [state |-> "LOAD_AUTH"]
    BY <1>2, <1>3 DEF NewState
  <2>2. FetchedUserFromState([state |-> "LOAD_AUTH"]) = "LOADING"
    BY DEF FetchedUserFromState
  <2>. QED  BY <1>2, <1>3, <2>1, <2>2
<1>4. CASE user = "UNAVAILABLE"
  <2>1. NewState(loc, user) = [state |-> "SIGN_IN"]
    BY <1>2, <1>4 DEF NewState
  <2>2. FetchedUserFromState([state |-> "SIGN_IN"]) = "UNAVAILABLE"
    BY DEF FetchedUserFromState
  <2>. QED  BY <1>2, <1>4, <2>1, <2>2
<1>5. CASE user \in Uids
  <2>1. CASE loc.page = "home"
    <3>1. NewState(loc, user) = [state |-> "HOME", user |-> user]
      BY <1>2, <1>5, <2>1 DEF NewState
    <3>. QED  BY <1>5, <2>1, <3>1 DEF FetchedUserFromState
  <2>2. CASE loc.page = "unknown"
    <3>1. NewState(loc, user) = [state |-> "404", user |-> user]
      BY <1>2, <1>5, <2>2 DEF NewState
    <3>. QED  BY <1>5, <2>2, <3>1 DEF FetchedUserFromState
  <2>3. CASE loc.page = "game"
    <3>1. NewState(loc, user) =
              [state |-> "SHOW_GAME", user |-> user, gameId |-> loc.gameId,
               stream |-> Len(streams) + 1, game |-> "loading"]
      BY <1>2, <1>5, <2>3 DEF NewState
    <3>. QED  BY <1>5, <2>3, <3>1 DEF FetchedUserFromState
  <2>. QED
    BY <1>1, <2>1, <2>2, <2>3
<1>. QED
  BY <1>3, <1>4, <1>5 DEF Fetch

\* What FetchedUserFromState reads in a page.
LEMMA UserOfPage ==
    ASSUME NEW s \in Page
    PROVE  /\ s.state = "LOAD_AUTH" => FetchedUserFromState(s) = "LOADING"
           /\ s.state = "SIGN_IN" => FetchedUserFromState(s) = "UNAVAILABLE"
           /\ s.state \in {"HOME", "404", "SHOW_GAME"} =>
                  FetchedUserFromState(s) = s.user /\ s.user \in Uids
           /\ FetchedUserFromState(s) \in Fetch
           /\ s.state \in {"LOAD_AUTH", "SIGN_IN", "HOME", "404", "SHOW_GAME"}
BY DEF Page, FetchedUserFromState, Fetch

LEMMA ActionCases ==
    ASSUME action \in Action
    PROVE  /\ action.kind = "none" <=> action = NoAction
           /\ action.kind \in {"none", "navigate"} \cup Requests
           /\ action.kind = "navigate" => action.location \in Location
BY DEF Action, NoAction, Requests

LEMMA InitIInv == Init => IInv
<1>. SUFFICES ASSUME Init
              PROVE  IInv
  OBVIOUS
<1>. USE DEF Init
<1>1. location \in Location /\ Parse(location) \in Location
  BY LocationCases
<1>2. TypeOK
  <2>1. /\ streams \in Seq([gameId : GameIds, user : Uids])
        /\ authSink \in Seq(Fetch)
        /\ unread \in Seq(Views \cup {"disconnected", "end"})
    BY EmptySeq
  <2>2. /\ auth \in Fetch /\ entries \subseteq Location
        /\ state.state = "LOAD_AUTH"
    BY <1>1 DEF Fetch
  <2>. QED
    BY <1>1, <2>1, <2>2 DEF TypeOK
<1>3. ShapesOK
  BY DEF ShapesOK, Page, Action
<1>4. OneSettles /\ UnreadEndsWithSent /\ PageIsOfItsStream
  BY DEF OneSettles, UnreadEndsWithSent, PageIsOfItsStream
<1>5. PageIsOfTheUser
  BY DEF PageIsOfTheUser, FetchedUserFromState
<1>6. ActionIsOfThePage /\ IntentIsSent
  BY DEF ActionIsOfThePage, IntentIsSent, Fits, NoAction, Requests
<1>7. PageIsOfTheAddress
  BY ParametersAssumption DEF PageIsOfTheAddress
<1>. QED
  BY <1>2, <1>3, <1>4, <1>5, <1>6, <1>7 DEF IInv

\* A new page: of its user and its address, with nothing to read or to send, and
\* with a stream of its own if it is a game's.
LEMMA GoToPage ==
    ASSUME IInv, NEW loc, loc \in Location, NEW user, user \in Fetch, GoTo(loc, user)
    PROVE  /\ state' \in Page' /\ streams' \in Seq([gameId : GameIds, user : Uids])
           /\ sent' \in Seq(Message \cup {"loading"}) /\ Len(sent') = Len(streams')
           /\ state'.state \in {"LOAD_AUTH", "SIGN_IN", "HOME", "404", "SHOW_GAME"}
           /\ state'.state = "SHOW_GAME" => state'.game = "loading"
           /\ FetchedUserFromState(state') = user
           /\ user \in Uids => IsPageOf(state', loc)
           /\ action' = NoAction /\ unread' = <<>>
           /\ PageIsOfItsStream' /\ UnreadEndsWithSent'
<1>1. /\ state' = NewState(loc, user) /\ action' = NoAction /\ unread' = <<>>
      /\ state'.state = "SHOW_GAME" =>
            /\ streams' = Append(streams, [gameId |-> loc.gameId, user |-> user])
            /\ sent' = Append(sent, "loading")
      /\ state'.state # "SHOW_GAME" => streams' = streams /\ sent' = sent
  BY DEF GoTo
<1>2. /\ streams \in Seq([gameId : GameIds, user : Uids])
      /\ sent \in Seq(Message \cup {"loading"}) /\ Len(sent) = Len(streams)
      /\ Len(streams) \in Nat
  BY LenProperties DEF IInv, TypeOK, ShapesOK
<1>3. FetchedUserFromState(state') = user
  BY <1>1, NewStateCases
<1>4. loc.page \in {"home", "unknown", "game"}
  BY LocationCases
<1>5. UnreadEndsWithSent'
  BY <1>1 DEF UnreadEndsWithSent
<1>6. CASE user \in Uids /\ loc.page = "game"
  <2>1. state' = [state |-> "SHOW_GAME", user |-> user, gameId |-> loc.gameId,
                  stream |-> Len(streams) + 1, game |-> "loading"]
    BY <1>1, <1>6, NewStateCases
  <2>2. loc.gameId \in GameIds /\ loc = GameAt(loc.gameId)
    BY <1>6, LocationCases
  <2>3. [gameId |-> loc.gameId, user |-> user] \in [gameId : GameIds, user : Uids]
    BY <1>6, <2>2
  <2>. DEFINE call == [gameId |-> loc.gameId, user |-> user]
  <2>4. streams' = Append(streams, call) /\ sent' = Append(sent, "loading")
    BY <1>1, <2>1
  <2>. HIDE DEF call
  <2>5. /\ streams' \in Seq([gameId : GameIds, user : Uids])
        /\ Len(streams') = Len(streams) + 1
        /\ streams'[Len(streams) + 1] = [gameId |-> loc.gameId, user |-> user]
    <3>1. call \in [gameId : GameIds, user : Uids]
      BY <2>3 DEF call
    <3>2. /\ streams' \in Seq([gameId : GameIds, user : Uids])
          /\ Len(streams') = Len(streams) + 1
          /\ streams'[Len(streams) + 1] = call
      BY <1>2, <2>4, <3>1, AppendProperties
    <3>. QED  BY <3>2 DEF call
  <2>6. /\ sent' \in Seq(Message \cup {"loading"}) /\ Len(sent') = Len(sent) + 1
        /\ sent'[Len(sent) + 1] = "loading"
    BY <1>2, <2>4, AppendProperties
  <2>7. Len(streams) + 1 \in DOMAIN streams'
    BY <1>2, <2>5, LenProperties
  <2>8. state' \in Page'
    BY <1>6, <2>1, <2>2, <2>7 DEF Page
  <2>9. IsPageOf(state', loc)
    BY <2>1, <2>2 DEF IsPageOf
  <2>10. PageIsOfItsStream'
    BY <1>2, <2>1, <2>5, <2>6 DEF PageIsOfItsStream
  <2>. QED
    BY <1>1, <1>2, <1>3, <1>5, <2>1, <2>5, <2>6, <2>8, <2>9, <2>10
<1>7. CASE ~(user \in Uids /\ loc.page = "game")
  <2>1. \/ user \notin Uids /\ state' \in [state : {"LOAD_AUTH", "SIGN_IN"}]
        \/ user \in Uids /\ loc.page = "home" /\ state' = [state |-> "HOME", user |-> user]
        \/ user \in Uids /\ loc.page = "unknown" /\ state' = [state |-> "404", user |-> user]
    BY <1>1, <1>4, <1>7, NewStateCases
  <2>2. state'.state \in {"LOAD_AUTH", "SIGN_IN", "HOME", "404"}
    BY <2>1
  <2>3. state' \in Page'
    BY <2>1 DEF Page
  <2>4. user \in Uids => IsPageOf(state', loc)
    BY <2>1 DEF IsPageOf
  <2>5. PageIsOfItsStream'
    BY <2>2 DEF PageIsOfItsStream
  <2>. QED
    BY <1>1, <1>2, <1>3, <1>5, <2>2, <2>3, <2>4, <2>5
<1>. QED
  BY <1>6, <1>7

\* The steps that make a new page: no request waited in the one before.
LEMMA NewPageStep ==
    ASSUME IInv, UrlNext \/ AuthNext \/ Navigate
    PROVE  IInv'
<1>1. PICK l, user : /\ l \in Location /\ user \in Fetch /\ GoTo(l, user) /\ auth' = user
                     /\ ~stale' => l = location \/ l = Parse(location)
                     /\ action.kind \notin Requests
                     /\ popped' \in BOOLEAN /\ (popped' => authSink' = <<>>)
                     /\ stale' \in BOOLEAN /\ urlBar' \in Location
                     /\ authSink' = <<>>
                     /\ UNCHANGED <<location, entries, intent, request>>
  <2>1. CASE UrlNext
    <3>1. Parse(location) \in Location /\ auth \in Fetch /\ authSink = <<>> /\ action = NoAction
      BY <2>1, LocationCases DEF IInv, TypeOK, OneSettles, UrlNext
    <3>2. GoTo(Parse(location), auth) /\ auth' = auth
      BY <2>1 DEF UrlNext
    <3>. QED
      BY <2>1, <3>1, <3>2 DEF UrlNext, NoAction, Requests
  <2>2. CASE AuthNext
    <3>1. /\ authSink \in Seq(Fetch) /\ Len(authSink) = 1 /\ action = NoAction
          /\ ~popped /\ urlBar \in Location
      BY <2>2 DEF IInv, TypeOK, OneSettles, AuthNext
    <3>2. Head(authSink) \in Fetch /\ Tail(authSink) = <<>>
      <4>1. authSink # <<>>
        BY <2>2 DEF AuthNext
      <4>2. /\ Head(authSink) \in Fetch
            /\ Tail(authSink) \in Seq(Fetch) /\ Len(Tail(authSink)) = Len(authSink) - 1
        BY <3>1, <4>1, HeadTailProperties
      <4>3. Len(Tail(authSink)) = 0
        BY <3>1, <4>2
      <4>4. Tail(authSink) = <<>>
        BY <4>2, <4>3, EmptySeq
      <4>. QED  BY <4>2, <4>4
    <3>3. /\ GoTo(urlBar, Head(authSink)) /\ auth' = Head(authSink)
          /\ stale' = (urlBar # Parse(location))
          /\ authSink' = Tail(authSink)
          /\ UNCHANGED <<location, entries, popped, urlBar, intent, request>>
      BY <2>2 DEF AuthNext
    <3>4. stale' \in BOOLEAN /\ (~stale' => urlBar = Parse(location))
      BY <3>3
    <3>5. action.kind \notin Requests /\ popped' \in BOOLEAN
      BY <3>1, <3>3 DEF NoAction, Requests, IInv, TypeOK
    <3>. QED
      BY <3>1, <3>2, <3>3, <3>4, <3>5
  <2>3. CASE Navigate
    <3>1. /\ action.location = location /\ FetchedUserFromState(state) = auth
          /\ location \in Location /\ auth \in Fetch
          /\ popped \in BOOLEAN /\ urlBar \in Location
      BY <2>3 DEF IInv, TypeOK, ActionIsOfThePage, PageIsOfTheUser, Navigate
    <3>2. action # NoAction /\ ~popped /\ authSink = <<>>
      BY <2>3 DEF IInv, OneSettles, Navigate, NoAction
    <3>3. /\ GoTo(location, auth) /\ auth' = auth /\ stale' = FALSE
          /\ action.kind = "navigate"
          /\ UNCHANGED <<location, entries, popped, urlBar, authSink, intent, request>>
      BY <2>3, <3>1 DEF Navigate, sources
    <3>. QED
      BY <3>1, <3>2, <3>3 DEF Requests
  <2>. QED
    BY <2>1, <2>2, <2>3
<1>2. /\ state' \in Page' /\ streams' \in Seq([gameId : GameIds, user : Uids])
      /\ sent' \in Seq(Message \cup {"loading"}) /\ Len(sent') = Len(streams')
      /\ state'.state \in {"LOAD_AUTH", "SIGN_IN", "HOME", "404", "SHOW_GAME"}
      /\ state'.state = "SHOW_GAME" => state'.game = "loading"
      /\ FetchedUserFromState(state') = user
      /\ user \in Uids => IsPageOf(state', l)
      /\ action' = NoAction /\ unread' = <<>>
      /\ PageIsOfItsStream' /\ UnreadEndsWithSent'
  BY <1>1, GoToPage
<1>3. TypeOK'
  BY <1>1, <1>2 DEF IInv, TypeOK
<1>4. ShapesOK' /\ OneSettles'
  BY <1>1, <1>2 DEF ShapesOK, Action, OneSettles
<1>5. PageIsOfTheUser' /\ ActionIsOfThePage'
  BY <1>1, <1>2 DEF PageIsOfTheUser, ActionIsOfThePage, Fits, NoAction
<1>6. IntentIsSent'
  BY <1>1, <1>2 DEF IInv, IntentIsSent, NoAction, Requests
<1>7. PageIsOfTheAddress'
  BY <1>1, <1>2 DEF PageIsOfTheAddress, Parse
<1>. QED
  BY <1>2, <1>3, <1>4, <1>5, <1>6, <1>7 DEF IInv

\* The next message: it becomes the game of the page, unless it is the end.
LEMMA GameNextStep ==
    ASSUME IInv, GameNext
    PROVE  IInv'
<1>. DEFINE n == Len(unread)
            m == IF unread[1] = "end" THEN state.game ELSE unread[1]
<1>1. /\ unread \in Seq(Message \cup {"end"}) /\ unread # <<>>
      /\ n \in Nat \ {0} /\ Head(unread) = unread[1] /\ unread[1] \in Message \cup {"end"}
      /\ state \in Page /\ state.state = "SHOW_GAME"
  <2>1. unread \in Seq(Message \cup {"end"}) /\ unread # <<>>
    BY DEF IInv, TypeOK, Message, GameNext
  <2>2. n \in Nat \ {0} /\ Head(unread) = unread[1]
    BY <2>1, EmptySeq
  <2>3. unread[1] \in Message \cup {"end"}
    BY <2>1, <2>2, ElementOfSeq
  <2>. QED
    BY <2>1, <2>2, <2>3 DEF IInv, ShapesOK, UnreadEndsWithSent
<1>2. /\ state.stream \in DOMAIN streams /\ state.game \in Message \cup {"loading"}
      /\ state.user \in Uids /\ state.gameId \in GameIds
  BY <1>1 DEF Page
<1>3. /\ unread' \in Seq(Message \cup {"end"}) /\ Len(unread') = n - 1
      /\ \A i \in 1..(n - 1) : unread'[i] = unread[i + 1]
  <2>1. unread' = Tail(unread)
    BY DEF GameNext
  <2>2. Len(Tail(unread)) = n - 1
    BY <1>1, HeadTailProperties
  <2>. QED
    BY <1>1, <2>1, <2>2, HeadTailProperties
<1>4. /\ m \in Message \cup {"loading"}
      /\ state' = [state EXCEPT !.game = m]
      /\ UNCHANGED <<location, entries, popped, urlBar, authSink, auth,
                     streams, sent, intent, request, stale>>
  <2>1. state = [state EXCEPT !.game = state.game]
    BY <1>1 DEF Page
  <2>. QED
    BY <1>1, <1>2, <2>1 DEF GameNext, sources, history
<1>5. action = NoAction /\ action' = NoAction /\ ~popped /\ authSink = <<>>
  BY <1>1 DEF IInv, OneSettles, TypeOK, GameNext
<1>. HIDE DEF m
<1>6. /\ state' \in Page' /\ state'.state = "SHOW_GAME" /\ state'.game = m
      /\ state'.stream = state.stream /\ state'.user = state.user
      /\ state'.gameId = state.gameId
  BY <1>1, <1>4 DEF Page
<1>7. TypeOK'
  <2>1. unread' \in Seq(Views \cup {"disconnected", "end"})
    BY <1>3 DEF Message
  <2>2. state'.game \in Views \cup {"loading", "disconnected"}
    BY <1>4, <1>6 DEF Message
  <2>. QED
    BY <1>4, <1>6, <2>1, <2>2 DEF IInv, TypeOK
<1>8. ShapesOK' /\ OneSettles'
  BY <1>4, <1>5, <1>6 DEF IInv, ShapesOK, Action, OneSettles
<1>9. PageIsOfTheUser'
  <2>1. FetchedUserFromState(state') = FetchedUserFromState(state)
    BY <1>1, <1>6 DEF FetchedUserFromState
  <2>. QED  BY <1>4, <2>1 DEF IInv, PageIsOfTheUser
<1>10. ActionIsOfThePage' /\ IntentIsSent'
  BY <1>4, <1>5 DEF IInv, ActionIsOfThePage, IntentIsSent, Fits, NoAction, Requests
<1>11. PageIsOfTheAddress'
  BY <1>1, <1>4, <1>5, <1>6 DEF IInv, PageIsOfTheAddress, IsPageOf, Parse
\* what is left to read ends with what the stream sent last
<1>12. /\ \A i \in 1..(n - 1) : unread[i] # "end"
       /\ unread[n] # "end" => unread[n] = sent[state.stream]
       /\ unread[n] = "end" =>
             (IF n = 1 THEN state.game ELSE unread[n - 1]) = sent[state.stream]
  BY <1>1 DEF IInv, UnreadEndsWithSent
<1>13. CASE n = 1
  <2>1. m = sent[state.stream]
    BY <1>12, <1>13 DEF m
  <2>2. unread' = <<>>
    <3>1. Len(unread') = 0
      BY <1>3, <1>13
    <3>. QED  BY <1>3, <3>1, EmptySeq
  <2>3. PageIsOfItsStream' /\ UnreadEndsWithSent'
    BY <1>1, <1>4, <1>6, <2>1, <2>2 DEF IInv, PageIsOfItsStream, UnreadEndsWithSent
  <2>. QED
    BY <1>7, <1>8, <1>9, <1>10, <1>11, <2>3 DEF IInv
<1>14. CASE n > 1
  <2>1. unread[1] # "end" /\ m = unread[1]
    BY <1>1, <1>12, <1>14 DEF m
  <2>2. /\ Len(unread') \in Nat \ {0} /\ Len(unread') = n - 1
        /\ unread'[n - 1] = unread[n]
        /\ \A i \in 1..(n - 2) : unread'[i] # "end"
        /\ n > 2 => unread'[n - 2] = unread[n - 1]
    <3>1. Len(unread') \in Nat \ {0} /\ n - 1 \in 1..(n - 1) /\ (n - 1) + 1 = n
      BY <1>1, <1>3, <1>14
    <3>2. \A i \in 1..(n - 2) : i \in 1..(n - 1) /\ i + 1 \in 1..(n - 1)
      BY <1>1, <1>14
    <3>3. n > 2 => n - 2 \in 1..(n - 1) /\ (n - 2) + 1 = n - 1
      BY <1>1
    <3>. HIDE DEF n
    <3>4. unread'[n - 1] = unread[n]
      BY <1>3, <3>1
    <3>5. \A i \in 1..(n - 2) : unread'[i] # "end"
      BY <1>3, <1>12, <3>2
    <3>6. n > 2 => unread'[n - 2] = unread[n - 1]
      BY <1>3, <3>3
    <3>. QED
      BY <1>3, <3>1, <3>4, <3>5, <3>6
  <2>3. unread' # <<>>
    BY <2>2, EmptySeq
  <2>4. PageIsOfItsStream'
    BY <1>1, <1>4, <1>6, <2>3 DEF IInv, PageIsOfItsStream
  <2>5. unread'[n - 1] # "end" => unread'[n - 1] = sent[state.stream]
    BY <1>12, <2>2
  <2>6. unread'[n - 1] = "end" =>
            (IF n - 1 = 1 THEN m ELSE unread'[n - 2]) = sent[state.stream]
    <3>. HIDE DEF n
    <3>1. CASE n = 2
      BY <1>12, <2>1, <2>2, <3>1
    <3>2. CASE n > 2
      <4>1. n - 1 # 1 /\ n # 1
        BY <1>1, <3>2
      <4>. QED  BY <1>12, <2>2, <3>2, <4>1
    <3>. QED
      BY <1>1, <1>14, <3>1, <3>2
  <2>7. (n - 1) - 1 = n - 2
    BY <1>1
  <2>8. UnreadEndsWithSent'
    BY <1>4, <1>6, <2>2, <2>5, <2>6, <2>7 DEF UnreadEndsWithSent
  <2>. QED
    BY <1>7, <1>8, <1>9, <1>10, <1>11, <2>4, <2>8 DEF IInv
<1>15. n = 1 \/ n > 1
  <2>. HIDE DEF n
  <2>. QED  BY <1>1
<1>. QED
  BY <1>13, <1>14, <1>15

\* What depends on the page, its stream and its user alone, in a step that
\* leaves those as they are.
LEMMA PageKept ==
    ASSUME IInv, UNCHANGED <<state, auth, streams, sent>>
    PROVE  /\ state' \in Page' /\ sent' \in Seq(Message \cup {"loading"})
           /\ Len(sent') = Len(streams')
           /\ PageIsOfTheUser'
           /\ unread' = unread => PageIsOfItsStream' /\ UnreadEndsWithSent'
BY DEF IInv, ShapesOK, Page, PageIsOfTheUser, PageIsOfItsStream, UnreadEndsWithSent

LEMMA SendRequestStep ==
    ASSUME IInv, SendRequest
    PROVE  IInv'
<1>1. /\ UNCHANGED <<sources, state, unread, streams, sent, intent, stale>>
      /\ action.kind \in Requests /\ action' = NoAction
      /\ request' = Sent(action)
  BY DEF SendRequest, Requests
<1>2. /\ unread = <<>> /\ authSink = <<>> /\ ~popped
  BY <1>1 DEF IInv, OneSettles, NoAction, Requests
<1>3. TypeOK'
  BY <1>1 DEF IInv, TypeOK, sources
<1>4. ShapesOK' /\ OneSettles'
  BY <1>1, <1>2, PageKept DEF IInv, ShapesOK, Action, OneSettles, sources
<1>5. ActionIsOfThePage' /\ IntentIsSent'
  BY <1>1 DEF IInv, ActionIsOfThePage, IntentIsSent, Fits, NoAction, Requests
<1>6. PageIsOfTheAddress'
  BY <1>1 DEF IInv, PageIsOfTheAddress, IsPageOf, Parse, sources, Requests
<1>. QED
  BY <1>1, <1>3, <1>4, <1>5, <1>6, PageKept DEF IInv, sources

\* The browser tells of the address or of the user.
LEMMA BrowserStep ==
    ASSUME IInv, Pop \/ \E user \in {"UNAVAILABLE"} \cup Uids : AuthChanged(user)
    PROVE  IInv'
<1>. USE DEF history
<1>1. /\ Quiet
      /\ UNCHANGED <<entries, urlBar, auth, state, unread, action, streams, history>>
      /\ location' \in Location /\ popped' \in BOOLEAN
      /\ \/ popped' = TRUE /\ authSink' = <<>>
         \/ /\ location' = location /\ popped' = FALSE
            /\ authSink' \in Seq(Fetch) /\ Len(authSink') = 1
  <2>1. CASE Pop
    BY <2>1 DEF Pop, Quiet, IInv, TypeOK
  <2>2. ASSUME NEW user \in {"UNAVAILABLE"} \cup Uids, AuthChanged(user)
        PROVE  /\ authSink' \in Seq(Fetch) /\ Len(authSink') = 1
               /\ location' = location /\ popped' = FALSE
    <3>1. user \in Fetch /\ authSink = <<>> /\ authSink' = Append(authSink, user)
      BY <2>2 DEF AuthChanged, Quiet, Fetch
    <3>2. Len(authSink') = Len(authSink) + 1 /\ authSink' \in Seq(Fetch)
      BY <3>1, EmptySeq, AppendProperties
    <3>3. Len(authSink') = 1
      BY <3>1, <3>2, EmptySeq
    <3>. QED
      BY <2>2, <3>2, <3>3 DEF AuthChanged, Quiet
  <2>. QED
    BY <2>1, <2>2 DEF AuthChanged, IInv, TypeOK
<1>2. action = NoAction /\ unread = <<>> /\ authSink = <<>> /\ ~popped
  BY <1>1 DEF Quiet
<1>3. TypeOK'
  <2>1. authSink' \in Seq(Fetch)
    BY <1>1, EmptySeq
  <2>. QED
    BY <1>1, <2>1 DEF IInv, TypeOK
<1>4. ShapesOK' /\ OneSettles'
  BY <1>1, <1>2, PageKept DEF IInv, ShapesOK, Action, OneSettles
<1>5. ActionIsOfThePage' /\ IntentIsSent'
  BY <1>1, <1>2 DEF IInv, ActionIsOfThePage, IntentIsSent, Fits, NoAction, Requests
<1>6. PageIsOfTheAddress'
  BY <1>1, <1>2 DEF IInv, PageIsOfTheAddress, IsPageOf, Parse
<1>. QED
  BY <1>1, <1>3, <1>4, <1>5, <1>6, PageKept DEF IInv

\* The forms and buttons of a page put one action into its sink.
LEMMA UserStep ==
    ASSUME IInv,
           \/ \E kind \in {"create", "join"}, g \in GameIds : CreateOrJoin(kind, g)
           \/ StartOrSubmit("start", "unstarted") \/ StartOrSubmit("submit", "yourTurn")
           \/ \E g \in GameIds : GoToGame(g)
    PROVE  IInv'
<1>1. /\ Quiet
      /\ UNCHANGED <<popped, urlBar, authSink, auth, state, unread, streams, sent, stale>>
      /\ location' \in Location /\ entries' \subseteq Location
      /\ action' \in Action
      /\ action'.kind # "navigate" => location' = location
  <2>1. ASSUME NEW kind \in {"create", "join"}, NEW g \in GameIds, CreateOrJoin(kind, g)
        PROVE  action' \in Action /\ action'.kind # "navigate"
    BY <2>1 DEF CreateOrJoin, Action
  <2>2. ASSUME NEW kind \in {"start", "submit"}, NEW v, StartOrSubmit(kind, v)
        PROVE  action' \in Action /\ action'.kind # "navigate"
    BY <2>2 DEF StartOrSubmit, Action
  <2>3. ASSUME NEW g \in GameIds, GoToGame(g)
        PROVE  action' \in Action /\ location' \in Location /\ entries' \subseteq Location
               /\ action'.kind = "navigate"
    <3>1. GameAt(g) \in Location
      BY DEF Location
    <3>. QED
      BY <2>3, <3>1 DEF GoToGame, Action, IInv, TypeOK
  <2>. QED
    BY <2>1, <2>2, <2>3 DEF CreateOrJoin, StartOrSubmit, GoToGame, sources, history, IInv, TypeOK
<1>2. action = NoAction /\ unread = <<>> /\ authSink = <<>> /\ ~popped
  BY <1>1 DEF Quiet
<1>3. request = intent
  BY <1>2 DEF IInv, IntentIsSent, NoAction, Requests
<1>4. state \in Page /\ FetchedUserFromState(state) = auth
  BY DEF IInv, ShapesOK, PageIsOfTheUser
<1>5. TypeOK'
  BY <1>1 DEF IInv, TypeOK
<1>6. ShapesOK' /\ OneSettles'
  BY <1>1, <1>2, PageKept DEF IInv, ShapesOK, OneSettles
<1>7. ActionIsOfThePage' /\ IntentIsSent'
  <2>1. ASSUME NEW kind \in {"create", "join"}, NEW g \in GameIds, CreateOrJoin(kind, g)
        PROVE  ActionIsOfThePage' /\ IntentIsSent'
    <3>1. /\ state.state = "HOME" /\ state' = state
          /\ action' = [kind |-> kind, gameId |-> g]
          /\ intent' = [kind |-> kind, gameId |-> g, user |-> auth]
      BY <2>1 DEF CreateOrJoin
    <3>2. state.user = auth
      BY <1>4, <3>1, UserOfPage
    <3>3. Sent(action)' = [kind |-> kind, gameId |-> g, user |-> auth]
      BY <3>1, <3>2 DEF Sent
    <3>. QED
      BY <3>1, <3>3 DEF ActionIsOfThePage, IntentIsSent, Fits, Requests
  <2>2. ASSUME NEW kind \in {"start", "submit"}, NEW v, StartOrSubmit(kind, v)
        PROVE  ActionIsOfThePage' /\ IntentIsSent'
    <3>1. /\ state.state = "SHOW_GAME" /\ state' = state
          /\ action' = [kind |-> kind]
          /\ intent' = [kind |-> kind, gameId |-> streams[state.stream].gameId, user |-> auth]
      BY <2>2 DEF StartOrSubmit
    <3>2. state.user = auth
      BY <1>4, <3>1, UserOfPage
    <3>3. streams[state.stream].gameId = state.gameId
      BY <3>1 DEF IInv, PageIsOfItsStream
    <3>4. Sent(action)' = [kind |-> kind, gameId |-> state.gameId, user |-> auth]
      BY <3>1, <3>2 DEF Sent
    <3>. QED
      BY <3>1, <3>3, <3>4 DEF ActionIsOfThePage, IntentIsSent, Fits, Requests
  <2>3. ASSUME NEW g \in GameIds, GoToGame(g)
        PROVE  ActionIsOfThePage' /\ IntentIsSent'
    BY <1>3, <2>3 DEF GoToGame, history, ActionIsOfThePage, IntentIsSent, Fits, Requests
  <2>. QED
    BY <2>1, <2>2, <2>3
<1>8. PageIsOfTheAddress'
  BY <1>1, <1>2 DEF IInv, PageIsOfTheAddress, IsPageOf, Parse, NoAction
<1>. QED
  BY <1>1, <1>5, <1>6, <1>7, <1>8, PageKept DEF IInv

\* A chunk of messages ends with one that is not the end.
LEMMA ChunkType ==
    ASSUME NEW chunk \in Chunks
    PROVE  /\ chunk \in Seq(Message) /\ Len(chunk) \in Nat \ {0}
           /\ \A i \in 1..Len(chunk) : chunk[i] \in Message /\ chunk[i] # "end"
<1>1. "end" \notin Message
  BY ParametersAssumption DEF Message
<1>2. chunk \in Seq(Message) /\ chunk # <<>>
  <2>1. ASSUME NEW n \in 1..MaxChunk, chunk \in [1..n -> Views]
        PROVE  chunk \in Seq(Message) /\ chunk # <<>>
    <3>1. chunk \in Seq(Views) /\ Len(chunk) = n /\ n \in Nat \ {0}
      BY <2>1
    <3>. QED
      BY <3>1, EmptySeq DEF Message
  <2>2. ASSUME NEW n \in 0..(MaxChunk - 1), NEW c \in [1..n -> Views],
               chunk = Append(c, "disconnected")
        PROVE  chunk \in Seq(Message) /\ chunk # <<>>
    <3>1. c \in Seq(Message)
      BY <2>2, ParametersAssumption DEF Message
    <3>2. "disconnected" \in Message
      BY DEF Message
    <3>. QED
      BY <2>2, <3>1, <3>2, AppendProperties
  <2>3. \/ \E n \in 1..MaxChunk : chunk \in [1..n -> Views]
        \/ \E n \in 0..(MaxChunk - 1) : \E c \in [1..n -> Views] :
                chunk = Append(c, "disconnected")
    <3>1. CASE chunk \in UNION {[1..n -> Views] : n \in 1..MaxChunk}
      BY <3>1
    <3>2. CASE chunk \in {Append(c, "disconnected") :
                             c \in UNION {[1..n -> Views] : n \in 0..(MaxChunk - 1)}}
      <4>1. PICK c \in UNION {[1..n -> Views] : n \in 0..(MaxChunk - 1)} :
                chunk = Append(c, "disconnected")
        BY <3>2
      <4>. QED  BY <4>1
    <3>. QED
      BY <3>1, <3>2 DEF Chunks
  <2>. QED
    BY <2>1, <2>2, <2>3
<1>. QED
  BY <1>1, <1>2, EmptySeq, ElementOfSeq

\* A chunk of the page's stream waits to be read; a chunk of another stream is
\* not heard.
LEMMA DataStep ==
    ASSUME IInv, NEW i \in DOMAIN streams, NEW chunk \in Chunks, Data(i, chunk)
    PROVE  IInv'
<1>. DEFINE k == Len(chunk)
            last == chunk[k]
<1>1. /\ chunk \in Seq(Message) /\ k \in Nat \ {0}
      /\ \A j \in 1..k : chunk[j] \in Message /\ chunk[j] # "end"
      /\ last \in Message /\ last # "end"
  <2>1. /\ chunk \in Seq(Message) /\ k \in Nat \ {0}
        /\ \A j \in 1..k : chunk[j] \in Message /\ chunk[j] # "end"
    BY ChunkType
  <2>2. k \in 1..k
    BY <2>1
  <2>. QED
    BY <2>1, <2>2
<1>2. /\ Quiet
      /\ UNCHANGED <<sources, state, action, streams, intent, request, stale>>
      /\ sent' = [sent EXCEPT ![i] = last]
      /\ ~Heard(i) => unread' = <<>>
      /\ Heard(i) /\ last = "disconnected" => unread' = Append(chunk, "end")
      /\ Heard(i) /\ last # "disconnected" => unread' = chunk
  BY DEF Data
<1>3. action = NoAction /\ unread = <<>> /\ authSink = <<>> /\ ~popped
  BY <1>2 DEF Quiet
<1>. HIDE DEF last
<1>4. /\ sent \in Seq(Message \cup {"loading"}) /\ Len(sent) = Len(streams)
      /\ i \in 1..Len(sent)
      /\ streams \in Seq([gameId : GameIds, user : Uids])
  <2>1. streams \in Seq([gameId : GameIds, user : Uids]) /\ Len(sent) = Len(streams)
    BY DEF IInv, TypeOK, ShapesOK
  <2>2. DOMAIN streams = 1..Len(streams)
    BY <2>1, LenProperties
  <2>. QED
    BY <2>1, <2>2 DEF IInv, ShapesOK
<1>5. /\ sent' \in Seq(Message \cup {"loading"}) /\ Len(sent') = Len(streams')
      /\ sent'[i] = last
      /\ \A j \in 1..Len(sent) : j # i => sent'[j] = sent[j]
  <2>1. sent' \in Seq(Message \cup {"loading"}) /\ Len(sent') = Len(sent)
    BY <1>1, <1>2, <1>4, ExceptSeq
  <2>. QED
    BY <1>2, <1>4, <2>1, ExceptSeq, LenProperties
<1>6. /\ state \in Page
      /\ state.state = "SHOW_GAME" => state.stream \in 1..Len(sent)
  <2>1. state \in Page /\ DOMAIN streams = 1..Len(sent)
    BY <1>4, LenProperties DEF IInv, ShapesOK
  <2>. QED
    BY <2>1 DEF Page
\* what the page has to read, and that its end is what its stream sent last
<1>7. /\ unread' \in Seq(Message \cup {"end"})
      /\ PageIsOfItsStream' /\ UnreadEndsWithSent'
  <2>1. CASE ~Heard(i)
    <3>1. unread' = <<>>
      BY <1>2, <2>1
    <3>2. state.state = "SHOW_GAME" => sent'[state.stream] = sent[state.stream]
      BY <1>5, <1>6, <2>1 DEF Heard
    <3>3. PageIsOfItsStream' /\ UnreadEndsWithSent'
      BY <1>2, <1>3, <3>1, <3>2 DEF IInv, PageIsOfItsStream, UnreadEndsWithSent
    <3>. QED
      BY <3>1, <3>3, EmptySeq
  <2>2. CASE Heard(i) /\ last = "disconnected"
    <3>1. unread' = Append(chunk, "end") /\ "end" \in Message \cup {"end"}
      BY <1>2, <2>2
    <3>2. chunk \in Seq(Message \cup {"end"})
      BY <1>1
    <3>3. /\ unread' \in Seq(Message \cup {"end"}) /\ unread' # <<>>
          /\ Len(unread') = k + 1 /\ unread'[k + 1] = "end"
          /\ \A j \in 1..k : unread'[j] = chunk[j]
      BY <3>1, <3>2, AppendProperties
    <3>4. chunk[k] = last
      BY DEF last
    <3>. HIDE DEF k
    <3>5. (k + 1) - 1 = k /\ k \in 1..k /\ k + 1 # 1
      BY <1>1
    <3>6. UnreadEndsWithSent'
      BY <1>1, <1>2, <1>5, <2>2, <3>3, <3>4, <3>5 DEF UnreadEndsWithSent, Heard
    <3>7. PageIsOfItsStream'
      BY <1>2, <3>3 DEF IInv, PageIsOfItsStream
    <3>. QED
      BY <3>3, <3>6, <3>7
  <2>3. CASE Heard(i) /\ last # "disconnected"
    <3>1. unread' = chunk /\ chunk[k] = last
      BY <1>2, <2>3 DEF last
    <3>2. chunk \in Seq(Message \cup {"end"}) /\ chunk # <<>>
      BY <1>1, EmptySeq
    <3>3. \A j \in 1..(k - 1) : chunk[j] # "end"
      BY <1>1
    <3>4. UnreadEndsWithSent'
      BY <1>1, <1>2, <1>5, <2>3, <3>1, <3>3 DEF UnreadEndsWithSent, Heard
    <3>5. PageIsOfItsStream'
      BY <1>2, <3>1, <3>2 DEF IInv, PageIsOfItsStream
    <3>. QED
      BY <3>1, <3>2, <3>4, <3>5
  <2>. QED
    BY <2>1, <2>2, <2>3
<1>8. TypeOK'
  <2>1. unread' \in Seq(Views \cup {"disconnected", "end"})
    BY <1>7 DEF Message
  <2>. QED
    BY <1>2, <2>1 DEF IInv, TypeOK, sources
<1>9. ShapesOK' /\ OneSettles'
  <2>1. state' \in Page'
    BY <1>2, <1>6 DEF Page
  <2>. QED
    BY <1>2, <1>3, <1>5, <2>1 DEF IInv, ShapesOK, Action, OneSettles, sources
<1>10. PageIsOfTheUser' /\ ActionIsOfThePage' /\ IntentIsSent'
  BY <1>2, <1>3 DEF IInv, PageIsOfTheUser, FetchedUserFromState, ActionIsOfThePage,
     IntentIsSent, Fits, NoAction, Requests, sources
<1>11. PageIsOfTheAddress'
  BY <1>2, <1>3 DEF IInv, PageIsOfTheAddress, IsPageOf, Parse, sources
<1>. QED
  BY <1>7, <1>8, <1>9, <1>10, <1>11 DEF IInv

LEMMA NextIInv == IInv /\ [Next]_vars => IInv'
<1>. SUFFICES ASSUME IInv, [Next]_vars
              PROVE  IInv'
  OBVIOUS
<1>1. CASE UNCHANGED vars
  <2>. USE <1>1 DEF vars
  <2>1. TypeOK'
    BY DEF IInv, TypeOK
  <2>2. ShapesOK' /\ OneSettles'
    BY PageKept DEF IInv, ShapesOK, Action, OneSettles
  <2>3. ActionIsOfThePage' /\ IntentIsSent'
    BY DEF IInv, ActionIsOfThePage, IntentIsSent, Fits, Sent
  <2>4. PageIsOfTheAddress'
    BY DEF IInv, PageIsOfTheAddress, IsPageOf, Parse
  <2>. QED
    BY <2>1, <2>2, <2>3, <2>4, PageKept DEF IInv
<1>2. CASE UrlNext \/ AuthNext \/ Navigate
  BY <1>2, NewPageStep
<1>3. CASE GameNext \/ SendRequest
  BY <1>3, GameNextStep, SendRequestStep
<1>4. CASE Pop \/ \E user \in {"UNAVAILABLE"} \cup Uids : AuthChanged(user)
  BY <1>4, BrowserStep
<1>5. CASE \E i \in DOMAIN streams, chunk \in Chunks : Data(i, chunk)
  BY <1>5, DataStep
<1>6. CASE \/ \E kind \in {"create", "join"}, g \in GameIds : CreateOrJoin(kind, g)
           \/ StartOrSubmit("start", "unstarted") \/ StartOrSubmit("submit", "yourTurn")
           \/ \E g \in GameIds : GoToGame(g)
  BY <1>6, UserStep
<1>. QED
  BY <1>1, <1>2, <1>3, <1>4, <1>5, <1>6 DEF Next

LEMMA IInvHolds == Spec => []IInv
BY InitIInv, NextIInv, PTL DEF Spec

-----------------------------------------------------------------------------
\* The page, its sources and its streams keep their types (App.tsx:24-55).
THEOREM TypeCorrect == Spec => []TypeOK
<1>1. IInv => TypeOK
  BY DEF IInv
<1>. QED
  BY <1>1, IInvHolds, PTL

\* The user that a navigation takes from the page (App.tsx:219) is the one that
\* switchMap last took from Firebase's reports (App.tsx:278).
THEOREM PagesOfTheUser == Spec => []PageIsOfTheUser
<1>1. IInv => PageIsOfTheUser
  BY DEF IInv
<1>. QED
  BY <1>1, IInvHolds, PTL

\* No race of promises loses a message of the stream of the page (watch.ts:58,
\* 154), and no message of a stream that was left gets to it (App.tsx:154-174).
THEOREM LatestShown == Spec => []LatestIsShown
<1>1. IInv => LatestIsShown
  BY DEF IInv, PageIsOfItsStream, LatestIsShown, Quiet
<1>. QED
  BY <1>1, IInvHolds, PTL

\* A signed-in user sees the page of the address, but for the change of the user
\* after a pushState (App.tsx:196-203).
THEOREM AddressShown == Spec => []AddressIsShown
<1>1. IInv => AddressIsShown
  <2>. SUFFICES ASSUME IInv, Quiet, auth \in Uids, ~stale
                PROVE  AddressIsShown
    BY DEF AddressIsShown
  <2>1. IsPageOf(state, location) \/ IsPageOf(state, Parse(location))
    BY DEF IInv, PageIsOfTheAddress, Quiet, NoAction
  <2>. QED
    BY <2>1 DEF AddressIsShown, IsPageOf
<1>. QED
  BY <1>1, IInvHolds, PTL

\* fold never throws (App.tsx:222, 233, 244, 256), and what the user asks for on
\* a page is sent for the game and the user of that page.
THEOREM RequestsSentAsAsked == Spec => []RequestsAsAsked
<1>1. IInv => RequestsAsAsked
  BY DEF IInv, ActionIsOfThePage, IntentIsSent, RequestsAsAsked, Quiet, NoAction, Requests
<1>. QED
  BY <1>1, IInvHolds, PTL
=============================================================================
