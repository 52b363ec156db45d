--------------------------- MODULE HistoryStream ---------------------------
(***************************************************************************)
(* Adapter.ReadHistoryStream and runHistoryStream                          *)
(* (openclaw/history_stream.go): a connection subscribed to one session's  *)
(* messages, an initial page of its latest turns, and then, for every      *)
(* event that may concern the session, a reload of the page and an append  *)
(* or a replace for every turn that differs from what was last sent.       *)
(*                                                                         *)
(* The connection is a GatewayConnection.  The Gateway, the Hub and the    *)
(* network are the environment.  The n-th message of the session has the   *)
(* native id n.                                                            *)
(***************************************************************************)
EXTENDS GatewayConnection, HistoryTurns

CONSTANTS
  Limit,         \* turns of a page (the request's limit, at most 20)
  Window,        \* messages chat.history returns (8 * Limit, at least 50)
  OutCapacity,   \* the channel to the Hub (32)
  MessageNames,  \* how the events of messages name the session, if they do
  MaxMessages,   \* bound: messages of the session
  MaxEdits,      \* bound: times a message changes
  MaxOthers      \* bound: events that go with no change

ASSUME SizesAssumption ==
  /\ Capacity \in Nat \ {0}
  /\ Limit \in Nat \ {0}
  /\ Window \in Nat \ {0}
  /\ OutCapacity \in Nat \ {0}
ASSUME NamesAssumption == MessageNames \subseteq {"this", "unnamed"}
ASSUME HistoryBoundsAssumption ==
  /\ MaxMessages \in Nat
  /\ MaxEdits \in Nat
  /\ MaxOthers \in Nat

VARIABLES
  messages,     \* Gateway: the session's messages
  edits,        \* Gateway: changes of messages so far
  others,       \* Gateway: events without a change so far
  stream,       \* where the stream's goroutine is
  live,         \* whether the request asked for a live stream
  page,         \* the turns loaded last
  position,     \* how many of them were handled
  revisions,    \* revisions[id], 0 when absent
  signatures,   \* signatures[id], <<>> when absent
  event,        \* the stream event being sent
  after,        \* where the goroutine goes once it is sent
  cancelled,    \* whether the context is cancelled
  out,          \* the channel to the Hub
  view,         \* Hub: the turn it shows under an id, revision 0 when none
  last,         \* Hub: type of the last event received
  baseline      \* history: messages covered by the initial page

historyVars == <<messages, edits, others>>
pageVars == <<page, position, revisions, signatures>>
sendVars == <<event, after>>
hubVars == <<view, last>>
vars == <<historyVars, connectionVars, stream, live, pageVars, sendVars, cancelled, out,
          hubVars, baseline>>

Ids == 1 .. MaxMessages

GatewayEvent == [event : {"session.message", "agent", "sessions.changed"},
                 session : {"this", "another", "unnamed"}]

TurnEvent(source, operation, turn, revision) ==
  [type |-> "turn", source |-> source, operation |-> operation, turn |-> turn,
   revision |-> revision]
Marker(type) == [type |-> type]

Init ==
  /\ messages = <<>>
  /\ edits = 0
  /\ others = 0
  /\ NoConnection
  /\ stream = "off"
  /\ live \in BOOLEAN
  /\ page = <<>>
  /\ position = 0
  /\ revisions = [id \in Ids |-> 0]
  /\ signatures = [id \in Ids |-> <<>>]
  /\ event = Marker("none")
  /\ after = "off"
  /\ cancelled = FALSE
  /\ out = <<>>
  /\ view = [id \in Ids |-> [revision |-> 0, messages |-> <<>>]]
  /\ last = "nothing"
  /\ baseline = 0
-----------------------------------------------------------------------------
(* The Gateway and the network, external: a message is in the history when *)
(* its event is sent, and the event may leave the session unnamed.         *)

MessageEvent == \E s \in MessageNames : Receive([event |-> "session.message", session |-> s])

AddToHistory(role) ==
  /\ Len(messages) < MaxMessages
  /\ messages' = Append(messages, [id |-> Len(messages) + 1, role |-> role, version |-> 0])
  /\ MessageEvent
  /\ UNCHANGED <<edits, others, stream, live, pageVars, sendVars, cancelled, out, hubVars, baseline>>

EditMessage(id) ==
  /\ edits < MaxEdits
  /\ id <= Len(messages)
  /\ edits' = edits + 1
  /\ messages' = [messages EXCEPT ![id].version = @ + 1]
  /\ MessageEvent
  /\ UNCHANGED <<others, stream, live, pageVars, sendVars, cancelled, out, hubVars, baseline>>

OtherEvent(e) ==
  /\ others < MaxOthers
  /\ others' = others + 1
  /\ Receive(e)
  /\ UNCHANGED <<messages, edits, stream, live, pageVars, sendVars, cancelled, out, hubVars, baseline>>

ConnectionLost ==
  /\ Lose
  /\ UNCHANGED <<historyVars, stream, live, pageVars, sendVars, cancelled, out, hubVars, baseline>>
-----------------------------------------------------------------------------
(* The Hub, external.                                                      *)

Cancel ==
  /\ stream \notin {"off", "closed"}
  /\ ~cancelled
  /\ cancelled' = TRUE
  /\ UNCHANGED <<historyVars, connectionVars, stream, live, pageVars, sendVars, out, hubVars, baseline>>

HubReceives ==
  /\ out # <<>>
  /\ out' = Tail(out)
  /\ LET e == Head(out) IN
       /\ last' = e.type
       /\ view' = IF e.type = "turn"
                    THEN [view EXCEPT ![e.turn.id] =
                            [revision |-> e.revision, messages |-> e.turn.messages]]
                    ELSE view
  /\ UNCHANGED <<historyVars, connectionVars, stream, live, pageVars, sendVars, cancelled, baseline>>
-----------------------------------------------------------------------------
(* The stream's goroutine.                                                 *)

\* Dials and subscribes; only then the goroutine starts.
ReadHistoryStream ==
  /\ stream = "off"
  /\ Dial
  /\ stream' = "loading"
  /\ UNCHANGED <<historyVars, live, pageVars, sendVars, cancelled, out, hubVars, baseline>>

\* Its deferred calls close the client and the channel.
Return ==
  /\ stream' = "closed"
  /\ connection' = "none"

Send(e, next) ==
  /\ event' = e
  /\ after' = next
  /\ stream' = "sending"

SendUnbounded ==
  /\ stream = "sending"
  /\ out' = Append(out, event)
  /\ IF after = "closed" THEN Return ELSE stream' = after /\ UNCHANGED connection
  /\ event' = Marker("none")
  /\ UNCHANGED <<historyVars, queue, streamVars, live, pageVars, after, cancelled, hubVars, baseline>>

\* sendGatewayHistoryEvent: of a channel with room and a cancelled context Go
\* picks either.
sendGatewayHistoryEvent ==
  /\ stream = "sending"
  /\ \/ /\ Len(out) < OutCapacity
        /\ out' = Append(out, event)
        /\ IF after = "closed" THEN Return ELSE stream' = after /\ UNCHANGED connection
     \/ /\ cancelled
        /\ Return
        /\ UNCHANGED out
  /\ event' = Marker("none")
  /\ UNCHANGED <<historyVars, queue, streamVars, live, pageVars, after, cancelled, hubVars, baseline>>

loadGatewayHistoryTurns == gatewayHistoryTurns(Latest(messages, Window), Limit)

\* The request is answered, and the goroutine goes through the turns; or it
\* fails, and so does the stream.
LoadPage(next) ==
  \/ /\ connection = "up"
     /\ page' = loadGatewayHistoryTurns
     /\ position' = 0
     /\ stream' = next
     /\ UNCHANGED sendVars
  \/ /\ Send(Marker("error"), "closed")
     /\ UNCHANGED <<page, position>>

LoadInitial ==
  /\ stream = "loading"
  /\ LoadPage("initial")
  /\ baseline' = Len(messages)
  /\ UNCHANGED <<historyVars, connectionVars, live, revisions, signatures, cancelled, out, hubVars>>

NextTurn == page[position + 1]

\* Remembers what is sent of a turn.
Remember(turn, revision) ==
  /\ revisions' = [revisions EXCEPT ![turn.id] = revision]
  /\ signatures' = [signatures EXCEPT ![turn.id] = turn.messages]

SendInitialTurn ==
  /\ stream = "initial"
  /\ position < Len(page)
  /\ position' = position + 1
  /\ Remember(NextTurn, 1)
  /\ Send(TurnEvent("initial", "append", NextTurn, 1), "initial")
  /\ UNCHANGED <<historyVars, connectionVars, live, page, cancelled, out, hubVars, baseline>>

EndPage ==
  /\ stream = "initial"
  /\ position = Len(page)
  /\ IF live THEN Send(Marker("page_end"), "waiting") ELSE Send(Marker("end"), "closed")
  /\ UNCHANGED <<historyVars, connectionVars, live, pageVars, cancelled, out, hubVars, baseline>>

EventMustNameSession(e) ==
  e.event \in {"session.message", "agent"} /\ e.session = "this"

gatewayHistoryEventMatchesSession(e) ==
  e.event \in {"session.message", "agent"} /\ e.session \in {"this", "unnamed"}

NextEvent ==
  /\ stream = "waiting"
  /\ TakeEvent
  /\ stream' = IF gatewayHistoryEventMatchesSession(NextInLine) THEN "reloading" ELSE "waiting"
  /\ UNCHANGED <<historyVars, live, pageVars, sendVars, cancelled, out, hubVars, baseline>>

ReloadIgnoringFailure ==
  /\ stream = "reloading"
  /\ \/ LoadPage("updating") /\ stream' = "updating"
     \/ stream' = "waiting" /\ UNCHANGED <<page, position, sendVars>>
  /\ UNCHANGED <<historyVars, connectionVars, live, revisions, signatures, cancelled, out, hubVars,
                 baseline>>

Reload ==
  /\ stream = "reloading"
  /\ LoadPage("updating")
  /\ UNCHANGED <<historyVars, connectionVars, live, revisions, signatures, cancelled, out, hubVars,
                 baseline>>

SkipTurn ==
  /\ stream = "updating"
  /\ position < Len(page)
  /\ signatures[NextTurn.id] = NextTurn.messages
  /\ position' = position + 1
  /\ UNCHANGED <<historyVars, connectionVars, stream, live, page, revisions, signatures, sendVars,
                 cancelled, out, hubVars, baseline>>

SendLiveTurnAsNew ==
  /\ stream = "updating"
  /\ position < Len(page)
  /\ signatures[NextTurn.id] # NextTurn.messages
  /\ position' = position + 1
  /\ Remember(NextTurn, 1)
  /\ Send(TurnEvent("live", "append", NextTurn, 1), "updating")
  /\ UNCHANGED <<historyVars, connectionVars, live, page, cancelled, out, hubVars, baseline>>

SendLiveTurn ==
  /\ stream = "updating"
  /\ position < Len(page)
  /\ signatures[NextTurn.id] # NextTurn.messages
  /\ position' = position + 1
  /\ LET operation == IF signatures[NextTurn.id] = <<>> THEN "append" ELSE "replace"
         revision == revisions[NextTurn.id] + 1
     IN  /\ Remember(NextTurn, revision)
         /\ Send(TurnEvent("live", operation, NextTurn, revision), "updating")
  /\ UNCHANGED <<historyVars, connectionVars, live, page, cancelled, out, hubVars, baseline>>

Listed(id) == \E i \in DOMAIN page : page[i].id = id

ForgetNothing ==
  /\ stream = "updating"
  /\ position = Len(page)
  /\ stream' = "waiting"
  /\ UNCHANGED <<historyVars, connectionVars, live, pageVars, sendVars, cancelled, out, hubVars,
                 baseline>>

\* What is kept of turns that left the page is deleted.
ForgetOldTurns ==
  /\ stream = "updating"
  /\ position = Len(page)
  /\ revisions' = [id \in Ids |-> IF Listed(id) THEN revisions[id] ELSE 0]
  /\ signatures' = [id \in Ids |-> IF Listed(id) THEN signatures[id] ELSE <<>>]
  /\ stream' = "waiting"
  /\ UNCHANGED <<historyVars, connectionVars, live, page, position, sendVars, cancelled, out,
                 hubVars, baseline>>

EndSilently(why) ==
  /\ stream = "waiting"
  /\ End(why)
  /\ Return
  /\ UNCHANGED <<historyVars, queue, live, pageVars, sendVars, cancelled, out, hubVars, baseline>>

\* NextEventWithTimeout fails: silently under a cancelled context, with an
\* error event otherwise.
EventsEnd(why) ==
  /\ stream = "waiting"
  /\ End(why)
  /\ \/ /\ cancelled
        /\ Return
        /\ UNCHANGED sendVars
     \/ /\ ~cancelled
        /\ Send(Marker("error"), "closed")
        /\ UNCHANGED connection
  /\ UNCHANGED <<historyVars, queue, live, pageVars, cancelled, out, hubVars, baseline>>

ConnectionEnds == Failed /\ EventsEnd(connection)
ContextEnds == cancelled /\ EventsEnd("gaveUp")

\* Fifteen minutes without an event.
IdleTimeout == EventsEnd("gaveUp")
-----------------------------------------------------------------------------
GatewayStep ==
  \/ \E role \in Roles : AddToHistory(role)
  \/ \E id \in Ids : EditMessage(id)
  \/ \E e \in GatewayEvent : OtherEvent(e)
  \/ ConnectionLost

StreamStep ==
  \/ sendGatewayHistoryEvent
  \/ LoadInitial
  \/ SendInitialTurn
  \/ EndPage
  \/ NextEvent
  \/ Reload
  \/ SkipTurn
  \/ SendLiveTurn
  \/ ForgetOldTurns
  \/ ConnectionEnds
  \/ ContextEnds

Next ==
  \/ GatewayStep
  \/ ReadHistoryStream
  \/ Cancel
  \/ HubReceives
  \/ StreamStep
  \/ IdleTimeout

Spec == Init /\ [][Next]_vars

\* The goroutine runs when it can, and every request returns because it has
\* a timeout; the Hub keeps reading.
ServedSpec == Spec /\ WF_vars(StreamStep) /\ WF_vars(HubReceives)
-----------------------------------------------------------------------------
Message == [id : Ids, role : Roles, version : 0 .. MaxEdits]
TurnOK(turn) ==
  /\ turn.messages \in Seq(Message)
  /\ turn.messages # <<>>
  /\ turn.id = turn.messages[1].id

StreamEventOK(e) ==
  \/ e \in {Marker(type) : type \in {"none", "page_end", "end", "error"}}
  \/ /\ e.type = "turn"
     /\ e.source \in {"initial", "live"}
     /\ e.operation \in {"append", "replace"}
     /\ TurnOK(e.turn)
     /\ e.revision \in Nat \ {0}

TypeOK ==
  /\ messages \in Seq(Message)
  /\ Len(messages) <= MaxMessages
  /\ edits \in 0 .. MaxEdits
  /\ others \in 0 .. MaxOthers
  /\ ConnectionTypeOK
  /\ queue \in Seq(GatewayEvent)
  /\ stream \in {"off", "loading", "initial", "sending", "waiting", "reloading", "updating",
                 "closed"}
  /\ live \in BOOLEAN
  /\ \A i \in DOMAIN page : TurnOK(page[i])
  /\ Len(page) <= Limit
  /\ position \in 0 .. Len(page)
  /\ revisions \in [Ids -> Nat]
  /\ signatures \in [Ids -> Seq(Message)]
  /\ StreamEventOK(event)
  /\ after \in {"off", "initial", "waiting", "updating", "closed"}
  /\ cancelled \in BOOLEAN
  /\ \A i \in DOMAIN out : StreamEventOK(out[i])
  /\ Len(out) <= OutCapacity
  /\ view \in [Ids -> [revision : Nat, messages : Seq(Message)]]
  /\ last \in {"nothing", "turn", "page_end", "end", "error"}
  /\ baseline \in 0 .. Len(messages)
-----------------------------------------------------------------------------
\* Whatever the history and the window: the page has one turn for each of the
\* latest Limit user messages, or leading assistant message, with every
\* assistant message that follows it in the window and nothing else, newest
\* first.
PageIsGrouped ==
  Groups(loadGatewayHistoryTurns, Latest(messages, Window), Limit)

\* The Hub can apply what it receives: an append is of a turn it does not
\* know, at revision 1, and a replace is of one it knows, at the next
\* revision and with a different content.
OperationsFitView ==
  out # <<>> /\ Head(out).type = "turn" =>
    LET e == Head(out)
        known == view[e.turn.id]
    IN  /\ e.revision = known.revision + 1
        /\ e.operation = IF known.revision = 0 THEN "append" ELSE "replace"
        /\ e.turn.messages # known.messages

CaughtUp ==
  /\ stream = "waiting"
  /\ Drained
  /\ out = <<>>

Shows(turn) == view[turn.id].messages = turn.messages

\* However messages, edits and loads interleave, the initial load included, a
\* caught-up Hub shows every turn of the latest page as the Gateway has it.
CaughtUpShowsLatest ==
  CaughtUp => \A i \in DOMAIN loadGatewayHistoryTurns : Shows(loadGatewayHistoryTurns[i])

\* A stream that stays open remembers no more than one page of turns: the
\* two maps agree with each other and, between events, with the page.
TrackingIsBounded ==
  /\ \A id \in Ids : revisions[id] = 0 <=> signatures[id] = <<>>
  /\ stream = "waiting" =>
       {id \in Ids : revisions[id] # 0} = {page[i].id : i \in DOMAIN page}

\* A stream whose context lives never ends silently.
EndIsAnnounced ==
  stream = "closed" /\ ~cancelled /\ out = <<>> => last \in {"end", "error"}

Feed == INSTANCE TurnFeed

\* The Hub's picture of every turn moves forward only, one revision at a
\* time, however reloads, edits and the page's limits fall.
ImplementsTurnFeed == Feed!FeedSpec

\* A Hub that keeps reading ends up with the latest page, or with a closed
\* stream: no change is left waiting for an event that never comes.
HubEventuallyCurrent ==
  stream = "loading" ~>
    [](\/ stream = "closed"
       \/ \A i \in DOMAIN loadGatewayHistoryTurns : Shows(loadGatewayHistoryTurns[i]))

\* Every turn of the history that started after the initial page was loaded
\* is known to a caught-up Hub.
HandoffLosesNothing ==
  CaughtUp =>
    \A h \in Heads(messages) : h > baseline => view[messages[h].id].revision # 0
=============================================================================
