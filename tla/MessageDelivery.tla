-------------------------- MODULE MessageDelivery --------------------------
(***************************************************************************)
(* Adapter.StartSessionWithMessage, Send and VerifyVisibility              *)
(* (openclaw/discovery.go).  A first message is three things one after the *)
(* other, each with a client of its own: create the session, send the      *)
(* message, look for it in the history.  The Hub makes the call again when *)
(* one of them fails.  An operation is [kind, message, text].              *)
(***************************************************************************)
EXTENDS AdapterCalls

\* A message id without a character that a session key may have makes a new
\* key in each call.
SessionKey(c, m) == IF KeyOf[m] = None THEN c ELSE KeyOf[m]

FreshKey(c) == c

\* The idempotency key is the message id, or a new one for each call.
IdempotencyKey(c) == IF call[c].op.message = None THEN c ELSE call[c].op.message

TargetSession(c) ==
  IF call[c].op.kind = "start" THEN SessionKey(c, call[c].op.message) ELSE "main"

IsDelivery(c) == call[c].op.kind \in {"start", "send"}

\* The client is connected.
DeliveryDialed(c) ==
  /\ At(c, "dialing")
  /\ \/ call[c].op.kind = "start" /\ Goto(c, "creating")
     \/ call[c].op.kind = "send" /\ Goto(c, "attaching")
  /\ UNCHANGED gatewayVars

CreateRequest(c) == Create(c, SessionKey(c, call[c].op.message))

\* Send dials again for the message of the session just created.
CreateSession(c) ==
  /\ At(c, "creating")
  /\ Request(c, CreateRequest(c), [call[c] EXCEPT !.at = "sendDialing"])

SendDialed(c) ==
  /\ At(c, "sendDialing")
  /\ Goto(c, "attaching") \/ Fails(c)
  /\ UNCHANGED gatewayVars

\* gatewayAttachments: a file that is gone or too large fails the call.
ReadAttachments(c) ==
  /\ At(c, "attaching")
  /\ Goto(c, "sending") \/ Fails(c)
  /\ UNCHANGED gatewayVars

SendRequest(c) == ChatSend(c, TargetSession(c), IdempotencyKey(c), call[c].op.message)

Delivered(c) ==
  Done(call[c], [NoAnswer EXCEPT !.ok = TRUE, !.session = TargetSession(c)])

SendMessage(c) ==
  /\ At(c, "sending")
  /\ Request(c, SendRequest(c), IF call[c].op.kind = "start"
                                THEN [call[c] EXCEPT !.at = "verifying"]
                                ELSE Delivered(c))

\* VerifyVisibility polls chat.history until the marker is found or the
\* deadline has passed, which is no error; a failed dial or request and an
\* ended context are.  A poll may miss a message that is there: the history
\* lags and reaches back 50 messages.
VerifyVisibility(c) ==
  /\ At(c, "verifying")
  /\ \/ /\ \E s \in sent : s[1] = TargetSession(c) /\ s[3] = call[c].op.message
        /\ Becomes(c, [Delivered(c) EXCEPT !.answer.confirmed = TRUE])
     \/ Becomes(c, Delivered(c))
     \/ Fails(c)
  /\ UNCHANGED gatewayVars

DeliveryStep(c) ==
  \/ DeliveryDialed(c)
  \/ CreateSession(c)
  \/ SendDialed(c)
  \/ ReadAttachments(c)
  \/ SendMessage(c)
  \/ VerifyVisibility(c)
-----------------------------------------------------------------------------
DeliveriesOf(m) == {<<s[1], s[2]>> : s \in {t \in sent : t[3] = m}}

ToldOf(m) ==
  {call[c].answer.session : c \in
     {d \in Calls : IsDelivery(d) /\ Returned(d) /\ call[d].op.message = m /\ call[d].answer.ok}}

\* What the Hub has to keep to: a first message has an id that makes a session
\* key, and is never sent as a message of an existing session.
OneSessionPerMessage ==
  \A op \in Operations :
    /\ op.kind = "start" => op.message \in Messages /\ KeyOf[op.message] # None
    /\ op.kind = "send" =>
         ~\E first \in Operations : first.kind = "start" /\ first.message = op.message

Promise == INSTANCE DeliveryPromise WITH
  Deliveries <- ({KeyOf[m] : m \in Messages} \cup Calls \cup {"main"}) \X (Messages \cup Calls),
  delivered <- [m \in Messages |-> DeliveriesOf(m)],
  told <- [m \in Messages |-> ToldOf(m)]

\* Retries, answers that are lost, requests performed after their call gave
\* up, and calls of the same message that overlap: a message with an id is
\* delivered once, to one session, and every success names that session.
ImplementsDeliveryPromise == Promise!PromiseSpec
=============================================================================
