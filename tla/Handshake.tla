----------------------------- MODULE Handshake -----------------------------
(***************************************************************************)
(* newGatewayClient (openclaw/gateway_client.go): the socket is connected, *)
(* frames are read until the Gateway's connect.challenge, each under a     *)
(* read deadline of its own, and then the read loop takes over and the     *)
(* connect request is made.                                                *)
(*                                                                         *)
(* Time passes in ticks and only while a read deadline is set: a request   *)
(* has a timer of its own (GatewayClient), and here it just may fail.  A   *)
(* cancelled context is left out, because the challenge wait does not look *)
(* at it: it reads the context's deadline.                                 *)
(***************************************************************************)
EXTENDS Naturals

CONSTANTS
  NoDeadline,
  DialTimeout,   \* gatewayDialTimeout, in ticks
  Contexts       \* ticks that the callers' contexts have left, or NoDeadline

ASSUME HandshakeAssumption ==
  /\ DialTimeout \in Nat \ {0}
  /\ Contexts \subseteq Nat \cup {NoDeadline}
  /\ NoDeadline \notin Nat

VARIABLES
  dial,           \* "off", "connecting", "challenge", "request", "up" or "failed"
  readDeadline,   \* ticks until a read of the socket fails, or NoDeadline
  contextLeft,    \* ticks until the context's deadline, or NoDeadline
  quiet           \* the Gateway sends no more frames but the challenge

dialVars == <<dial, readDeadline, contextLeft, quiet>>

DialInit ==
  /\ dial = "off"
  /\ readDeadline = NoDeadline
  /\ contextLeft \in Contexts
  /\ quiet = FALSE

\* newGatewayClient is called.
StartDial ==
  /\ dial = "off"
  /\ dial' = "connecting"
  /\ UNCHANGED <<readDeadline, contextLeft, quiet>>

\* A client that fails to come up is closed.
FailDial ==
  /\ dial' = "failed"
  /\ readDeadline' = NoDeadline
  /\ UNCHANGED <<contextLeft, quiet>>

DeadlineOfDialAlone == DialTimeout

\* setReadDeadline with the dial timeout as the fallback.
setReadDeadline ==
  IF contextLeft = NoDeadline \/ DialTimeout <= contextLeft THEN DialTimeout ELSE contextLeft

\* dialer.DialContext, which has a timeout.
ConnectSocket ==
  /\ dial = "connecting"
  /\ \/ /\ dial' = "challenge"
        /\ readDeadline' = setReadDeadline
        /\ UNCHANGED <<contextLeft, quiet>>
     \/ FailDial

\* waitConnectChallenge reads something else and sets the deadline anew.
SkipFrame ==
  /\ dial = "challenge"
  /\ readDeadline > 0
  /\ ~quiet
  /\ readDeadline' = setReadDeadline
  /\ UNCHANGED <<dial, contextLeft, quiet>>

KeepDeadline ==
  /\ dial = "challenge"
  /\ readDeadline > 0
  /\ dial' = "request"
  /\ UNCHANGED <<readDeadline, contextLeft, quiet>>

\* The challenge: the deadline is cleared, the read loop starts and the
\* connect request goes out.
ReadChallenge ==
  /\ dial = "challenge"
  /\ readDeadline > 0
  /\ dial' = "request"
  /\ readDeadline' = NoDeadline
  /\ UNCHANGED <<contextLeft, quiet>>

\* A read, of waitConnectChallenge or of the read loop, fails at the deadline.
ReadTimesOut ==
  /\ dial \in {"challenge", "request", "up"}
  /\ readDeadline = 0
  /\ FailDial

SocketFails ==
  /\ dial \in {"challenge", "request", "up"}
  /\ FailDial

\* The answer to the connect request, or an error in its place.
RequestConnect ==
  /\ dial = "request"
  /\ \/ dial' = "up" /\ UNCHANGED <<readDeadline, contextLeft, quiet>>
     \/ FailDial

GoQuiet ==
  /\ dial = "challenge"
  /\ ~quiet
  /\ quiet' = TRUE
  /\ UNCHANGED <<dial, readDeadline, contextLeft>>

Tick ==
  /\ readDeadline # NoDeadline
  /\ readDeadline > 0
  /\ readDeadline' = readDeadline - 1
  /\ contextLeft' = IF contextLeft = NoDeadline \/ contextLeft = 0 THEN contextLeft
                    ELSE contextLeft - 1
  /\ UNCHANGED <<dial, quiet>>

\* What the client does by itself.
DialStep == ConnectSocket \/ ReadTimesOut \/ RequestConnect

\* The Gateway, the network and the clock.
WireStep == SkipFrame \/ ReadChallenge \/ SocketFails \/ GoQuiet \/ Tick
-----------------------------------------------------------------------------
DialTypeOK ==
  /\ dial \in {"off", "connecting", "challenge", "request", "up", "failed"}
  /\ readDeadline \in 0 .. DialTimeout \cup {NoDeadline}
  /\ contextLeft \in Nat \cup {NoDeadline}
  /\ quiet \in BOOLEAN

\* A wait for the challenge ends when the context has a deadline, however
\* many other frames the Gateway sends, and otherwise once these cease.
DialEnds ==
  /\ dial = "challenge" /\ contextLeft # NoDeadline ~> dial \in {"request", "up", "failed"}
  /\ dial = "challenge" /\ quiet ~> dial \in {"request", "up", "failed"}

\* A deadline of the handshake never ends a connection that got through it,
\* however long that is idle and whatever frames came before the challenge.
IdleConnectionLives ==
  [][dial' = "failed" /\ readDeadline = 0 => dial = "challenge"]_dialVars
=============================================================================
