---------------------------- MODULE HistoryTurns ----------------------------
(***************************************************************************)
(* How openclaw/history_stream.go groups the messages of a session into    *)
(* turns.  A message is its native id, its role and the version of its     *)
(* content; a turn is the id of its first message and its messages.        *)
(***************************************************************************)
EXTENDS SequencesExt

Roles == {"user", "assistant", "other"}   \* "other": tool and system rows

Turn(messages) == [id |-> messages[1].id, messages |-> messages]

Latest(s, n) == IF Len(s) > n THEN SubSeq(s, Len(s) - n + 1, Len(s)) ELSE s

AddMessageDroppingOrphan(turns, m) ==
  CASE m.role = "user" -> Append(turns, Turn(<<m>>))
    [] m.role = "assistant" /\ turns # <<>> ->
         [turns EXCEPT ![Len(turns)].messages = Append(@, m)]
    [] OTHER -> turns

AddMessageOverLast(turns, m) ==
  CASE m.role = "user" \/ (m.role = "assistant" /\ turns = <<>>) ->
         Append(turns, Turn(<<m>>))
    [] m.role = "assistant" /\ turns # <<>> ->
         [turns EXCEPT ![Len(turns)].messages = <<@[1], m>>]
    [] OTHER -> turns

\* One round of the loop; `current` is the last of the turns.
AddMessage(turns, m) ==
  CASE m.role = "user" \/ (m.role = "assistant" /\ turns = <<>>) ->
         Append(turns, Turn(<<m>>))
    [] m.role = "assistant" /\ turns # <<>> ->
         [turns EXCEPT ![Len(turns)].messages = Append(@, m)]
    [] OTHER -> turns

\* The latest `limit` turns, newest first.
gatewayHistoryTurns(messages, limit) ==
  Reverse(Latest(FoldLeft(AddMessage, <<>>, messages), limit))
-----------------------------------------------------------------------------
(* What the grouping should give, said of positions in the message list.   *)

Spoken(messages) == {i \in DOMAIN messages : messages[i].role # "other"}

\* A user message starts a turn, and so does an assistant message that
\* nothing spoken precedes.
Heads(messages) ==
  {i \in Spoken(messages) :
     messages[i].role = "user" \/ \A j \in Spoken(messages) : i <= j}

\* What is spoken from a head up to the next one.
TurnAt(messages, h) ==
  {i \in Spoken(messages) : h <= i /\ \A g \in Heads(messages) : g <= i => g <= h}

\* turns are the turns of the last `limit` heads, newest first, each with
\* its messages in order.
Groups(turns, messages, limit) ==
  LET recent == {h \in Heads(messages) :
                   Cardinality({g \in Heads(messages) : g > h}) < limit}
  IN  turns = [n \in 1 .. Cardinality(recent) |->
                 LET head == CHOOSE h \in recent :
                               Cardinality({g \in recent : g > h}) = n - 1
                     mine == TurnAt(messages, head)
                 IN  Turn([k \in 1 .. Cardinality(mine) |->
                             messages[CHOOSE i \in mine :
                                        Cardinality({j \in mine : j < i}) = k - 1]])]
=============================================================================
