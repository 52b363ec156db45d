------------------------------ MODULE TurnFeed ------------------------------
(***************************************************************************)
(* What a history stream promises to the Hub that follows it: its picture  *)
(* of a turn moves from one revision to the next, and only forward.  What  *)
(* it shows is a beginning of the turn as the Gateway has it, with each    *)
(* message as it is or was; a message once shown stays, and no message     *)
(* goes back to an earlier version.                                        *)
(*                                                                         *)
(* The n-th message of the session has the id n; a turn has the id of its  *)
(* first message.                                                          *)
(***************************************************************************)
EXTENDS Naturals, Sequences

CONSTANT Ids

VARIABLES
  messages,   \* Gateway: the session's messages
  view        \* Hub: the turn it shows under an id, revision 0 when none

feedVars == <<messages, view>>

FeedInit ==
  /\ messages = <<>>
  /\ view = [id \in Ids |-> [revision |-> 0, messages |-> <<>>]]

\* What is said from message id on, up to the next user message.
Said(history, id) ==
  {i \in DOMAIN history :
     /\ id <= i
     /\ history[i].role # "other"
     /\ \A j \in DOMAIN history : id < j /\ j <= i => history[j].role # "user"}

\* shown is a beginning of the turn, in order and without a gap, each message
\* in a version that it has or had.
Had(history, id, shown) ==
  \A k \in DOMAIN shown :
    /\ shown[k].id \in Said(history, id)
    /\ shown[k].version <= history[shown[k].id].version
    /\ {i \in Said(history, id) : i < shown[k].id} = {shown[j].id : j \in 1 .. (k - 1)}

\* The messages of old are the first of new, none in an earlier version.
Continues(old, new) ==
  /\ Len(old) <= Len(new)
  /\ \A k \in DOMAIN old : old[k].id = new[k].id /\ old[k].version <= new[k].version

HistoryChanges ==
  /\ \/ \E role \in {"user", "assistant", "other"} :
          messages' = Append(messages, [id |-> Len(messages) + 1, role |-> role, version |-> 0])
     \/ \E id \in DOMAIN messages : messages' = [messages EXCEPT ![id].version = @ + 1]
  /\ UNCHANGED view

ShowTurn(id) ==
  LET old == view[id]
      new == view'[id]
  IN  /\ new.revision = old.revision + 1
      /\ new.messages # old.messages
      /\ Continues(old.messages, new.messages)
      /\ Had(messages, id, new.messages)
      /\ view' = [view EXCEPT ![id] = new]
      /\ UNCHANGED messages

FeedNext == HistoryChanges \/ \E id \in Ids : ShowTurn(id)

FeedSpec == FeedInit /\ [][FeedNext]_feedVars
=============================================================================
