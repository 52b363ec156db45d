-------------------------- MODULE SessionDirectory --------------------------
(***************************************************************************)
(* Adapter.ListSessions (openclaw/discovery.go): the session directory of  *)
(* the Gateway read page by page with growing offsets, over a connection   *)
(* of its own (Handshake), while sessions are created, used and deleted.   *)
(* The Gateway lists the session used last first; a session is its key.    *)
(***************************************************************************)
EXTENDS Handshake, SequencesExt

CONSTANTS
  Keys,          \* session keys
  PageLimit,     \* openClawSessionPageLimit
  OffsetFaults,  \* whether the Gateway may answer a wrong nextOffset
  MaxChanges     \* bound: changes of the directory

ASSUME DirectoryAssumption ==
  /\ PageLimit \in Nat \ {0}
  /\ OffsetFaults \in BOOLEAN
  /\ MaxChanges \in Nat
  /\ IsFiniteSet(Keys)

VARIABLES
  methods,    \* Gateway: the listing methods it implements
  directory,  \* Gateway: the keys, the one used last first
  changes,    \* Gateway: changes so far
  listing,    \* where ListSessions is
  offset,     \* of the page to ask for
  all,        \* rows of the pages read
  result,     \* the hints returned
  steady,     \* history: listed neither later nor deleted since the start
  shrunk      \* history: a session was deleted since the start

gatewayVars == <<methods, directory, changes>>
listVars == <<listing, offset, all, result>>
vars == <<dialVars, gatewayVars, listVars, steady, shrunk>>

Directories == {d \in UNION {[1 .. n -> Keys] : n \in 0 .. Cardinality(Keys)} : IsInjective(d)}

Init ==
  /\ DialInit
  /\ methods \in SUBSET {"sessions.list", "sessions.active"}
  /\ directory \in Directories
  /\ changes = 0
  /\ listing = "idle"
  /\ offset = 0
  /\ all = <<>>
  /\ result = <<>>
  /\ steady = {}
  /\ shrunk = FALSE
-----------------------------------------------------------------------------
(* The Gateway, external.                                                  *)

Change ==
  /\ changes < MaxChanges
  /\ changes' = changes + 1
  /\ UNCHANGED <<dialVars, methods, listVars>>

CreateSession(k) ==
  /\ k \notin ToSet(directory)
  /\ directory' = <<k>> \o directory
  /\ Change
  /\ UNCHANGED <<steady, shrunk>>

\* A message moves its session to the front.
UseSession(k) ==
  /\ \E i \in DOMAIN directory :
       /\ directory[i] = k
       /\ directory' = <<k>> \o RemoveAt(directory, i)
  /\ steady' = steady \ {k}
  /\ Change
  /\ UNCHANGED shrunk

DeleteSession(k) ==
  /\ \E i \in DOMAIN directory :
       /\ directory[i] = k
       /\ directory' = RemoveAt(directory, i)
  /\ steady' = steady \ {k}
  /\ shrunk' = TRUE
  /\ Change
-----------------------------------------------------------------------------
(* ListSessions                                                            *)

ListSessions ==
  /\ listing = "idle"
  /\ listing' = "paging"
  /\ StartDial
  /\ steady' = ToSet(directory)
  /\ shrunk' = FALSE
  /\ UNCHANGED <<gatewayVars, offset, all, result>>

KeepRepeated(rows) == rows

\* openClawSessionHints: one hint for each key, in order.
openClawSessionHints(rows) ==
  FoldLeft(LAMBDA hints, k : IF Contains(hints, k) THEN hints ELSE Append(hints, k), <<>>, rows)

Publish(hints) ==
  /\ listing' = "done"
  /\ result' = hints

Fail ==
  /\ listing' = "failed"
  /\ UNCHANGED result

\* The rows of a page, and what a truthful Gateway says of the rest.
Page(from) == SubSeq(directory, from + 1, Min({from + PageLimit, Len(directory)}))
HasMore(from) == from + PageLimit < Len(directory)
NextOffsets(from) == {from + PageLimit} \cup (IF OffsetFaults THEN 0 .. from ELSE {})

NextPageSkippingRow(next) ==
  \/ /\ next > offset
     /\ offset' = next + 1
     /\ UNCHANGED <<listing, result>>
  \/ /\ next <= offset
     /\ Fail
     /\ UNCHANGED offset

\* An offset that does not grow ends the listing, and so does a missing one,
\* which reads as 0.  A repeated offset, which the code checks for too, cannot
\* come up.
NextPage(next) ==
  \/ /\ next > offset
     /\ offset' = next
     /\ UNCHANGED <<listing, result>>
  \/ /\ next <= offset
     /\ Fail
     /\ UNCHANGED offset

ReadPage ==
  /\ listing = "paging"
  /\ dial = "up"
  /\ "sessions.list" \in methods
  /\ all' = all \o Page(offset)
  /\ \/ /\ HasMore(offset)
        /\ \E next \in NextOffsets(offset) : NextPage(next)
     \/ /\ ~HasMore(offset)
        /\ Publish(openClawSessionHints(all'))
        /\ UNCHANGED offset
  /\ UNCHANGED <<dialVars, gatewayVars, steady, shrunk>>

\* The dial failed, or a request does.
ListFails ==
  /\ listing \in {"paging", "fallback"}
  /\ dial \in {"up", "failed"}
  /\ Fail
  /\ UNCHANGED <<dialVars, gatewayVars, offset, all, steady, shrunk>>

ListUnsupported ==
  /\ listing = "paging"
  /\ dial = "up"
  /\ "sessions.list" \notin methods
  /\ listing' = "fallback"
  /\ UNCHANGED <<dialVars, gatewayVars, offset, all, result, steady, shrunk>>

\* Rows of some of the sessions, in their order.
Selections ==
  {[i \in DOMAIN pick |-> directory[pick[i]]] :
     pick \in {p \in SeqOf(DOMAIN directory, Len(directory)) :
                 \A i, j \in DOMAIN p : i < j => p[i] < p[j]}}

ReadActiveOrRetry ==
  /\ listing = "fallback"
  /\ dial = "up"
  /\ \/ /\ "sessions.active" \in methods
        /\ \E rows \in Selections : Publish(openClawSessionHints(rows))
     \/ /\ "sessions.active" \notin methods
        /\ listing' = "paging"
        /\ UNCHANGED result
  /\ UNCHANGED <<dialVars, gatewayVars, offset, all, steady, shrunk>>

\* sessions.active answers with rows of some of the sessions; a Gateway
\* without it has an empty directory.
ReadActive ==
  /\ listing = "fallback"
  /\ dial = "up"
  /\ \/ /\ "sessions.active" \in methods
        /\ \E rows \in Selections : Publish(openClawSessionHints(rows))
     \/ /\ "sessions.active" \notin methods
        /\ Publish(<<>>)
  /\ UNCHANGED <<dialVars, gatewayVars, offset, all, steady, shrunk>>
-----------------------------------------------------------------------------
GatewayStep == \E k \in Keys : CreateSession(k) \/ UseSession(k) \/ DeleteSession(k)

ListStep ==
  \/ ReadPage
  \/ ListFails
  \/ ListUnsupported
  \/ ReadActive

\* The connection by itself; it is closed when the listing has returned.
ConnectionStep ==
  /\ listing \in {"paging", "fallback"}
  /\ DialStep \/ WireStep
  /\ UNCHANGED <<gatewayVars, listVars, steady, shrunk>>

Dialing == ConnectionStep /\ DialStep

Ticking == ConnectionStep /\ Tick

Next == GatewayStep \/ ListSessions \/ ListStep \/ ConnectionStep

Spec == Init /\ [][Next]_vars

\* Every request returns, because it has a timeout; the client goes on when it
\* can, and time passes.
FairSpec == Spec /\ WF_vars(ListStep) /\ WF_vars(Dialing) /\ WF_vars(Ticking)
-----------------------------------------------------------------------------
\* Types; the published hints are of different sessions.
TypeOK ==
  /\ DialTypeOK
  /\ methods \subseteq {"sessions.list", "sessions.active"}
  /\ directory \in Seq(Keys) /\ IsInjective(directory)
  /\ changes \in 0 .. MaxChanges
  /\ listing \in {"idle", "paging", "fallback", "done", "failed"}
  /\ offset \in Nat
  /\ all \in Seq(Keys)
  /\ result \in Seq(Keys)
  /\ IsInjective(result)
  /\ steady \subseteq Keys
  /\ shrunk \in BOOLEAN
-----------------------------------------------------------------------------
\* Sessions created or used while the pages are read push the others back:
\* some are read twice and listed once, and none that kept its place in the
\* order is missed.
GrowthLosesNothing ==
  listing = "done" /\ "sessions.list" \in methods /\ ~shrunk => steady \subseteq ToSet(result)

\* Whatever offsets the Gateway answers, a listing that got its connection
\* ends.
ListingEnds == listing = "paging" /\ dial = "up" ~> listing \in {"done", "failed"}

\* A directory read to its last page is never published incomplete: it has
\* every session that kept its place.
SnapshotIsComplete ==
  listing = "done" /\ "sessions.list" \in methods => steady \subseteq ToSet(result)
=============================================================================
