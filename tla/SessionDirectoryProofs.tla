----------------------- MODULE SessionDirectoryProofs -----------------------
(***************************************************************************)
(* Theorems about the dial and the listing of SessionDirectory, for every  *)
(* timeout, context, directory, page size and answer of the Gateway.       *)
(*                                                                         *)
(* The argument about listings: sessions that are created or used come to  *)
(* the front and push the others back, so one that kept its place and was  *)
(* in no page yet is still ahead of the offset (PagingFits).               *)
(***************************************************************************)
EXTENDS SessionDirectory, FoldProofs

\* The handshake leaves no read deadline behind.
NothingLeftSet == dial \in {"off", "connecting", "request", "up", "failed"} =>
                    readDeadline = NoDeadline

DialInv == DialTypeOK /\ NothingLeftSet
-----------------------------------------------------------------------------
USE HandshakeAssumption

\* A deadline that is set is one of the ticks of the timeout.
LEMMA DeadlineType ==
  ASSUME DialTypeOK
  PROVE  setReadDeadline \in 0 .. DialTimeout
BY DEF DialTypeOK, setReadDeadline

\* The invariant over every step of a dial and of the wire.
LEMMA DialStepKeeps ==
  ASSUME DialInv, StartDial \/ DialStep \/ WireStep
  PROVE  DialInv'
<1> USE DEF DialInv, DialTypeOK, NothingLeftSet
<1>1. CASE StartDial
  BY <1>1 DEF StartDial
<1>2. CASE ConnectSocket
  BY <1>2, DeadlineType DEF ConnectSocket, FailDial
<1>3. CASE ReadTimesOut
  BY <1>3 DEF ReadTimesOut, FailDial
<1>4. CASE RequestConnect
  BY <1>4 DEF RequestConnect, FailDial
<1>5. CASE SkipFrame
  BY <1>5, DeadlineType DEF SkipFrame
<1>6. CASE ReadChallenge
  BY <1>6 DEF ReadChallenge
<1>7. CASE SocketFails
  BY <1>7 DEF SocketFails, FailDial
<1>8. CASE GoQuiet
  BY <1>8 DEF GoQuiet
<1>9. CASE Tick
  BY <1>9 DEF Tick
<1> QED
  BY <1>1, <1>2, <1>3, <1>4, <1>5, <1>6, <1>7, <1>8, <1>9 DEF DialStep, WireStep

\* The invariant over every step of a listing.
LEMMA DialKept ==
  ASSUME DialInv, [Next]_vars
  PROVE  DialInv'
<1>1. CASE UNCHANGED dialVars
  BY <1>1 DEF dialVars, DialInv, DialTypeOK, NothingLeftSet
<1>2. CASE ListSessions
  BY <1>2, DialStepKeeps DEF ListSessions
<1>3. CASE ConnectionStep
  BY <1>3, DialStepKeeps DEF ConnectionStep
<1>4. CASE GatewayStep
  BY <1>1, <1>4 DEF GatewayStep, CreateSession, UseSession, DeleteSession, Change
<1>5. CASE ListStep
  BY <1>1, <1>5 DEF ListStep, ReadPage, ListFails, ListUnsupported, ReadActive
<1> QED
  BY <1>1, <1>2, <1>3, <1>4, <1>5 DEF Next, vars

\* The invariant behind it: whenever no challenge is waited for, no read
\* deadline is set.
THEOREM NoDeadlineLeft == Spec => []DialInv
<1>1. Init => DialInv
  BY DEF Init, DialInit, DialInv, DialTypeOK, NothingLeftSet
<1>2. DialInv /\ [Next]_vars => DialInv'
  BY DialKept
<1> QED
  BY <1>1, <1>2, PTL DEF Spec

\* newGatewayClient (gateway_client.go): no deadline of the handshake ends a
\* connection that got through it, whatever the timeout and the context's
\* deadline.
THEOREM IdleLives == Spec => IdleConnectionLives
<1>1. DialInv /\ [Next]_vars =>
        [dial' = "failed" /\ readDeadline = 0 => dial = "challenge"]_dialVars
  <2> SUFFICES ASSUME DialInv, [Next]_vars, dial' = "failed", readDeadline = 0,
                      ~UNCHANGED dialVars
               PROVE  dial = "challenge"
    OBVIOUS
  <2>1. readDeadline # NoDeadline
    OBVIOUS
  <2> QED
    BY <2>1 DEF DialInv, DialTypeOK, NothingLeftSet
<1> QED
  BY <1>1, NoDeadlineLeft, PTL DEF Spec, IdleConnectionLives
-----------------------------------------------------------------------------
(* The hints of a sequence of rows.                                        *)

\* One round of openClawSessionHints.
KeepHint(hints, k) == IF Contains(hints, k) THEN hints ELSE Append(hints, k)

HintFold(g, D, rows) ==
  g = [p \in SUBSET D |-> IF p = {} THEN <<>> ELSE KeepHint(g[p \ {Max(p)}], rows[Max(p)])]

\* FoldLeft is one such function, the rows' indices its argument.
LEMMA HintsChosen ==
  ASSUME NEW rows
  PROVE  openClawSessionHints(rows) = (CHOOSE g : HintFold(g, DOMAIN rows, rows))[DOMAIN rows]
BY DEF openClawSessionHints, FoldLeft, MapThenFoldSet, HintFold, KeepHint

\* Such a function exists.
LEMMA HintFoldExists ==
  ASSUME NEW rows \in Seq(Keys)
  PROVE  \E g : HintFold(g, 1 .. Len(rows), rows)
<1> DEFINE A == Seq(Keys)
           G == [x \in A \X Keys |-> KeepHint(x[1], x[2])]
           D == 1 .. Len(rows)
<1>1. G \in [A \X Keys -> A] /\ <<>> \in A
  <2>1. ASSUME NEW x \in A \X Keys
        PROVE  KeepHint(x[1], x[2]) \in A
    BY AppendProperties DEF KeepHint
  <2> QED
    BY <2>1
<1>2. \A h \in A, k \in Keys : G[<<h, k>>] = KeepHint(h, k)
  OBVIOUS
<1> HIDE DEF G, A
<1>3. PICK g \in [SUBSET (1 .. Len(rows)) -> A] : IsFold(g, G, <<>>, rows, Len(rows))
  BY <1>1, FoldExists
<1>4. ASSUME NEW p \in SUBSET D
      PROVE  g[p] = IF p = {} THEN <<>> ELSE KeepHint(g[p \ {Max(p)}], rows[Max(p)])
  <2>1. CASE p = {}
    BY <1>3, <2>1 DEF IsFold
  <2>2. CASE p # {}
    <3>1. Max(p) \in D
      <4>1. Len(rows) \in Nat
        OBVIOUS
      <4> QED
        BY <2>2, <4>1, MaxIsElement
    <3>2. g[p \ {Max(p)}] \in A /\ rows[Max(p)] \in Keys
      <4>1. p \ {Max(p)} \in SUBSET D
        OBVIOUS
      <4> QED
        BY <3>1, <4>1, ElementOfSeq
    <3> QED
      BY <1>2, <1>3, <2>2, <3>2 DEF IsFold
  <2> QED
    BY <2>1, <2>2
<1>5. g = [p \in SUBSET D |-> g[p]]
  OBVIOUS
<1> QED
  BY <1>4, <1>5, Zenon DEF HintFold

\* openClawSessionHints goes through the rows one after the other.
LEMMA HintSteps ==
  ASSUME NEW rows \in Seq(Keys)
  PROVE  \E f : /\ f[0] = <<>>
                /\ \A n \in 1 .. Len(rows) : f[n] = KeepHint(f[n - 1], rows[n])
                /\ openClawSessionHints(rows) = f[Len(rows)]
<1> DEFINE g == CHOOSE g : HintFold(g, 1 .. Len(rows), rows)
           f == [n \in 0 .. Len(rows) |-> g[1 .. n]]
<1>1. DOMAIN rows = 1 .. Len(rows) /\ Len(rows) \in Nat
  OBVIOUS
<1>2. HintFold(g, 1 .. Len(rows), rows)
  BY HintFoldExists
<1>3. openClawSessionHints(rows) = g[1 .. Len(rows)]
  BY <1>1, HintsChosen
<1> HIDE DEF g
<1>4. \A p \in SUBSET (1 .. Len(rows)) :
        g[p] = IF p = {} THEN <<>> ELSE KeepHint(g[p \ {Max(p)}], rows[Max(p)])
  BY <1>2 DEF HintFold
<1>5. f[0] = <<>>
  <2>1. f[0] = g[1 .. 0] /\ 1 .. 0 = {}
    BY <1>1
  <2> QED
    BY <1>4, <2>1
<1>6. ASSUME NEW n \in 1 .. Len(rows)
      PROVE  f[n] = KeepHint(f[n - 1], rows[n])
  <2>1. /\ Max(1 .. n) = n /\ (1 .. n) \ {Max(1 .. n)} = 1 .. (n - 1)
        /\ 1 .. n # {} /\ 1 .. n \subseteq 1 .. Len(rows)
    BY SegmentTop
  <2>2. g[1 .. n] = KeepHint(g[1 .. (n - 1)], rows[n])
    BY <1>4, <2>1
  <2> QED
    BY <1>1, <2>2
<1>7. f[Len(rows)] = g[1 .. Len(rows)]
  BY <1>1
<1> HIDE DEF f
<1> QED
  BY <1>3, <1>5, <1>6, <1>7

\* The hints of the first n rows: their keys, each once.
Hinted(hints, rows, n) ==
  /\ hints \in Seq(Keys)
  /\ IsInjective(hints)
  /\ \A k : Contains(hints, k) <=> \E i \in 1 .. n : rows[i] = k

\* One more row.
LEMMA RowHinted ==
  ASSUME NEW rows \in Seq(Keys), NEW n \in 1 .. Len(rows), NEW hints,
         Hinted(hints, rows, n - 1)
  PROVE  Hinted(KeepHint(hints, rows[n]), rows, n)
<1> DEFINE more == Append(hints, rows[n])
<1>1. \A k : (\E i \in 1 .. n : rows[i] = k) <=> (\E i \in 1 .. (n - 1) : rows[i] = k) \/ rows[n] = k
  <2>1. \A i \in 1 .. n : i \in 1 .. (n - 1) \/ i = n
    OBVIOUS
  <2>2. n \in 1 .. n /\ \A i \in 1 .. (n - 1) : i \in 1 .. n
    OBVIOUS
  <2> QED
    BY <2>1, <2>2
<1>2. CASE Contains(hints, rows[n])
  BY <1>1, <1>2 DEF KeepHint, Hinted
<1>3. CASE ~Contains(hints, rows[n])
  <2>1. hints \in Seq(Keys) /\ Len(hints) \in Nat /\ DOMAIN hints = 1 .. Len(hints)
    BY DEF Hinted
  <2>2. /\ more \in Seq(Keys) /\ Len(more) = Len(hints) + 1 /\ DOMAIN more = 1 .. Len(hints) + 1
        /\ more[Len(hints) + 1] = rows[n] /\ \A i \in 1 .. Len(hints) : more[i] = hints[i]
    <3>1. rows[n] \in Keys
      BY ElementOfSeq
    <3> QED
      BY <2>1, <3>1, AppendProperties
  <2> HIDE DEF more
  <2>3. IsInjective(more)
    <3> SUFFICES ASSUME NEW a \in 1 .. Len(hints) + 1, NEW b \in 1 .. Len(hints) + 1,
                        more[a] = more[b]
                 PROVE  a = b
      BY <2>2 DEF IsInjective
    <3>1. CASE a = Len(hints) + 1 \/ b = Len(hints) + 1
      BY <1>3, <2>1, <2>2, <3>1 DEF Contains
    <3>2. CASE a \in 1 .. Len(hints) /\ b \in 1 .. Len(hints)
      BY <2>1, <2>2, <3>2 DEF Hinted, IsInjective
    <3> QED
      BY <2>1, <3>1, <3>2
  <2>4. \A k : Contains(more, k) <=> Contains(hints, k) \/ rows[n] = k
    BY <2>1, <2>2 DEF Contains
  <2>5. Hinted(more, rows, n)
    BY <1>1, <2>2, <2>3, <2>4 DEF Hinted
  <2> QED
    BY <1>3, <2>5 DEF KeepHint, more
<1> QED
  BY <1>2, <1>3

\* All of them.
LEMMA HintsOfRows ==
  ASSUME NEW rows \in Seq(Keys)
  PROVE  Hinted(openClawSessionHints(rows), rows, Len(rows))
<1>1. PICK f : /\ f[0] = <<>>
               /\ \A n \in 1 .. Len(rows) : f[n] = KeepHint(f[n - 1], rows[n])
               /\ openClawSessionHints(rows) = f[Len(rows)]
  BY HintSteps
<1> DEFINE P == {n \in Nat : n <= Len(rows) => Hinted(f[n], rows, n)}
<1>2. 0 \in P
  <2>1. Hinted(<<>>, rows, 0)
    BY DEF Hinted, IsInjective, Contains
  <2> QED
    BY <1>1, <2>1
<1>3. ASSUME NEW n \in Nat, n \in P PROVE n + 1 \in P
  <2> SUFFICES ASSUME n + 1 <= Len(rows) PROVE Hinted(f[n + 1], rows, n + 1)
    OBVIOUS
  <2>1. n + 1 \in 1 .. Len(rows) /\ (n + 1) - 1 = n /\ Hinted(f[n], rows, n)
    BY <1>3
  <2> QED
    BY <1>1, <2>1, RowHinted
<1>4. Nat \subseteq P
  BY <1>2, <1>3, EveryNumber
<1> QED
  BY <1>1, <1>4
-----------------------------------------------------------------------------
(* The listing.  Sessions come to the front of the directory and push the  *)
(* others back, so that a session of the start that no page had yet is     *)
(* still ahead of the offset.                                              *)

Ahead(k) == \E i \in 1 .. Len(directory) : i > offset /\ directory[i] = k

PagingFits ==
  listing = "paging" /\ "sessions.list" \in methods /\ ~shrunk =>
    \A k \in steady : Contains(all, k) \/ Ahead(k)

ListingInv ==
  /\ TypeOK
  /\ NothingLeftSet
  /\ listing = "idle" => offset = 0
  /\ listing = "fallback" => "sessions.list" \notin methods
  /\ PagingFits
  /\ GrowthLosesNothing

USE DirectoryAssumption

\* The elements of a sequence.
LEMMA ElementsOf ==
  ASSUME NEW S, NEW s \in Seq(S), NEW k
  PROVE  /\ k \in ToSet(s) <=> Contains(s, k)
         /\ ToSet(s) \subseteq S
BY DEF ToSet, Contains

\* The smaller of two numbers.
LEMMA MinOfTwo ==
  ASSUME NEW x \in Nat, NEW y \in Nat
  PROVE  Min({x, y}) = IF x <= y THEN x ELSE y
<1> DEFINE m == IF x <= y THEN x ELSE y
<1>1. m \in {x, y} /\ \A z \in {x, y} : m <= z
  OBVIOUS
<1>2. \A w \in {x, y} : (\A z \in {x, y} : w <= z) => w = m
  OBVIOUS
<1> HIDE DEF m
<1>3. Min({x, y}) = m
  BY <1>1, <1>2 DEF Min
<1> QED
  BY <1>3 DEF m

\* A directory with one session more, in front.
LEMMA PutInFront ==
  ASSUME NEW k \in Keys, NEW d \in Seq(Keys), IsInjective(d), ~Contains(d, k)
  PROVE  /\ <<k>> \o d \in Seq(Keys)
         /\ IsInjective(<<k>> \o d)
         /\ Len(<<k>> \o d) = Len(d) + 1
         /\ \A i \in 1 .. Len(d) : (<<k>> \o d)[i + 1] = d[i]
<1> DEFINE e == <<k>> \o d
<1>1. Len(d) \in Nat /\ DOMAIN d = 1 .. Len(d)
  OBVIOUS
<1>2. /\ e \in Seq(Keys) /\ Len(e) = Len(d) + 1
      /\ \A i \in 1 .. Len(d) + 1 : e[i] = IF i = 1 THEN k ELSE d[i - 1]
  <2>1. <<k>> \in Seq(Keys) /\ Len(<<k>>) = 1 /\ <<k>>[1] = k
    OBVIOUS
  <2>2. /\ e \in Seq(Keys) /\ Len(e) = 1 + Len(d)
        /\ \A i \in 1 .. 1 + Len(d) : e[i] = IF i <= 1 THEN <<k>>[i] ELSE d[i - 1]
    BY <2>1, ConcatProperties
  <2> HIDE DEF e
  <2> QED
    BY <1>1, <2>1, <2>2
<1> HIDE DEF e
<1>3. IsInjective(e)
  <2> SUFFICES ASSUME NEW a \in 1 .. Len(d) + 1, NEW b \in 1 .. Len(d) + 1, e[a] = e[b]
               PROVE  a = b
    BY <1>1, <1>2 DEF IsInjective
  <2>1. CASE a = 1 \/ b = 1
    <3>1. \A i \in 2 .. Len(d) + 1 : e[i] # k
      <4>1. \A i \in 2 .. Len(d) + 1 : i - 1 \in 1 .. Len(d) /\ e[i] = d[i - 1]
        BY <1>1, <1>2
      <4> QED
        BY <4>1 DEF Contains
    <3> QED
      BY <1>1, <1>2, <2>1, <3>1
  <2>2. CASE a # 1 /\ b # 1
    <3>1. a - 1 \in 1 .. Len(d) /\ b - 1 \in 1 .. Len(d) /\ d[a - 1] = d[b - 1]
      BY <1>1, <1>2, <2>2
    <3> QED
      BY <1>1, <3>1 DEF IsInjective
  <2> QED
    BY <2>1, <2>2
<1>4. \A i \in 1 .. Len(d) : e[i + 1] = d[i]
  BY <1>1, <1>2
<1> QED
  BY <1>2, <1>3, <1>4 DEF e

\* A directory without the session at position i.
LEMMA TakeOut ==
  ASSUME NEW d \in Seq(Keys), IsInjective(d), NEW i \in 1 .. Len(d)
  PROVE  /\ RemoveAt(d, i) \in Seq(Keys)
         /\ IsInjective(RemoveAt(d, i))
         /\ ~Contains(RemoveAt(d, i), d[i])
         /\ Len(RemoveAt(d, i)) = Len(d) - 1
         /\ \A j \in 1 .. Len(d) - 1 : RemoveAt(d, i)[j] = IF j < i THEN d[j] ELSE d[j + 1]
<1> DEFINE e == RemoveAt(d, i)
           left == SubSeq(d, 1, i - 1)
           right == SubSeq(d, i + 1, Len(d))
<1>1. Len(d) \in Nat /\ DOMAIN d = 1 .. Len(d) /\ \A j \in 1 .. Len(d) : d[j] \in Keys
  OBVIOUS
<1>2. /\ left \in Seq(Keys) /\ Len(left) = i - 1
      /\ \A j \in 1 .. i - 1 : left[j] = d[j]
  BY <1>1, SubSeqProperties
<1>3. /\ right \in Seq(Keys) /\ Len(right) = Len(d) - i
      /\ \A j \in 1 .. Len(d) - i : right[j] = d[i + j]
  <2>1. \A j \in i + 1 .. Len(d) : d[j] \in Keys
    BY <1>1
  <2>2. /\ right \in Seq(Keys)
        /\ Len(right) = IF i + 1 <= Len(d) THEN Len(d) - (i + 1) + 1 ELSE 0
        /\ \A j \in 1 .. Len(d) - (i + 1) + 1 : right[j] = d[i + 1 + j - 1]
    BY <1>1, <2>1, SubSeqProperties
  <2> HIDE DEF right
  <2>3. ASSUME NEW j \in 1 .. Len(d) - i
        PROVE  right[j] = d[i + j]
    <3>1. j \in 1 .. Len(d) - (i + 1) + 1 /\ i + 1 + j - 1 = i + j
      BY <1>1
    <3>2. right[j] = d[i + 1 + j - 1]
      BY <2>2, <3>1
    <3> QED
      BY <3>1, <3>2
  <2>4. Len(right) = Len(d) - i
    <3>1. CASE i + 1 <= Len(d)
      BY <1>1, <2>2, <3>1
    <3>2. CASE i = Len(d)
      BY <1>1, <2>2, <3>2
    <3>3. i + 1 <= Len(d) \/ i = Len(d)
      OBVIOUS
    <3> QED
      BY <3>1, <3>2, <3>3
  <2> QED
    BY <2>2, <2>3, <2>4
<1> HIDE DEF left, right
<1>4. /\ e \in Seq(Keys) /\ Len(e) = Len(d) - 1
      /\ \A j \in 1 .. Len(d) - 1 : e[j] = IF j < i THEN d[j] ELSE d[j + 1]
  <2>1. e = left \o right
    BY DEF RemoveAt, left, right
  <2> HIDE DEF e
  <2>2. /\ e \in Seq(Keys) /\ Len(e) = Len(left) + Len(right)
        /\ \A j \in 1 .. Len(left) + Len(right) :
             e[j] = IF j <= Len(left) THEN left[j] ELSE right[j - Len(left)]
    BY <1>2, <1>3, <2>1, ConcatProperties
  <2>3. ASSUME NEW j \in 1 .. Len(d) - 1
        PROVE  e[j] = IF j < i THEN d[j] ELSE d[j + 1]
    <3>1. j \in 1 .. Len(left) + Len(right)
      BY <1>1, <1>2, <1>3
    <3>2. e[j] = IF j <= i - 1 THEN left[j] ELSE right[j - (i - 1)]
      BY <1>2, <2>2, <3>1
    <3>3. CASE j < i
      BY <1>1, <1>2, <3>2, <3>3
    <3>4. CASE ~(j < i)
      <4>1. j - (i - 1) \in 1 .. Len(d) - i /\ i + (j - (i - 1)) = j + 1
        BY <1>1, <3>4
      <4>2. right[j - (i - 1)] = d[i + (j - (i - 1))]
        BY <1>3, <4>1
      <4> QED
        BY <1>1, <3>2, <3>4, <4>1, <4>2
    <3> QED
      BY <3>3, <3>4
  <2> QED
    BY <1>1, <1>2, <1>3, <2>2, <2>3
<1> HIDE DEF e
<1>5. ASSUME NEW j \in 1 .. Len(d) - 1
      PROVE  \E m \in 1 .. Len(d) : m = (IF j < i THEN j ELSE j + 1) /\ e[j] = d[m] /\ m # i
  BY <1>1, <1>4
<1>6. IsInjective(e) /\ ~Contains(e, d[i])
  <2>1. ASSUME NEW a \in 1 .. Len(d) - 1, NEW b \in 1 .. Len(d) - 1, e[a] = e[b]
        PROVE  a = b
    <3>1. PICK m \in 1 .. Len(d) : m = (IF a < i THEN a ELSE a + 1) /\ e[a] = d[m]
      BY <1>5
    <3>2. PICK n \in 1 .. Len(d) : n = (IF b < i THEN b ELSE b + 1) /\ e[b] = d[n]
      BY <1>5
    <3>3. m = n
      BY <1>1, <2>1, <3>1, <3>2 DEF IsInjective
    <3> QED
      BY <1>1, <3>1, <3>2, <3>3
  <2>2. ASSUME NEW j \in 1 .. Len(d) - 1, e[j] = d[i]
        PROVE  FALSE
    BY <1>1, <1>5, <2>2 DEF IsInjective
  <2>3. Len(e) = Len(d) - 1 /\ DOMAIN e = 1 .. Len(d) - 1
    BY <1>4
  <2> QED
    BY <2>1, <2>2, <2>3 DEF IsInjective, Contains
<1> QED
  BY <1>4, <1>6 DEF e

\* A session that is created pushes the others back.
LEMMA SessionCreated ==
  ASSUME TypeOK, NEW k \in Keys, CreateSession(k)
  PROVE  /\ directory' \in Seq(Keys) /\ IsInjective(directory')
         /\ \A c : Ahead(c) => Ahead(c)'
<1>1. directory \in Seq(Keys) /\ IsInjective(directory) /\ offset \in Nat /\ Len(directory) \in Nat
  BY DEF TypeOK
<1>2. ~Contains(directory, k) /\ directory' = <<k>> \o directory /\ offset' = offset
  BY <1>1, ElementsOf DEF CreateSession, Change, listVars
<1>3. /\ directory' \in Seq(Keys) /\ IsInjective(directory')
      /\ Len(directory') = Len(directory) + 1
      /\ \A i \in 1 .. Len(directory) : directory'[i + 1] = directory[i]
  BY <1>1, <1>2, PutInFront
<1>4. ASSUME NEW c, Ahead(c)
      PROVE  Ahead(c)'
  <2>1. PICK i \in 1 .. Len(directory) : i > offset /\ directory[i] = c
    BY <1>4 DEF Ahead
  <2>2. i + 1 \in 1 .. Len(directory') /\ i + 1 > offset' /\ directory'[i + 1] = c
    BY <1>1, <1>2, <1>3, <2>1
  <2> QED
    BY <2>2 DEF Ahead
<1> QED
  BY <1>3, <1>4

\* A session that is used pushes those before it back and leaves the others.
LEMMA SessionUsed ==
  ASSUME TypeOK, NEW k \in Keys, UseSession(k)
  PROVE  /\ directory' \in Seq(Keys) /\ IsInjective(directory')
         /\ \A c : c # k /\ Ahead(c) => Ahead(c)'
<1>1. directory \in Seq(Keys) /\ IsInjective(directory) /\ offset \in Nat /\ Len(directory) \in Nat
  BY DEF TypeOK
<1>2. offset' = offset
  BY DEF UseSession, Change, listVars
<1>3. PICK p \in 1 .. Len(directory) :
        directory[p] = k /\ directory' = <<k>> \o RemoveAt(directory, p)
  <2>1. DOMAIN directory = 1 .. Len(directory)
    BY <1>1
  <2>2. \E i \in DOMAIN directory :
          directory[i] = k /\ directory' = <<k>> \o RemoveAt(directory, i)
    BY Zenon DEF UseSession
  <2> QED
    BY <2>1, <2>2, Zenon
<1> DEFINE rest == RemoveAt(directory, p)
<1>4. /\ rest \in Seq(Keys) /\ IsInjective(rest) /\ ~Contains(rest, k)
      /\ Len(rest) = Len(directory) - 1
      /\ \A j \in 1 .. Len(directory) - 1 :
           rest[j] = IF j < p THEN directory[j] ELSE directory[j + 1]
  BY <1>1, <1>3, TakeOut
<1>5. directory' = <<k>> \o rest
  BY <1>3
<1> HIDE DEF rest
<1>6. /\ directory' \in Seq(Keys) /\ IsInjective(directory')
      /\ Len(directory') = Len(rest) + 1
      /\ \A i \in 1 .. Len(rest) : directory'[i + 1] = rest[i]
  BY <1>4, <1>5, PutInFront
<1>7. ASSUME NEW c, c # k, Ahead(c)
      PROVE  Ahead(c)'
  <2>1. PICK i \in 1 .. Len(directory) : i > offset /\ directory[i] = c
    BY <1>7 DEF Ahead
  <2>2. CASE i < p
    <3>1. i \in 1 .. Len(directory) - 1 /\ rest[i] = c
      BY <1>1, <1>3, <1>4, <2>1, <2>2
    <3>2. i + 1 \in 1 .. Len(directory') /\ i + 1 > offset' /\ directory'[i + 1] = c
      BY <1>1, <1>2, <1>4, <1>6, <2>1, <3>1
    <3> QED
      BY <3>2 DEF Ahead
  <2>3. CASE i > p
    <3>1. i - 1 \in 1 .. Len(directory) - 1 /\ ~(i - 1 < p) /\ (i - 1) + 1 = i
      BY <1>1, <1>3, <2>1, <2>3
    <3>2. rest[i - 1] = c
      BY <1>4, <2>1, <3>1
    <3>3. i \in 1 .. Len(directory') /\ i > offset' /\ directory'[i] = c
      BY <1>1, <1>2, <1>4, <1>6, <2>1, <3>1, <3>2
    <3> QED
      BY <3>3 DEF Ahead
  <2>4. i # p
    BY <1>3, <1>7, <2>1
  <2> QED
    BY <1>1, <2>2, <2>3, <2>4
<1> QED
  BY <1>6, <1>7

\* The invariant over the Gateway's steps.
LEMMA GatewayKeeps ==
  ASSUME ListingInv, GatewayStep
  PROVE  ListingInv'
<1> USE DEF ListingInv
<1>1. PICK k \in Keys : CreateSession(k) \/ UseSession(k) \/ DeleteSession(k)
  BY DEF GatewayStep
<1>2. /\ Change
      /\ UNCHANGED <<dial, readDeadline, contextLeft, quiet, methods, listing, offset, all, result>>
  BY <1>1 DEF CreateSession, UseSession, DeleteSession, Change, dialVars, listVars
<1>3. directory' \in Seq(Keys) /\ IsInjective(directory')
  <2>1. CASE CreateSession(k)
    BY <2>1, SessionCreated
  <2>2. CASE UseSession(k)
    BY <2>2, SessionUsed
  <2>3. CASE DeleteSession(k)
    <3>1. directory \in Seq(Keys) /\ IsInjective(directory) /\ DOMAIN directory = 1 .. Len(directory)
      BY DEF TypeOK
    <3>2. \E i \in DOMAIN directory : directory' = RemoveAt(directory, i)
      BY <2>3, Zenon DEF DeleteSession
    <3>3. PICK i \in 1 .. Len(directory) : directory' = RemoveAt(directory, i)
      BY <3>1, <3>2, Zenon
    <3> QED
      BY <3>1, <3>3, TakeOut
  <2> QED
    BY <1>1, <2>1, <2>2, <2>3
<1>4. /\ steady' \subseteq steady /\ shrunk' \in BOOLEAN /\ (shrunk => shrunk')
      /\ ~shrunk' => \A c \in steady' : Ahead(c) => Ahead(c)'
  <2>1. CASE CreateSession(k)
    BY <2>1, SessionCreated DEF CreateSession, TypeOK
  <2>2. CASE UseSession(k)
    <3>1. steady' = steady \ {k} /\ shrunk' = shrunk
      BY <2>2 DEF UseSession
    <3> QED
      BY <2>2, <3>1, SessionUsed DEF TypeOK
  <2>3. CASE DeleteSession(k)
    BY <2>3 DEF DeleteSession
  <2> QED
    BY <1>1, <2>1, <2>2, <2>3
<1>5. TypeOK'
  <2>1. changes' \in 0 .. MaxChanges
    BY <1>2 DEF Change, TypeOK
  <2> QED
    BY <1>2, <1>3, <1>4, <2>1 DEF TypeOK, DialTypeOK
<1>6. PagingFits'
  BY <1>2, <1>4 DEF PagingFits
<1>7. GrowthLosesNothing'
  BY <1>2, <1>4 DEF GrowthLosesNothing
<1> QED
  BY <1>2, <1>5, <1>6, <1>7 DEF NothingLeftSet

\* A page has the rows at the offset; every other row ahead is beyond it.
LEMMA PageRows ==
  ASSUME TypeOK
  PROVE  /\ Page(offset) \in Seq(Keys)
         /\ \A c : Ahead(c) => \/ Contains(Page(offset), c)
                               \/ \E i \in 1 .. Len(directory) :
                                    i > offset + PageLimit /\ directory[i] = c
<1> DEFINE top == Min({offset + PageLimit, Len(directory)})
           rows == SubSeq(directory, offset + 1, top)
<1>1. directory \in Seq(Keys) /\ offset \in Nat /\ Len(directory) \in Nat /\ PageLimit \in Nat
  BY DEF TypeOK
<1>2. top = IF offset + PageLimit <= Len(directory) THEN offset + PageLimit ELSE Len(directory)
  BY <1>1, MinOfTwo
<1>3. top \in Nat /\ top <= Len(directory)
  BY <1>1, <1>2
<1> HIDE DEF top
<1>4. \A i \in offset + 1 .. top : directory[i] \in Keys
  BY <1>1, <1>3, ElementOfSeq
<1>5. /\ rows \in Seq(Keys)
      /\ Len(rows) = IF offset + 1 <= top THEN top - (offset + 1) + 1 ELSE 0
      /\ \A i \in 1 .. top - (offset + 1) + 1 : rows[i] = directory[offset + 1 + i - 1]
  BY <1>1, <1>3, <1>4, SubSeqProperties
<1> HIDE DEF rows
<1>6. ASSUME NEW c, NEW i \in 1 .. Len(directory), i > offset, directory[i] = c,
             ~(i > offset + PageLimit)
      PROVE  Contains(rows, c)
  <2>1. i <= top
    BY <1>1, <1>2, <1>6
  <2>2. /\ i - offset \in 1 .. top - (offset + 1) + 1
        /\ offset + 1 + (i - offset) - 1 = i
        /\ i - offset \in 1 .. Len(rows)
    BY <1>1, <1>3, <1>5, <1>6, <2>1
  <2>3. rows[i - offset] = directory[offset + 1 + (i - offset) - 1]
    BY <1>5, <2>2
  <2> QED
    BY <1>6, <2>2, <2>3 DEF Contains
<1> QED
  BY <1>5, <1>6 DEF Page, rows, top, Ahead

\* The rows read so far with those of the next page.
LEMMA RowsJoined ==
  ASSUME NEW s \in Seq(Keys), NEW t \in Seq(Keys)
  PROVE  /\ s \o t \in Seq(Keys)
         /\ \A c : Contains(s, c) \/ Contains(t, c) => Contains(s \o t, c)
<1> DEFINE u == s \o t
<1>1. Len(s) \in Nat /\ Len(t) \in Nat
  OBVIOUS
<1>2. /\ u \in Seq(Keys) /\ Len(u) = Len(s) + Len(t)
      /\ \A i \in 1 .. Len(s) + Len(t) : u[i] = IF i <= Len(s) THEN s[i] ELSE t[i - Len(s)]
  BY ConcatProperties
<1> HIDE DEF u
<1>3. ASSUME NEW c, NEW i \in 1 .. Len(s), s[i] = c
      PROVE  Contains(u, c)
  <2>1. i \in 1 .. Len(u) /\ u[i] = c
    BY <1>1, <1>2, <1>3
  <2> QED
    BY <2>1 DEF Contains
<1>4. ASSUME NEW c, NEW i \in 1 .. Len(t), t[i] = c
      PROVE  Contains(u, c)
  <2>1. i + Len(s) \in 1 .. Len(s) + Len(t) /\ ~(i + Len(s) <= Len(s)) /\ (i + Len(s)) - Len(s) = i
    BY <1>1
  <2>2. i + Len(s) \in 1 .. Len(u) /\ u[i + Len(s)] = c
    BY <1>2, <1>4, <2>1
  <2> QED
    BY <2>2 DEF Contains
<1> QED
  BY <1>2, <1>3, <1>4 DEF u, Contains

\* The invariant over a page.
LEMMA PageKeeps ==
  ASSUME ListingInv, ReadPage
  PROVE  ListingInv'
<1> USE DEF ListingInv
<1>1. /\ listing = "paging" /\ "sessions.list" \in methods /\ all' = all \o Page(offset)
      /\ UNCHANGED <<dial, readDeadline, contextLeft, quiet, methods, directory, changes, steady,
                     shrunk>>
  BY DEF ReadPage, dialVars, gatewayVars
<1>2. offset \in Nat /\ PageLimit \in Nat \ {0} /\ Len(directory) \in Nat /\ all \in Seq(Keys)
  BY DEF TypeOK
<1>3. /\ all' \in Seq(Keys)
      /\ \A c : Contains(all, c) \/ Contains(Page(offset), c) => Contains(all', c)
  BY <1>1, <1>2, PageRows, RowsJoined
<1>4. \A c \in steady : ~shrunk => \/ Contains(all', c)
                                   \/ \E i \in 1 .. Len(directory) :
                                        i > offset + PageLimit /\ directory[i] = c
  BY <1>1, <1>3, PageRows DEF PagingFits
<1>5. CASE /\ HasMore(offset) /\ UNCHANGED <<listing, result>>
           /\ offset' \in NextOffsets(offset) /\ offset' > offset
  <2>1. offset' = offset + PageLimit
    BY <1>2, <1>5 DEF NextOffsets
  <2>2. TypeOK'
    BY <1>1, <1>2, <1>3, <1>5, <2>1 DEF TypeOK, DialTypeOK
  <2>3. PagingFits'
    BY <1>1, <1>4, <2>1 DEF PagingFits, Ahead
  <2> QED
    BY <1>1, <1>5, <2>2, <2>3 DEF NothingLeftSet, GrowthLosesNothing
<1>6. CASE Fail /\ UNCHANGED offset
  BY <1>1, <1>3, <1>6
     DEF Fail, TypeOK, DialTypeOK, NothingLeftSet, PagingFits, GrowthLosesNothing
<1>7. CASE ~HasMore(offset) /\ Publish(openClawSessionHints(all')) /\ UNCHANGED offset
  <2>1. listing' = "done" /\ result' = openClawSessionHints(all')
    BY <1>7 DEF Publish
  <2>2. \A rows : rows \in Seq(Keys) => Hinted(openClawSessionHints(rows), rows, Len(rows))
    BY HintsOfRows
  <2>3. Hinted(result', all', Len(all'))
    BY <1>3, <2>1, <2>2
  <2>4. TypeOK'
    BY <1>1, <1>3, <1>7, <2>1, <2>3 DEF TypeOK, DialTypeOK, Hinted
  <2>5. ASSUME NEW c \in steady, ~shrunk
        PROVE  c \in ToSet(result')
    <3>1. ~\E i \in 1 .. Len(directory) : i > offset + PageLimit
      BY <1>2, <1>7 DEF HasMore
    <3>2. Contains(all', c)
      BY <1>4, <2>5, <3>1
    <3>3. Contains(result', c) /\ result' \in Seq(Keys)
      BY <2>3, <3>2 DEF Hinted, Contains
    <3> QED
      BY <3>3, ElementsOf
  <2>6. GrowthLosesNothing'
    BY <1>1, <2>5 DEF GrowthLosesNothing
  <2> QED
    BY <1>1, <2>1, <2>4, <2>6 DEF NothingLeftSet, PagingFits
<1> QED
  BY <1>5, <1>6, <1>7 DEF ReadPage, NextPage

\* The invariant over sessions.active, or its absence.
LEMMA ActiveKeeps ==
  ASSUME ListingInv, ReadActive
  PROVE  ListingInv'
<1> USE DEF ListingInv
<1>1. /\ "sessions.list" \notin methods /\ listing' = "done"
      /\ UNCHANGED <<dial, readDeadline, contextLeft, quiet, methods, directory, changes, offset,
                     all, steady, shrunk>>
  BY DEF ReadActive, Publish, dialVars, gatewayVars
<1>2. result' \in Seq(Keys) /\ IsInjective(result')
  <2>1. CASE \E rows \in Selections : Publish(openClawSessionHints(rows))
    <3>1. PICK rows \in Selections : result' = openClawSessionHints(rows)
      BY <2>1 DEF Publish
    <3>2. rows \in Seq(Keys)
      <4>1. directory \in Seq(Keys) /\ DOMAIN directory = 1 .. Len(directory)
        BY DEF TypeOK
      <4>2. PICK p \in SeqOf(DOMAIN directory, Len(directory)) :
              rows = [i \in DOMAIN p |-> directory[p[i]]]
        BY DEF Selections
      <4>3. PICK n \in 0 .. Len(directory) : p \in [1 .. n -> 1 .. Len(directory)]
        BY <4>1, <4>2 DEF SeqOf
      <4>4. n \in Nat /\ \A i \in 1 .. n : directory[p[i]] \in Keys
        BY <4>1, <4>3, ElementOfSeq
      <4>5. rows = [i \in 1 .. n |-> directory[p[i]]]
        BY <4>2, <4>3
      <4> QED
        BY <4>4, <4>5
    <3> QED
      BY <3>1, <3>2, HintsOfRows DEF Hinted
  <2>2. CASE Publish(<<>>)
    BY <2>2 DEF Publish, IsInjective
  <2> QED
    BY <2>1, <2>2 DEF ReadActive
<1>3. TypeOK'
  BY <1>1, <1>2 DEF TypeOK, DialTypeOK
<1> QED
  BY <1>1, <1>3 DEF NothingLeftSet, PagingFits, GrowthLosesNothing

\* The invariant over every step.
LEMMA ListingKept ==
  ASSUME ListingInv, [Next]_vars
  PROVE  ListingInv'
<1>1. DialInv /\ DialInv'
  BY DialKept DEF ListingInv, TypeOK, DialInv
<1> USE DEF ListingInv
<1>2. CASE GatewayStep
  BY <1>2, GatewayKeeps
<1>3. CASE ListSessions
  <2>1. /\ listing = "idle" /\ listing' = "paging" /\ steady' = ToSet(directory)
        /\ UNCHANGED <<methods, directory, changes, offset, all, result>> /\ shrunk' = FALSE
    BY <1>3 DEF ListSessions, gatewayVars
  <2>2. directory \in Seq(Keys) /\ DOMAIN directory = 1 .. Len(directory) /\ offset = 0
    BY <2>1 DEF TypeOK
  <2>3. TypeOK'
    <3>1. steady' \subseteq Keys
      BY <2>1, <2>2, ElementsOf
    <3> QED
      BY <1>1, <2>1, <3>1 DEF TypeOK, DialInv
  <2>4. PagingFits'
    BY <2>1, <2>2 DEF PagingFits, Ahead, ToSet
  <2> QED
    BY <1>1, <2>1, <2>3, <2>4 DEF DialInv, GrowthLosesNothing
<1>4. CASE ConnectionStep
  <2>1. UNCHANGED <<methods, directory, changes, listing, offset, all, result, steady, shrunk>>
    BY <1>4 DEF ConnectionStep, gatewayVars, listVars
  <2> QED
    BY <1>1, <2>1 DEF DialInv, TypeOK, PagingFits, Ahead, GrowthLosesNothing
<1>5. CASE ReadPage
  BY <1>5, PageKeeps
<1>6. CASE ListFails
  BY <1>1, <1>6 DEF ListFails, Fail, DialInv, TypeOK, PagingFits, GrowthLosesNothing, gatewayVars
<1>7. CASE ListUnsupported
  BY <1>1, <1>7 DEF ListUnsupported, DialInv, TypeOK, PagingFits, GrowthLosesNothing, gatewayVars
<1>8. CASE ReadActive
  BY <1>8, ActiveKeeps
<1>9. CASE UNCHANGED vars
  BY <1>1, <1>9 DEF vars, gatewayVars, listVars, DialInv, TypeOK, PagingFits, Ahead,
                    GrowthLosesNothing
<1> QED
  BY <1>2, <1>3, <1>4, <1>5, <1>6, <1>7, <1>8, <1>9 DEF Next, ListStep

\* The invariant behind the next two: whatever sessions come and are used
\* while pages are read, a session of the start is on a page read or ahead.
THEOREM ListingInvariant == Spec => []ListingInv
<1>1. Init => ListingInv
  <2> SUFFICES ASSUME Init PROVE ListingInv
    OBVIOUS
  <2>1. directory \in Seq(Keys) /\ IsInjective(directory)
    <3>1. PICK n \in 0 .. Cardinality(Keys) : directory \in [1 .. n -> Keys]
      BY DEF Init, Directories
    <3>2. Cardinality(Keys) \in Nat
      BY FS_CardinalityType
    <3>3. n \in Nat
      BY <3>2
    <3> QED
      BY <3>1, <3>3 DEF Init, Directories
  <2>2. <<>> \in Seq(Keys) /\ IsInjective(<<>>)
    BY DEF IsInjective
  <2>3. DialTypeOK /\ NothingLeftSet
    BY DEF Init, DialInit, DialTypeOK, NothingLeftSet
  <2>4. TypeOK
    <3>1. all \in Seq(Keys) /\ result \in Seq(Keys) /\ IsInjective(result)
      BY <2>2 DEF Init
    <3>2. /\ methods \subseteq {"sessions.list", "sessions.active"} /\ changes \in 0 .. MaxChanges
          /\ listing = "idle" /\ offset = 0 /\ steady = {} /\ shrunk = FALSE
      BY DEF Init
    <3> QED
      BY <2>1, <2>3, <3>1, <3>2 DEF TypeOK
  <2> QED
    BY <2>3, <2>4 DEF Init, ListingInv, PagingFits, GrowthLosesNothing
<1>2. ListingInv /\ [Next]_vars => ListingInv'
  BY ListingKept
<1> QED
  BY <1>1, <1>2, PTL DEF Spec

\* The types, and no session is published twice.
THEOREM ListingTyped == Spec => []TypeOK
<1>1. ListingInv => TypeOK
  BY DEF ListingInv
<1> QED
  BY <1>1, ListingInvariant, PTL

\* ListSessions (discovery.go): for every size of a page and any number of
\* sessions created and used meanwhile, no session that kept its place is
\* missed.
THEOREM NothingLost == Spec => []GrowthLosesNothing
<1>1. ListingInv => GrowthLosesNothing
  BY DEF ListingInv
<1> QED
  BY <1>1, ListingInvariant, PTL
=============================================================================
