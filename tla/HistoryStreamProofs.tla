------------------------ MODULE HistoryStreamProofs ------------------------
(***************************************************************************)
(* Theorems about HistoryStream for every history, limit and window, every *)
(* size of the buffer and of the channel, and any number of events.        *)
(*                                                                         *)
(* The argument: a page lists exactly the turns that start in the window   *)
(* and are not buried under Limit later ones (PageLists), so a turn that   *)
(* left the page never returns; the events on their way to the Hub lead    *)
(* from what it shows to what the stream remembers (HubFits); and each of  *)
(* them, and each turn still to be handled, continues what was said of the *)
(* turn before (NewsFits), because a loaded turn is all that is said.      *)
(***************************************************************************)
EXTENDS HistoryStream, FoldProofs

USE SizesAssumption, HistoryBoundsAssumption

-----------------------------------------------------------------------------
(* What the fold of HistoryTurns computes.                                 *)

TurnRecord == [id : Ids, messages : Seq(Message)]

Equation(g, S, s) ==
  g = [p \in SUBSET S |-> IF p = {} THEN <<>> ELSE AddMessage(g[p \ {Max(p)}], s[Max(p)])]

\* FoldLeft is one such function, the sequence's domain its argument.
LEMMA FoldChosen ==
  ASSUME NEW s
  PROVE  FoldLeft(AddMessage, <<>>, s) = (CHOOSE g : Equation(g, DOMAIN s, s))[DOMAIN s]
BY DEF FoldLeft, MapThenFoldSet, Equation

\* A turn of one message.
LEMMA FirstOfTurn ==
  ASSUME NEW m \in Message
  PROVE  /\ Turn(<<m>>) \in TurnRecord /\ Turn(<<m>>).id = m.id
         /\ Turn(<<m>>).messages = <<m>>
<1>1. <<m>> \in Seq(Message) /\ <<m>>[1] = m
  OBVIOUS
<1> QED
  BY <1>1 DEF Turn, TurnRecord, Message

\* A turn that goes on.
LEMMA RestOfTurn ==
  ASSUME NEW t \in Seq(TurnRecord), t # <<>>, NEW m \in Message
  PROVE  LET u == [t EXCEPT ![Len(t)].messages = Append(@, m)]
         IN  /\ u \in Seq(TurnRecord) /\ Len(u) = Len(t)
             /\ \A i \in 1 .. Len(t) : u[i].id = t[i].id
             /\ \A i \in 1 .. Len(t) : i # Len(t) => u[i] = t[i]
             /\ u[Len(t)].messages = Append(t[Len(t)].messages, m)
<1> DEFINE u == [t EXCEPT ![Len(t)].messages = Append(@, m)]
           k == Len(t)
           q == [t[k] EXCEPT !.messages = Append(@, m)]
<1>1. k \in 1 .. Len(t) /\ k \in Nat
  BY EmptySeq
<1>2. t[k] \in TurnRecord /\ t[k].messages \in Seq(Message)
  <2>1. t[k] \in TurnRecord
    BY <1>1, ElementOfSeq
  <2> QED
    BY <2>1 DEF TurnRecord
<1>3. q \in TurnRecord /\ q.id = t[k].id /\ q.messages = Append(t[k].messages, m)
  <2>1. Append(t[k].messages, m) \in Seq(Message)
    BY <1>2, AppendProperties
  <2> QED
    BY <1>2, <2>1 DEF TurnRecord
<1>4. u = [t EXCEPT ![k] = q]
  OBVIOUS
<1> HIDE DEF u, q
<1>5. /\ u \in Seq(TurnRecord) /\ Len(u) = Len(t)
      /\ \A i \in 1 .. Len(t) : u[i] = IF i = k THEN q ELSE t[i]
  BY <1>1, <1>3, <1>4, ExceptSeq
<1> QED
  BY <1>1, <1>3, <1>5 DEF u

\* Such a function exists.
LEMMA TurnsFoldExists ==
  ASSUME NEW s \in Seq(Message)
  PROVE  \E g : Equation(g, 1 .. Len(s), s)
<1> DEFINE A == Seq(TurnRecord)
           G == [x \in A \X Message |-> AddMessage(x[1], x[2])]
           D == 1 .. Len(s)
<1>1. ASSUME NEW t \in A, NEW m \in Message
      PROVE  AddMessage(t, m) \in A
  <2>1. Append(t, Turn(<<m>>)) \in A
    BY FirstOfTurn, AppendProperties
  <2>2. t # <<>> => [t EXCEPT ![Len(t)].messages = Append(@, m)] \in A
    BY RestOfTurn
  <2> QED
    BY <2>1, <2>2 DEF AddMessage
<1>2. G \in [A \X Message -> A] /\ <<>> \in A
  <2>1. \A x \in A \X Message : AddMessage(x[1], x[2]) \in A
    BY <1>1
  <2> QED
    BY <2>1, EmptySeq
<1>3. \A t \in A, m \in Message : G[<<t, m>>] = AddMessage(t, m)
  OBVIOUS
<1> HIDE DEF G, A
<1>4. PICK g \in [SUBSET (1 .. Len(s)) -> A] : IsFold(g, G, <<>>, s, Len(s))
  BY <1>2, FoldExists
<1>5. ASSUME NEW p \in SUBSET D
      PROVE  g[p] = IF p = {} THEN <<>> ELSE AddMessage(g[p \ {Max(p)}], s[Max(p)])
  <2>1. CASE p = {}
    BY <1>4, <2>1 DEF IsFold
  <2>2. CASE p # {}
    <3>1. Max(p) \in D
      <4>1. Len(s) \in Nat
        OBVIOUS
      <4> QED
        BY <2>2, <4>1, MaxIsElement
    <3>2. g[p \ {Max(p)}] \in A /\ s[Max(p)] \in Message
      <4>1. p \ {Max(p)} \in SUBSET D
        OBVIOUS
      <4> QED
        BY <3>1, <4>1, ElementOfSeq
    <3> QED
      BY <1>3, <1>4, <2>2, <3>2 DEF IsFold
  <2> QED
    BY <2>1, <2>2
<1>6. g = [p \in SUBSET D |-> g[p]]
  OBVIOUS
<1> QED
  BY <1>5, <1>6, Zenon DEF Equation

\* The fold goes through the messages one after the other.
LEMMA FoldSteps ==
  ASSUME NEW s \in Seq(Message)
  PROVE  \E f : /\ f[0] = <<>>
                /\ \A n \in 1 .. Len(s) : f[n] = AddMessage(f[n - 1], s[n])
                /\ FoldLeft(AddMessage, <<>>, s) = f[Len(s)]
<1> DEFINE g == CHOOSE g : Equation(g, 1 .. Len(s), s)
           f == [n \in 0 .. Len(s) |-> g[1 .. n]]
<1>1. DOMAIN s = 1 .. Len(s) /\ Len(s) \in Nat
  OBVIOUS
<1>2. Equation(g, 1 .. Len(s), s)
  BY TurnsFoldExists
<1>3. FoldLeft(AddMessage, <<>>, s) = g[1 .. Len(s)]
  BY <1>1, FoldChosen
<1> HIDE DEF g
<1>4. \A p \in SUBSET (1 .. Len(s)) :
        g[p] = IF p = {} THEN <<>> ELSE AddMessage(g[p \ {Max(p)}], s[Max(p)])
  BY <1>2 DEF Equation
<1>5. f[0] = <<>>
  <2>1. f[0] = g[1 .. 0] /\ 1 .. 0 = {}
    BY <1>1
  <2> QED
    BY <1>4, <2>1
<1>6. ASSUME NEW n \in 1 .. Len(s)
      PROVE  f[n] = AddMessage(f[n - 1], s[n])
  <2>1. /\ Max(1 .. n) = n /\ (1 .. n) \ {Max(1 .. n)} = 1 .. (n - 1)
        /\ 1 .. n # {} /\ 1 .. n \subseteq 1 .. Len(s)
    BY SegmentTop
  <2>2. g[1 .. n] = AddMessage(g[1 .. (n - 1)], s[n])
    BY <1>4, <2>1
  <2> QED
    BY <1>1, <2>2
<1>7. f[Len(s)] = g[1 .. Len(s)]
  BY <1>1
<1> HIDE DEF f
<1> QED
  BY <1>3, <1>5, <1>6, <1>7
-----------------------------------------------------------------------------
(* The turns of a window of the history, by position.                      *)

Ascending(w) == \A i, j \in 1 .. Len(w) : i < j => w[i].id < w[j].id

UpTo(S, n) == {p \in S : p <= n}

\* r is the turn of head h, as far as the first n messages of w go.
TurnPlaced(r, w, h, n) ==
  /\ r.id = w[h].id
  /\ \E e : /\ Enumerates(e, UpTo(TurnAt(w, h), n))
            /\ Len(e) = Len(r.messages)
            /\ \A k \in 1 .. Len(e) : r.messages[k] = w[e[k]]

\* t is what the first n messages of w are grouped into: one turn for each
\* head, in order.
Placed(t, w, n, heads) ==
  /\ t \in Seq(TurnRecord)
  /\ Enumerates(heads, UpTo(Heads(w), n))
  /\ Len(heads) = Len(t)
  /\ \A i \in 1 .. Len(t) : TurnPlaced(t[i], w, heads[i], n)
  /\ t # <<>> <=> \E k \in 1 .. n : k \in Spoken(w)

\* The positions up to n, and up to n - 1.
LEMMA UpToNext ==
  ASSUME NEW S, S \subseteq Nat, NEW n \in Nat \ {0}
  PROVE  /\ n \in S => UpTo(S, n) = UpTo(S, n - 1) \cup {n}
         /\ n \notin S => UpTo(S, n) = UpTo(S, n - 1)
         /\ \A y \in UpTo(S, n - 1) : y < n
<1>1. \A y \in S : y <= n <=> (y <= n - 1 \/ y = n)
  OBVIOUS
<1>2. \A y \in S : y <= n - 1 => y < n
  OBVIOUS
<1>3. \A y : y \in UpTo(S, n) <=> y \in UpTo(S, n - 1) \/ (y = n /\ n \in S)
  BY <1>1 DEF UpTo
<1>4. \A y \in UpTo(S, n - 1) : y < n
  BY <1>2 DEF UpTo
<1> QED
  BY <1>3, <1>4

\* Heads and turns are of positions.
LEMMA PositionsAreNumbers ==
  ASSUME NEW w \in Seq(Message), NEW h
  PROVE  /\ Heads(w) \subseteq Spoken(w) /\ TurnAt(w, h) \subseteq Spoken(w)
         /\ Spoken(w) \subseteq 1 .. Len(w) /\ 1 .. Len(w) \subseteq Nat
BY DEF Heads, TurnAt, Spoken

\* A turn that message n does not belong to.
LEMMA TurnUntouched ==
  ASSUME NEW w \in Seq(Message), NEW n \in 1 .. Len(w), NEW h, NEW r,
         n \notin TurnAt(w, h), TurnPlaced(r, w, h, n - 1)
  PROVE  TurnPlaced(r, w, h, n)
<1>1. UpTo(TurnAt(w, h), n) = UpTo(TurnAt(w, h), n - 1)
  <2>1. TurnAt(w, h) \subseteq Nat /\ n \in Nat \ {0}
    BY PositionsAreNumbers
  <2> QED
    BY <2>1, UpToNext
<1> QED
  BY <1>1 DEF TurnPlaced

\* A message that starts a turn.
LEMMA HeadPlaced ==
  ASSUME NEW w \in Seq(Message), NEW n \in 1 .. Len(w), NEW t, NEW heads,
         Placed(t, w, n - 1, heads), n \in Heads(w)
  PROVE  Placed(Append(t, Turn(<<w[n]>>)), w, n, Append(heads, n))
<1> DEFINE r == Turn(<<w[n]>>)
           u == Append(t, r)
           more == Append(heads, n)
<1>1. /\ w[n] \in Message /\ t \in Seq(TurnRecord) /\ Len(t) \in Nat /\ n \in Nat \ {0}
      /\ heads \in Seq(Nat) /\ Len(heads) = Len(t)
  BY ElementOfSeq DEF Placed, Enumerates
<1>2. r \in TurnRecord /\ r.id = w[n].id /\ r.messages = <<w[n]>>
  BY <1>1, FirstOfTurn
<1> HIDE DEF r
<1>3. /\ u \in Seq(TurnRecord) /\ Len(u) = Len(t) + 1 /\ u # <<>>
      /\ u[Len(t) + 1] = r /\ \A i \in 1 .. Len(t) : u[i] = t[i]
  BY <1>1, <1>2, AppendProperties
<1>4. /\ Len(more) = Len(t) + 1 /\ more[Len(t) + 1] = n
      /\ \A i \in 1 .. Len(t) : more[i] = heads[i]
  BY <1>1, AppendProperties
<1>5. Enumerates(more, UpTo(Heads(w), n))
  <2>1. Heads(w) \subseteq Nat
    BY PositionsAreNumbers
  <2>2. UpTo(Heads(w), n) = UpTo(Heads(w), n - 1) \cup {n} /\ \A y \in UpTo(Heads(w), n - 1) : y < n
    BY <1>1, <2>1, UpToNext
  <2>3. Enumerates(heads, UpTo(Heads(w), n - 1))
    BY DEF Placed
  <2> QED
    BY <1>1, <2>2, <2>3, EnumeratesMore
<1> HIDE DEF u, more
<1>6. ASSUME NEW i \in 1 .. Len(t)
      PROVE  TurnPlaced(t[i], w, heads[i], n)
  <2>1. heads[i] \in UpTo(Heads(w), n - 1)
    BY <1>1 DEF Placed, Enumerates
  <2>2. heads[i] <= n - 1 /\ heads[i] \in Nat
    BY <1>1, <2>1, ElementOfSeq DEF UpTo
  <2>3. ~(n <= heads[i])
    BY <2>2
  <2>4. n \notin TurnAt(w, heads[i])
    BY <1>1, <2>3 DEF TurnAt
  <2> QED
    BY <2>4, TurnUntouched DEF Placed
<1>7. TurnPlaced(r, w, n, n)
  <2> DEFINE e == <<n>>
  <2>1. UpTo(TurnAt(w, n), n) = {n}
    <3>1. n \in TurnAt(w, n)
      BY <1>1 DEF TurnAt, Heads
    <3>2. \A p \in TurnAt(w, n) : p \in Nat /\ n <= p
      BY PositionsAreNumbers DEF TurnAt
    <3> QED
      BY <1>1, <3>1, <3>2 DEF UpTo
  <2>2. e \in Seq(Nat) /\ Len(e) = 1 /\ e[1] = n
    BY <1>1
  <2> HIDE DEF e
  <2>3. Enumerates(e, {n})
    BY <2>2 DEF Enumerates
  <2>4. Len(r.messages) = 1 /\ r.messages[1] = w[n]
    BY <1>2
  <2>5. \A k \in 1 .. Len(e) : r.messages[k] = w[e[k]]
    BY <2>2, <2>4
  <2> QED
    BY <1>2, <2>1, <2>2, <2>3, <2>4, <2>5 DEF TurnPlaced
<1>8. ASSUME NEW i \in 1 .. Len(u)
      PROVE  TurnPlaced(u[i], w, more[i], n)
  <2>1. i \in 1 .. Len(t) \/ i = Len(t) + 1
    BY <1>1, <1>3
  <2> QED
    BY <1>3, <1>4, <1>6, <1>7, <2>1
<1>9. n \in 1 .. n /\ n \in Spoken(w)
  BY <1>1 DEF Heads
<1> QED
  BY <1>3, <1>4, <1>5, <1>8, <1>9 DEF Placed, u, more, r

\* An assistant's message that continues the last turn.
LEMMA RestPlaced ==
  ASSUME NEW w \in Seq(Message), NEW n \in 1 .. Len(w), NEW t, NEW heads,
         Placed(t, w, n - 1, heads), n \in Spoken(w), n \notin Heads(w), t # <<>>
  PROVE  Placed([t EXCEPT ![Len(t)].messages = Append(@, w[n])], w, n, heads)
<1> DEFINE u == [t EXCEPT ![Len(t)].messages = Append(@, w[n])]
           m == Len(t)
           h == heads[m]
<1>1. /\ w[n] \in Message /\ t \in Seq(TurnRecord) /\ n \in Nat \ {0} /\ m \in 1 .. Len(t)
      /\ m \in Nat /\ heads \in Seq(Nat) /\ Len(heads) = m
  BY ElementOfSeq, EmptySeq DEF Placed, Enumerates
<1>2. /\ u \in Seq(TurnRecord) /\ Len(u) = Len(t)
      /\ \A i \in 1 .. Len(t) : u[i].id = t[i].id
      /\ \A i \in 1 .. Len(t) : i # m => u[i] = t[i]
      /\ u[m].messages = Append(t[m].messages, w[n])
  BY <1>1, RestOfTurn
<1> HIDE DEF u
<1>3. Heads(w) \subseteq Nat /\ UpTo(Heads(w), n) = UpTo(Heads(w), n - 1)
  <2>1. Heads(w) \subseteq Nat
    BY PositionsAreNumbers
  <2> QED
    BY <1>1, <2>1, UpToNext
<1>4. \A i \in 1 .. m : heads[i] \in Nat /\ heads[i] \in Heads(w) /\ heads[i] <= n - 1
  BY <1>1 DEF Placed, Enumerates, UpTo
<1>5. \A g \in Heads(w) : g <= n => g <= h
  <2> SUFFICES ASSUME NEW g \in Heads(w), g <= n PROVE g <= h
    OBVIOUS
  <2>1. g \in UpTo(Heads(w), n - 1)
    BY <1>3 DEF UpTo
  <2>2. PICK i \in 1 .. m : heads[i] = g
    BY <1>1, <2>1 DEF Placed, Enumerates
  <2>3. i < m => heads[i] < heads[m]
    BY <1>1 DEF Placed, Enumerates
  <2> QED
    BY <1>1, <1>4, <2>2, <2>3
<1>6. n \in TurnAt(w, h)
  BY <1>1, <1>4, <1>5 DEF TurnAt
<1>7. TurnPlaced(u[m], w, h, n)
  <2> DEFINE S == UpTo(TurnAt(w, h), n - 1)
  <2>1. PICK e : /\ Enumerates(e, S)
                 /\ Len(e) = Len(t[m].messages)
                 /\ \A k \in 1 .. Len(e) : t[m].messages[k] = w[e[k]]
    BY <1>1 DEF Placed, TurnPlaced
  <2>2. UpTo(TurnAt(w, h), n) = S \cup {n} /\ \A y \in S : y < n
    <3>1. TurnAt(w, h) \subseteq Nat
      BY PositionsAreNumbers
    <3> QED
      BY <1>1, <1>6, <3>1, UpToNext
  <2> HIDE DEF S
  <2>3. Enumerates(Append(e, n), S \cup {n})
    BY <1>1, <2>1, <2>2, EnumeratesMore
  <2>4. /\ e \in Seq(Nat) /\ Len(e) \in Nat
        /\ Len(Append(e, n)) = Len(e) + 1 /\ Append(e, n)[Len(e) + 1] = n
        /\ \A k \in 1 .. Len(e) : Append(e, n)[k] = e[k]
    BY <1>1, <2>1, AppendProperties DEF Enumerates
  <2>5. t[m].messages \in Seq(Message)
    <3>1. t[m] \in TurnRecord
      BY <1>1, ElementOfSeq
    <3> QED
      BY <3>1 DEF TurnRecord
  <2>6. /\ Len(u[m].messages) = Len(e) + 1 /\ u[m].messages[Len(e) + 1] = w[n]
        /\ \A k \in 1 .. Len(e) : u[m].messages[k] = t[m].messages[k]
    BY <1>1, <1>2, <2>1, <2>5, AppendProperties
  <2>7. ASSUME NEW k \in 1 .. Len(e) + 1
        PROVE  u[m].messages[k] = w[Append(e, n)[k]]
    <3>1. k \in 1 .. Len(e) \/ k = Len(e) + 1
      BY <2>4
    <3> QED
      BY <2>1, <2>4, <2>6, <3>1
  <2>8. u[m].id = w[h].id
    BY <1>1, <1>2 DEF Placed, TurnPlaced
  <2> QED
    BY <2>2, <2>3, <2>4, <2>6, <2>7, <2>8 DEF TurnPlaced
<1>8. ASSUME NEW i \in 1 .. Len(t), i # m
      PROVE  TurnPlaced(u[i], w, heads[i], n)
  <2>1. heads[i] < h
    BY <1>1, <1>8 DEF Placed, Enumerates
  <2>2. h <= n /\ ~(h <= heads[i])
    BY <1>1, <1>4, <2>1
  <2>3. n \notin TurnAt(w, heads[i])
    BY <1>1, <1>4, <2>2 DEF TurnAt
  <2> QED
    BY <1>2, <1>8, <2>3, TurnUntouched DEF Placed
<1>9. u # <<>> /\ \E k \in 1 .. n : k \in Spoken(w)
  <2>1. Len(u) # 0 /\ n \in 1 .. n
    BY <1>1, <1>2
  <2> QED
    BY <2>1
<1>10. \A i \in 1 .. Len(u) : TurnPlaced(u[i], w, heads[i], n)
  BY <1>2, <1>7, <1>8
<1>11. Enumerates(heads, UpTo(Heads(w), n)) /\ Len(heads) = Len(u)
  BY <1>1, <1>2, <1>3 DEF Placed
<1> QED
  BY <1>2, <1>9, <1>10, <1>11 DEF Placed, u

\* One more message.
LEMMA MessagePlaced ==
  ASSUME NEW w \in Seq(Message), NEW n \in 1 .. Len(w), NEW t, NEW heads,
         Placed(t, w, n - 1, heads)
  PROVE  \E more : Placed(AddMessage(t, w[n]), w, n, more)
<1>1. w[n].role \in {"user", "assistant", "other"} /\ n \in DOMAIN w
  <2>1. w[n] \in Message
    BY ElementOfSeq
  <2> QED
    BY <2>1 DEF Message, Roles
<1>2. n \in Spoken(w) <=> w[n].role # "other"
  BY <1>1 DEF Spoken
<1>3. t = <<>> <=> \A j \in Spoken(w) : n <= j
  <2>1. \A j \in Spoken(w) : j \in 1 .. Len(w)
    BY DEF Spoken
  <2> QED
    BY <2>1 DEF Placed
<1>4. n \in Heads(w) <=> w[n].role = "user" \/ (w[n].role = "assistant" /\ t = <<>>)
  BY <1>1, <1>2, <1>3 DEF Heads
<1>5. CASE n \in Heads(w)
  <2>1. AddMessage(t, w[n]) = Append(t, Turn(<<w[n]>>))
    BY <1>1, <1>4, <1>5 DEF AddMessage
  <2> QED
    BY <1>5, <2>1, HeadPlaced
<1>6. CASE w[n].role = "assistant" /\ t # <<>>
  <2>1. AddMessage(t, w[n]) = [t EXCEPT ![Len(t)].messages = Append(@, w[n])]
    BY <1>6 DEF AddMessage
  <2>2. n \in Spoken(w) /\ n \notin Heads(w)
    BY <1>2, <1>4, <1>6
  <2>3. Placed([t EXCEPT ![Len(t)].messages = Append(@, w[n])], w, n, heads)
    BY <1>6, <2>2, RestPlaced
  <2> QED
    BY <2>1, <2>3, Zenon
<1>7. CASE w[n].role = "other"
  <2>1. AddMessage(t, w[n]) = t
    BY <1>7 DEF AddMessage
  <2>2. n \notin Spoken(w) /\ n \notin Heads(w)
    BY <1>2, <1>7 DEF Heads
  <2>3. UpTo(Heads(w), n) = UpTo(Heads(w), n - 1)
    <3>1. Heads(w) \subseteq Nat /\ n \in Nat \ {0}
      BY PositionsAreNumbers
    <3> QED
      BY <2>2, <3>1, UpToNext
  <2>4. ASSUME NEW i \in 1 .. Len(t)
        PROVE  TurnPlaced(t[i], w, heads[i], n)
    BY <2>2, TurnUntouched DEF Placed, TurnAt
  <2>5. (\E k \in 1 .. n : k \in Spoken(w)) <=> \E k \in 1 .. (n - 1) : k \in Spoken(w)
    <3>1. \A k \in 1 .. n : k = n \/ k \in 1 .. (n - 1)
      OBVIOUS
    <3>2. \A k \in 1 .. (n - 1) : k \in 1 .. n
      OBVIOUS
    <3> QED
      BY <2>2, <3>1, <3>2
  <2>6. Placed(t, w, n, heads)
    BY <2>3, <2>4, <2>5 DEF Placed
  <2> QED
    BY <2>1, <2>6
<1> QED
  BY <1>1, <1>4, <1>5, <1>6, <1>7

\* All of them.
LEMMA WindowPlaced ==
  ASSUME NEW w \in Seq(Message)
  PROVE  \E heads : Placed(FoldLeft(AddMessage, <<>>, w), w, Len(w), heads)
<1>1. PICK f : /\ f[0] = <<>>
               /\ \A n \in 1 .. Len(w) : f[n] = AddMessage(f[n - 1], w[n])
               /\ FoldLeft(AddMessage, <<>>, w) = f[Len(w)]
  BY FoldSteps
<1> DEFINE Q(n) == \E heads : Placed(f[n], w, n, heads)
           P == {n \in Nat : n <= Len(w) => Q(n)}
<1>2. 0 \in P
  <2>1. UpTo(Heads(w), 0) = {}
    BY PositionsAreNumbers DEF UpTo
  <2>2. Enumerates(<<>>, {})
    BY DEF Enumerates
  <2>3. <<>> \in Seq(TurnRecord) /\ Len(<<>>) = 0
    BY EmptySeq
  <2>4. Placed(<<>>, w, 0, <<>>)
    <3>1. Enumerates(<<>>, UpTo(Heads(w), 0))
      BY <2>1, <2>2, Zenon
    <3>2. (\A i \in 1 .. 0 : FALSE) /\ ~\E k \in 1 .. 0 : k \in Spoken(w)
      OBVIOUS
    <3> QED
      BY <2>3, <3>1, <3>2 DEF Placed
  <2> QED
    BY <1>1, <2>4
<1>3. ASSUME NEW n \in Nat, n \in P PROVE n + 1 \in P
  <2> HIDE DEF Q
  <2> SUFFICES ASSUME n + 1 <= Len(w) PROVE Q(n + 1)
    OBVIOUS
  <2> USE DEF Q
  <2>1. n + 1 \in 1 .. Len(w) /\ (n + 1) - 1 = n /\ n <= Len(w)
    OBVIOUS
  <2>2. Q(n)
    <3> HIDE DEF Q
    <3> QED
      BY <1>3, <2>1
  <2>3. PICK heads : Placed(f[n], w, n, heads)
    BY <2>2
  <2> QED
    BY <1>1, <2>1, <2>3, MessagePlaced
<1>4. Nat \subseteq P
  BY <1>2, <1>3, EveryNumber
<1>5. Q(Len(w))
  <2> HIDE DEF Q
  <2> QED
    BY <1>4
<1> QED
  BY <1>1, <1>5

\* t is what the first n messages of w are grouped into, said of ids.
Grouped(t, w, n) ==
  /\ t \in Seq(TurnRecord)
  /\ \A i \in 1 .. Len(t) : TurnOK(t[i])
  /\ Ascending(t)
  /\ \A i \in 1 .. Len(t) : \E k \in 1 .. n : k \in Heads(w) /\ w[k].id = t[i].id
  /\ \A k \in 1 .. n : k \in Heads(w) => \E i \in 1 .. Len(t) : t[i].id = w[k].id
  /\ t # <<>> <=> \E k \in 1 .. n : k \in Spoken(w)

\* A turn begins with its head.
LEMMA HeadIsFirst ==
  ASSUME NEW w \in Seq(Message), NEW n \in Nat, NEW h \in Heads(w), h <= n,
         NEW r \in TurnRecord, TurnPlaced(r, w, h, n)
  PROVE  TurnOK(r)
<1>1. PICK e : /\ Enumerates(e, UpTo(TurnAt(w, h), n))
               /\ Len(e) = Len(r.messages)
               /\ \A k \in 1 .. Len(e) : r.messages[k] = w[e[k]]
  BY DEF TurnPlaced
<1>2. h \in Nat /\ h \in TurnAt(w, h) /\ \A p \in TurnAt(w, h) : p \in Nat /\ h <= p
  BY PositionsAreNumbers DEF TurnAt, Heads
<1>3. PICK i \in 1 .. Len(e) : e[i] = h
  BY <1>1, <1>2 DEF Enumerates, UpTo
<1>4. e \in Seq(Nat) /\ Len(e) \in Nat /\ 1 \in 1 .. Len(e)
  BY <1>1, <1>3 DEF Enumerates
<1>5. e[1] \in Nat /\ h <= e[1]
  BY <1>1, <1>2, <1>4 DEF Enumerates, UpTo
<1>6. 1 < i => e[1] < e[i]
  BY <1>1, <1>4 DEF Enumerates
<1>7. e[1] = h
  BY <1>2, <1>3, <1>4, <1>5, <1>6
<1>8. r.messages \in Seq(Message) /\ r.messages # <<>> /\ r.messages[1] = w[h]
  <2>1. r.messages \in Seq(Message)
    BY DEF TurnRecord
  <2>2. Len(r.messages) # 0
    BY <1>1, <1>4
  <2> QED
    BY <1>1, <1>4, <1>7, <2>1, <2>2
<1> QED
  BY <1>8 DEF TurnPlaced, TurnOK

\* The two say the same of a whole window.
LEMMA WindowGroups ==
  ASSUME NEW w \in Seq(Message), Ascending(w), NEW t, NEW heads, Placed(t, w, Len(w), heads)
  PROVE  Grouped(t, w, Len(w))
<1>1. /\ t \in Seq(TurnRecord) /\ heads \in Seq(Nat) /\ Len(heads) = Len(t)
      /\ Len(t) \in Nat /\ Len(w) \in Nat
  BY DEF Placed, Enumerates
<1>2. ASSUME NEW i \in 1 .. Len(t)
      PROVE  /\ heads[i] \in Heads(w) /\ heads[i] \in 1 .. Len(w)
             /\ w[heads[i]].id = t[i].id /\ TurnOK(t[i])
  <2>1. heads[i] \in Heads(w) /\ heads[i] <= Len(w)
    BY <1>1 DEF Placed, Enumerates, UpTo
  <2>2. TurnPlaced(t[i], w, heads[i], Len(w)) /\ t[i] \in TurnRecord
    BY <1>1, ElementOfSeq DEF Placed
  <2>3. TurnOK(t[i])
    BY <1>1, <2>1, <2>2, HeadIsFirst
  <2> QED
    BY <2>1, <2>2, <2>3, PositionsAreNumbers DEF TurnPlaced
<1>3. ASSUME NEW i \in 1 .. Len(t), NEW j \in 1 .. Len(t), i < j
      PROVE  t[i].id < t[j].id
  <2>1. heads[i] < heads[j]
    BY <1>1, <1>3 DEF Placed, Enumerates
  <2>2. w[heads[i]].id < w[heads[j]].id
    BY <1>2, <2>1 DEF Ascending
  <2> QED
    BY <1>2, <2>2
<1>4. ASSUME NEW k \in 1 .. Len(w), k \in Heads(w)
      PROVE  \E i \in 1 .. Len(t) : t[i].id = w[k].id
  <2>1. k \in UpTo(Heads(w), Len(w))
    BY <1>4 DEF UpTo
  <2>2. PICK i \in 1 .. Len(t) : heads[i] = k
    BY <1>1, <2>1 DEF Placed, Enumerates
  <2> QED
    BY <1>2, <2>2
<1>5. Ascending(t)
  BY <1>3 DEF Ascending
<1>6. t # <<>> <=> \E k \in 1 .. Len(w) : k \in Spoken(w)
  BY DEF Placed
<1> QED
  BY <1>1, <1>2, <1>4, <1>5, <1>6 DEF Grouped
-----------------------------------------------------------------------------
(* The page that a load gives.                                             *)

HistoryFits ==
  /\ messages \in Seq(Message) /\ Len(messages) <= MaxMessages
  /\ edits \in 0 .. MaxEdits
  /\ \A i \in 1 .. Len(messages) : messages[i].id = i /\ messages[i].version <= edits

InWindow(id) == id \in 1 .. Len(messages) /\ id > Len(messages) - Window

IsUser(id) == messages[id].role = "user"

\* Message id starts a turn, or would if the window reached back to it.
StartsTurn(id) ==
  /\ id \in 1 .. Len(messages)
  /\ \/ IsUser(id)
     \/ /\ messages[id].role = "assistant"
        /\ \A j \in 1 .. (id - 1) : InWindow(j) => messages[j].role = "other"

\* s are user messages after id, in order, as many as a page has turns.
Buries(s, id) ==
  /\ s \in [1 .. Limit -> 1 .. Len(messages)]
  /\ \A k \in 1 .. Limit : IsUser(s[k]) /\ s[k] > id
  /\ \A j, k \in 1 .. Limit : j < k => s[j] < s[k]

\* Message id is out of the window, or its turn out of the page.
Gone(id) == ~InWindow(id) \/ \E s : Buries(s, id)

Lists(p, id) == \E i \in 1 .. Len(p) : p[i].id = id

PageFits(p) ==
  /\ p \in Seq(TurnRecord) /\ Len(p) <= Limit
  /\ \A i \in 1 .. Len(p) : TurnOK(p[i])
  /\ \A i, j \in 1 .. Len(p) : i # j => p[i].id # p[j].id

\* The latest n elements of a sequence.
LEMMA LatestElements ==
  ASSUME NEW S, NEW s \in Seq(S), NEW n \in Nat \ {0}
  PROVE  /\ Latest(s, n) \in Seq(S)
         /\ Len(Latest(s, n)) = IF Len(s) > n THEN n ELSE Len(s)
         /\ \A i \in 1 .. Len(Latest(s, n)) :
              Latest(s, n)[i] = s[Len(s) - Len(Latest(s, n)) + i]
<1>1. Len(s) \in Nat /\ \A i \in 1 .. Len(s) : s[i] \in S
  OBVIOUS
<1>2. CASE Len(s) > n
  <2> DEFINE m == Len(s) - n + 1
  <2>1. m \in 1 .. Len(s) /\ m \in Int /\ Len(s) \in Int /\ Latest(s, n) = SubSeq(s, m, Len(s))
    BY <1>1, <1>2 DEF Latest
  <2>2. SubSeq(s, m, Len(s)) \in Seq(S) /\ Len(SubSeq(s, m, Len(s))) = n
    BY <1>1, <1>2, <2>1, SubSeqProperties
  <2>3. \A i \in 1 .. n : SubSeq(s, m, Len(s))[i] = s[Len(s) - n + i]
    BY <1>1, <1>2, <2>1
  <2> QED
    BY <1>2, <2>1, <2>2, <2>3
<1>3. CASE ~(Len(s) > n)
  BY <1>1, <1>3 DEF Latest
<1> QED
  BY <1>2, <1>3

\* The page of turns t.
LEMMA TurnsToPage ==
  ASSUME NEW t, NEW w, Grouped(t, w, Len(w))
  PROVE  LET p == Reverse(Latest(t, Limit)) IN
           /\ PageFits(p)
           /\ Len(p) = IF Len(t) > Limit THEN Limit ELSE Len(t)
           /\ \A i \in 1 .. Len(p) : p[i] = t[Len(t) + 1 - i]
<1> DEFINE q == Latest(t, Limit)
           p == Reverse(q)
<1>1. t \in Seq(TurnRecord) /\ Limit \in Nat \ {0} /\ Len(t) \in Nat
  BY DEF Grouped
<1>2. /\ q \in Seq(TurnRecord)
      /\ Len(q) = IF Len(t) > Limit THEN Limit ELSE Len(t)
      /\ \A i \in 1 .. Len(q) : q[i] = t[Len(t) - Len(q) + i]
  BY <1>1, LatestElements
<1> HIDE DEF q
<1>3. Len(q) \in Nat /\ \A i \in 1 .. Len(q) : (Len(q) - i) + 1 \in 1 .. Len(q)
  BY <1>2
<1>4. p = [i \in 1 .. Len(q) |-> q[(Len(q) - i) + 1]]
  BY DEF Reverse
<1>5. p \in Seq(TurnRecord) /\ Len(p) = Len(q)
  <2>1. \A i \in 1 .. Len(q) : p[i] \in TurnRecord
    BY <1>2, <1>3, <1>4
  <2> QED
    BY <1>3, <1>4, <2>1
<1>6. \A i \in 1 .. Len(q) : p[i] = t[Len(t) + 1 - i] /\ Len(t) + 1 - i \in 1 .. Len(t)
  <2> SUFFICES ASSUME NEW i \in 1 .. Len(q)
               PROVE  p[i] = t[Len(t) + 1 - i] /\ Len(t) + 1 - i \in 1 .. Len(t)
    OBVIOUS
  <2> DEFINE k == (Len(q) - i) + 1
  <2>1. p[i] = q[k] /\ k \in 1 .. Len(q)
    BY <1>3, <1>4
  <2>2. Len(t) - Len(q) + k = Len(t) + 1 - i /\ Len(t) + 1 - i \in 1 .. Len(t)
    <3>1. Len(q) <= Len(t)
      BY <1>1, <1>2
    <3> QED
      BY <1>1, <1>3, <3>1
  <2> HIDE DEF k
  <2>3. q[k] = t[Len(t) - Len(q) + k]
    BY <1>2, <2>1
  <2> QED
    BY <2>1, <2>2, <2>3
<1> HIDE DEF p
<1>7. \A i \in 1 .. Len(p) : TurnOK(p[i])
  BY <1>5, <1>6 DEF Grouped
<1>8. ASSUME NEW i \in 1 .. Len(p), NEW j \in 1 .. Len(p), i # j
      PROVE  p[i].id # p[j].id
  <2> DEFINE a == Len(t) + 1 - i
             b == Len(t) + 1 - j
  <2>1. p[i] = t[a] /\ p[j] = t[b] /\ a \in 1 .. Len(t) /\ b \in 1 .. Len(t) /\ a # b
    BY <1>1, <1>5, <1>6, <1>8
  <2>2. \A k \in 1 .. Len(t) : t[k].id \in Int
    <3>1. \A k \in 1 .. Len(t) : t[k] \in TurnRecord
      BY <1>1, ElementOfSeq
    <3> QED
      BY <3>1 DEF TurnRecord, Ids
  <2>3. a < b \/ b < a
    BY <1>1, <2>1
  <2> HIDE DEF a, b
  <2>4. t[a].id < t[b].id \/ t[b].id < t[a].id
    BY <2>1, <2>3 DEF Grouped, Ascending
  <2> QED
    BY <2>1, <2>2, <2>4
<1>9. PageFits(p)
  BY <1>2, <1>5, <1>7, <1>8 DEF PageFits
<1> QED
  BY <1>2, <1>5, <1>6, <1>9 DEF p, q

\* The page of a window has the turns of its last heads, with all their
\* messages.
LEMMA WindowPaged ==
  ASSUME NEW w \in Seq(Message), Ascending(w)
  PROVE  Groups(gatewayHistoryTurns(w, Limit), w, Limit)
<1> DEFINE t == FoldLeft(AddMessage, <<>>, w)
           p == Reverse(Latest(t, Limit))
           recent == {h \in Heads(w) : Cardinality({g \in Heads(w) : g > h}) < Limit}
           turn(head) ==
             LET mine == TurnAt(w, head)
             IN  Turn([k \in 1 .. Cardinality(mine) |->
                         w[CHOOSE i \in mine : Cardinality({j \in mine : j < i}) = k - 1]])
           entry(n) ==
             turn(CHOOSE h \in recent : Cardinality({g \in recent : g > h}) = n - 1)
<1>1. PICK heads : Placed(t, w, Len(w), heads)
  BY WindowPlaced
<1>2. Grouped(t, w, Len(w))
  BY <1>1, WindowGroups
<1>3. gatewayHistoryTurns(w, Limit) = p
  BY DEF gatewayHistoryTurns
<1>4. Groups(p, w, Limit) <=> p = [n \in 1 .. Cardinality(recent) |-> entry(n)]
  BY Zenon DEF Groups
<1> HIDE DEF t, turn
<1>5. /\ t \in Seq(TurnRecord) /\ heads \in Seq(Nat) /\ Len(heads) = Len(t)
      /\ Len(t) \in Nat /\ Len(w) \in Nat /\ Limit \in Nat \ {0}
  BY <1>1 DEF Placed, Enumerates
<1>6. /\ p \in Seq(TurnRecord)
      /\ Len(p) = IF Len(t) > Limit THEN Limit ELSE Len(t)
      /\ \A i \in 1 .. Len(p) : p[i] = t[Len(t) + 1 - i]
  BY <1>2, TurnsToPage DEF PageFits
<1>7. Enumerates(heads, Heads(w))
  <2>1. UpTo(Heads(w), Len(w)) = Heads(w)
    BY PositionsAreNumbers DEF UpTo
  <2> QED
    BY <1>1, <2>1 DEF Placed
<1> DEFINE latest == Latest(heads, Limit)
<1>8. /\ latest \in Seq(Nat) /\ Len(latest) = Len(p)
      /\ \A i \in 1 .. Len(latest) : latest[i] = heads[Len(heads) - Len(latest) + i]
  BY <1>5, <1>6, LatestElements
<1>9. Len(p) \in Nat /\ Len(p) <= Len(t) /\ Len(p) <= Limit /\ (Len(p) < Limit => Len(p) = Len(t))
  BY <1>5, <1>6
<1> HIDE DEF p, latest
<1> DEFINE off == Len(heads) - Len(latest)
<1>10. /\ off \in Nat /\ off = Len(heads) - Len(p) /\ off + Len(latest) = Len(heads)
       /\ Len(latest) \in Nat /\ Len(heads) \in Nat
       /\ \A i \in 1 .. Len(latest) : latest[i] = heads[off + i]
  <2>1. off = Len(heads) - Len(p) /\ Len(latest) = Len(p) /\ Len(heads) = Len(t)
    BY <1>5, <1>8
  <2>2. \A i \in 1 .. Len(latest) : latest[i] = heads[off + i]
    BY <1>8
  <2> HIDE DEF off
  <2> QED
    BY <1>5, <1>9, <2>1, <2>2
<1> HIDE DEF off
<1>11. Enumerates(latest, recent)
  <2>1. ASSUME NEW i \in 1 .. Len(latest), NEW j \in 1 .. Len(latest), i < j
        PROVE  latest[i] < latest[j]
    <3>1. off + i \in 1 .. Len(heads) /\ off + j \in 1 .. Len(heads) /\ off + i < off + j
      BY <1>10, <2>1
    <3>2. heads[off + i] < heads[off + j]
      BY <1>7, <3>1 DEF Enumerates
    <3> QED
      BY <1>10, <3>2
  <2>2. ASSUME NEW x
        PROVE  x \in recent <=> \E i \in 1 .. Len(latest) : latest[i] = x
    <3>1. ASSUME NEW k \in 1 .. Len(heads)
          PROVE  heads[k] \in recent <=> k > off
      <4>1. heads[k] \in Heads(w)
        BY <1>7 DEF Enumerates
      <4>2. Cardinality({g \in Heads(w) : g > heads[k]}) = Len(heads) - k
        BY <1>7, EnumeratedPlace
      <4>3. Len(heads) - k < Limit <=> k > off
        BY <1>5, <1>9, <1>10
      <4> QED
        BY <4>1, <4>2, <4>3
    <3>2. ASSUME x \in recent
          PROVE  \E i \in 1 .. Len(latest) : latest[i] = x
      <4>1. PICK k \in 1 .. Len(heads) : heads[k] = x
        BY <1>7, <3>2 DEF Enumerates
      <4>2. k > off
        BY <3>1, <3>2, <4>1
      <4>3. k - off \in 1 .. Len(latest) /\ off + (k - off) = k
        BY <1>10, <4>2
      <4>4. latest[k - off] = heads[k]
        BY <1>10, <4>3
      <4> QED
        BY <4>1, <4>3, <4>4
    <3>3. ASSUME NEW i \in 1 .. Len(latest), latest[i] = x
          PROVE  x \in recent
      <4>1. off + i \in 1 .. Len(heads) /\ off + i > off
        BY <1>10
      <4> QED
        BY <1>10, <3>1, <3>3, <4>1
    <3> QED
      BY <3>2, <3>3
  <2> QED
    BY <1>8, <2>1, <2>2 DEF Enumerates
<1> HIDE DEF recent
<1>12. Cardinality(recent) = Len(p)
  BY <1>8, <1>11, EnumeratedPlace
<1>13. ASSUME NEW n \in 1 .. Len(p)
       PROVE  p[n] = entry(n)
  <2> DEFINE a == Len(t) + 1 - n
             head == heads[a]
             mine == TurnAt(w, head)
  <2>1. a \in 1 .. Len(t) /\ p[n] = t[a]
    BY <1>5, <1>6, <1>9
  <2>2. (CHOOSE h \in recent : Cardinality({g \in recent : g > h}) = n - 1) = head
    <3>1. /\ Len(p) + 1 - n \in 1 .. Len(latest)
          /\ Len(latest) - (Len(p) + 1 - n) = n - 1
          /\ off + (Len(p) + 1 - n) = a
      BY <1>5, <1>8, <1>9, <1>10
    <3>2. (CHOOSE h \in recent : Cardinality({g \in recent : g > h})
                                   = Len(latest) - (Len(p) + 1 - n)) = latest[Len(p) + 1 - n]
      BY <1>11, <3>1, EnumeratedChoice
    <3>3. latest[Len(p) + 1 - n] = head
      BY <1>10, <3>1
    <3> QED
      BY <3>1, <3>2, <3>3
  <2>3. t[a] \in TurnRecord /\ TurnOK(t[a]) /\ TurnPlaced(t[a], w, head, Len(w))
    BY <1>1, <1>2, <1>5, <2>1, ElementOfSeq DEF Placed, Grouped
  <2> HIDE DEF a, head
  <2>4. UpTo(mine, Len(w)) = mine
    BY PositionsAreNumbers DEF UpTo
  <2>5. PICK e : /\ Enumerates(e, mine)
                 /\ Len(e) = Len(t[a].messages)
                 /\ \A k \in 1 .. Len(e) : t[a].messages[k] = w[e[k]]
    BY <2>3, <2>4 DEF TurnPlaced
  <2> HIDE DEF mine
  <2>6. Cardinality(mine) = Len(e)
    BY <2>5, EnumeratedPlace
  <2>7. \A k \in 1 .. Len(e) :
          (CHOOSE i \in mine : Cardinality({j \in mine : j < i}) = k - 1) = e[k]
    BY <2>5, EnumeratedChoice
  <2> DEFINE said == [k \in 1 .. Cardinality(mine) |->
                        w[CHOOSE i \in mine : Cardinality({j \in mine : j < i}) = k - 1]]
  <2>8. said = t[a].messages
    <3>1. /\ t[a].messages \in Seq(Message)
          /\ t[a].messages = [k \in 1 .. Len(t[a].messages) |-> t[a].messages[k]]
      BY <2>3 DEF TurnRecord
    <3>2. \A k \in 1 .. Len(e) : said[k] = t[a].messages[k]
      BY <2>5, <2>6, <2>7
    <3>3. said = [k \in 1 .. Len(e) |-> said[k]]
      BY <2>6
    <3> HIDE DEF said
    <3> QED
      BY <2>5, <3>1, <3>2, <3>3
  <2>9. entry(n) = Turn(said)
    <3>1. turn(head) = Turn(said)
      BY DEF turn, mine
    <3> QED
      BY <2>2, <3>1
  <2>10. Turn(t[a].messages) = t[a]
    BY <2>3 DEF Turn, TurnRecord, TurnOK
  <2> QED
    BY <2>1, <2>8, <2>9, <2>10
<1>14. p = [n \in 1 .. Len(p) |-> p[n]]
  BY <1>6
<1>15. p = [n \in 1 .. Cardinality(recent) |-> entry(n)]
  BY <1>12, <1>13, <1>14
<1> QED
  BY <1>3, <1>4, <1>15

\* The window, message by message.
LEMMA WindowElements ==
  ASSUME HistoryFits
  PROVE  LET w == Latest(messages, Window)
             off == Len(messages) - Len(w)
         IN  /\ w \in Seq(Message) /\ Len(w) \in Nat /\ off \in Nat
             /\ Len(messages) \in Nat
             /\ \A k \in 1 .. Len(w) : w[k] = messages[off + k] /\ w[k].id = off + k
             /\ Ascending(w)
             /\ \A id \in Nat : InWindow(id) <=> id - off \in 1 .. Len(w)
<1> DEFINE w == Latest(messages, Window)
           off == Len(messages) - Len(w)
<1>1. messages \in Seq(Message) /\ Len(messages) \in Nat /\ Window \in Nat \ {0}
  BY DEF HistoryFits
<1>2. /\ w \in Seq(Message)
      /\ Len(w) = IF Len(messages) > Window THEN Window ELSE Len(messages)
      /\ \A i \in 1 .. Len(w) : w[i] = messages[Len(messages) - Len(w) + i]
  BY <1>1, LatestElements
<1> HIDE DEF w
<1>3. Len(w) \in Nat /\ off \in Nat
  BY <1>1, <1>2
<1>4. \A k \in 1 .. Len(w) : w[k] = messages[off + k] /\ off + k \in 1 .. Len(messages)
  <2>1. Len(w) <= Len(messages) /\ off + Len(w) = Len(messages)
    BY <1>1, <1>2
  <2>2. \A k \in 1 .. Len(w) : off + k \in 1 .. Len(messages)
    BY <1>1, <1>3, <2>1
  <2> QED
    BY <1>2, <2>2
<1>5. \A k \in 1 .. Len(w) : w[k].id = off + k
  BY <1>4 DEF HistoryFits
<1>6. ASSUME NEW id \in Nat
      PROVE  InWindow(id) <=> id - off \in 1 .. Len(w)
  BY <1>1, <1>2, <1>3 DEF InWindow
<1>7. Ascending(w)
  BY <1>3, <1>5 DEF Ascending
<1> HIDE DEF off
<1> QED
  BY <1>1, <1>2, <1>3, <1>4, <1>5, <1>6, <1>7 DEF w, off

\* Its heads are the messages in it that start turns.
LEMMA HeadsStart ==
  ASSUME HistoryFits, NEW id \in Nat, InWindow(id)
  PROVE  LET w == Latest(messages, Window)
             off == Len(messages) - Len(w)
         IN  id - off \in Heads(w) <=> StartsTurn(id)
<1> DEFINE w == Latest(messages, Window)
           off == Len(messages) - Len(w)
<1>1. /\ w \in Seq(Message) /\ Len(w) \in Nat /\ off \in Nat
      /\ Len(messages) \in Nat
      /\ \A k \in 1 .. Len(w) : w[k] = messages[off + k]
      /\ \A j \in Nat : InWindow(j) <=> j - off \in 1 .. Len(w)
  BY WindowElements
<1> HIDE DEF w, off
<1>2. /\ id - off \in 1 .. Len(w) /\ w[id - off] = messages[id]
      /\ id \in 1 .. Len(messages)
  <2>1. id - off \in 1 .. Len(w) /\ off + (id - off) = id
    BY <1>1
  <2> QED
    BY <1>1, <2>1 DEF InWindow
<1>3. \A k \in 1 .. Len(w) : w[k].role \in {"user", "assistant", "other"}
  <2>1. \A k \in 1 .. Len(w) : w[k] \in Message
    BY <1>1, ElementOfSeq
  <2> QED
    BY <2>1 DEF Message, Roles
<1>4. Spoken(w) = {k \in 1 .. Len(w) : w[k].role # "other"}
  BY <1>1 DEF Spoken
<1>5. (\A k \in Spoken(w) : id - off <= k) <=>
        (\A j \in 1 .. (id - 1) : InWindow(j) => messages[j].role = "other")
  <2>1. ASSUME \A k \in Spoken(w) : id - off <= k, NEW j \in 1 .. (id - 1), InWindow(j)
        PROVE  messages[j].role = "other"
    <3>1. j - off \in 1 .. Len(w) /\ off + (j - off) = j /\ ~(id - off <= j - off)
      BY <1>1, <2>1
    <3>2. w[j - off] = messages[j]
      BY <1>1, <3>1
    <3> QED
      BY <1>4, <2>1, <3>1, <3>2
  <2>2. ASSUME \A j \in 1 .. (id - 1) : InWindow(j) => messages[j].role = "other",
               NEW k \in Spoken(w), ~(id - off <= k)
        PROVE  FALSE
    <3>1. k \in 1 .. Len(w) /\ w[k].role # "other"
      BY <1>4
    <3>2. off + k \in 1 .. (id - 1) /\ (off + k) - off = k /\ off + k \in Nat
      BY <1>1, <1>2, <2>2, <3>1
    <3>3. InWindow(off + k) /\ messages[off + k] = w[k]
      BY <1>1, <3>1, <3>2
    <3> QED
      BY <2>2, <3>1, <3>2, <3>3
  <2> QED
    BY <2>1, <2>2
<1>6. id - off \in Heads(w) <=>
        /\ w[id - off].role # "other"
        /\ w[id - off].role = "user" \/ \A k \in Spoken(w) : id - off <= k
  BY <1>2, <1>4 DEF Heads
<1>7. id - off \in Heads(w) <=> StartsTurn(id)
  BY <1>2, <1>3, <1>5, <1>6 DEF StartsTurn, IsUser
<1> QED
  BY <1>7 DEF w, off

\* A page lists the turns that start in the window and are not buried, each
\* once, whatever the history, the window and the limit.
THEOREM PageLists ==
  ASSUME HistoryFits
  PROVE  /\ PageFits(loadGatewayHistoryTurns)
         /\ \A id \in Nat : Lists(loadGatewayHistoryTurns, id) <=> StartsTurn(id) /\ ~Gone(id)
<1> DEFINE w == Latest(messages, Window)
           off == Len(messages) - Len(w)
           t == FoldLeft(AddMessage, <<>>, w)
           p == loadGatewayHistoryTurns
<1>1. /\ w \in Seq(Message) /\ Len(w) \in Nat /\ off \in Nat
      /\ Len(messages) \in Nat
      /\ \A k \in 1 .. Len(w) : w[k].id = off + k
      /\ Ascending(w)
      /\ \A id \in Nat : InWindow(id) <=> id - off \in 1 .. Len(w)
  BY WindowElements
<1>2. \A id \in Nat : InWindow(id) => (id - off \in Heads(w) <=> StartsTurn(id))
  BY HeadsStart
<1>3. Grouped(t, w, Len(w))
  BY <1>1, WindowGroups, WindowPlaced
<1>4. p = Reverse(Latest(t, Limit))
  BY DEF gatewayHistoryTurns, loadGatewayHistoryTurns
<1> HIDE DEF w, off, t
<1>5. /\ PageFits(p)
      /\ Len(p) = IF Len(t) > Limit THEN Limit ELSE Len(t)
      /\ \A i \in 1 .. Len(p) : p[i] = t[Len(t) + 1 - i]
  BY <1>3, <1>4, TurnsToPage
<1> HIDE DEF p
<1>6. Limit \in Nat \ {0} /\ Len(t) \in Nat /\ Len(p) \in Nat
  BY <1>3, <1>5 DEF Grouped
\* The turns are those of the messages in the window that start one.
<1>7. \A i \in 1 .. Len(t) : t[i].id \in Nat /\ InWindow(t[i].id) /\ StartsTurn(t[i].id)
  <2> SUFFICES ASSUME NEW i \in 1 .. Len(t)
               PROVE  t[i].id \in Nat /\ InWindow(t[i].id) /\ StartsTurn(t[i].id)
    OBVIOUS
  <2>1. PICK k \in 1 .. Len(w) : k \in Heads(w) /\ w[k].id = t[i].id
    BY <1>3 DEF Grouped
  <2>2. t[i].id = off + k /\ off + k \in Nat /\ (off + k) - off = k
    BY <1>1, <2>1
  <2> QED
    BY <1>1, <1>2, <2>1, <2>2
<1>8. ASSUME NEW id \in Nat, InWindow(id), StartsTurn(id)
      PROVE  \E i \in 1 .. Len(t) : t[i].id = id
  <2>1. id - off \in 1 .. Len(w) /\ id - off \in Heads(w) /\ off + (id - off) = id
    BY <1>1, <1>2, <1>8
  <2>2. w[id - off].id = id
    BY <1>1, <2>1
  <2> QED
    BY <1>3, <2>1, <2>2 DEF Grouped
<1>9. \A i, j \in 1 .. Len(t) : i < j <=> t[i].id < t[j].id
  <2>1. \A i, j \in 1 .. Len(t) : i < j => t[i].id < t[j].id
    BY <1>3 DEF Grouped, Ascending
  <2> QED
    BY <1>6, <1>7, <2>1
\* A turn with Limit turns after it is buried by them.
<1>10. ASSUME NEW i \in 1 .. Len(t), i + Limit <= Len(t)
       PROVE  Gone(t[i].id)
  <2> DEFINE s == [k \in 1 .. Limit |-> t[i + k].id]
  <2>1. \A k \in 1 .. Limit : i + k \in 1 .. Len(t) /\ i < i + k
    BY <1>6, <1>10
  <2>2. \A k \in 1 .. Limit :
          s[k] \in 1 .. Len(messages) /\ s[k] > t[i].id /\ StartsTurn(s[k]) /\ s[k] \in Nat
    BY <1>7, <1>9, <2>1 DEF StartsTurn
  <2>3. \A j, k \in 1 .. Limit : j < k => s[j] < s[k]
    BY <1>6, <1>9, <2>1
  <2>4. s \in [1 .. Limit -> 1 .. Len(messages)]
    BY <2>2
  <2> HIDE DEF s
  <2>5. ASSUME NEW k \in 1 .. Limit
        PROVE  IsUser(s[k])
    <3>1. t[i].id \in 1 .. (s[k] - 1) /\ messages[t[i].id].role # "other"
      BY <1>1, <1>7, <2>2 DEF StartsTurn, IsUser
    <3> QED
      BY <1>7, <2>2, <3>1 DEF StartsTurn
  <2> QED
    BY <2>2, <2>3, <2>4, <2>5 DEF Gone, Buries
\* One with fewer is not.
<1>11. ASSUME NEW i \in 1 .. Len(t), i + Limit > Len(t), NEW s, Buries(s, t[i].id)
       PROVE  FALSE
  <2>1. \A k \in 1 .. Limit : \E j \in 1 .. Len(t) : t[j].id = s[k]
    <3> SUFFICES ASSUME NEW k \in 1 .. Limit PROVE \E j \in 1 .. Len(t) : t[j].id = s[k]
      OBVIOUS
    <3>1. s[k] \in 1 .. Len(messages) /\ IsUser(s[k]) /\ s[k] > t[i].id /\ s[k] \in Nat
      BY <1>1, <1>11 DEF Buries
    <3>2. InWindow(s[k]) /\ StartsTurn(s[k])
      BY <1>1, <1>7, <3>1 DEF InWindow, StartsTurn
    <3> QED
      BY <1>8, <3>1, <3>2
  <2> DEFINE q == [k \in 1 .. Limit |-> CHOOSE j \in 1 .. Len(t) : t[j].id = s[k]]
  <2>2. \A k \in 1 .. Limit : q[k] \in 1 .. Len(t) /\ t[q[k]].id = s[k]
    BY <2>1
  <2> HIDE DEF q
  <2>3. \A k \in 1 .. Limit : q[k] > i
    BY <1>6, <1>9, <1>11, <2>2 DEF Buries
  <2>4. \A j, k \in 1 .. Limit : j < k => q[j] < q[k]
    BY <1>6, <1>9, <1>11, <2>2 DEF Buries
  <2> DEFINE P == {n \in Nat : n \in 1 .. Limit => q[n] >= i + n}
  <2>5. 0 \in P
    OBVIOUS
  <2>6. ASSUME NEW n \in Nat, n \in P PROVE n + 1 \in P
    <3> SUFFICES ASSUME n + 1 \in 1 .. Limit PROVE q[n + 1] >= i + (n + 1)
      OBVIOUS
    <3>1. CASE n = 0
      BY <1>6, <2>2, <2>3, <3>1
    <3>2. CASE n # 0
      <4>1. n \in 1 .. Limit /\ n < n + 1 /\ q[n] >= i + n
        BY <1>6, <2>6, <3>2
      <4> QED
        BY <1>6, <2>2, <2>4, <4>1
    <3> QED
      BY <3>1, <3>2
  <2>7. Nat \subseteq P
    BY <2>5, <2>6, EveryNumber
  <2>8. q[Limit] >= i + Limit /\ q[Limit] \in 1 .. Len(t)
    BY <1>6, <2>2, <2>7
  <2> QED
    BY <1>6, <1>11, <2>8
<1>12. ASSUME NEW id \in Nat
       PROVE  Lists(p, id) <=> StartsTurn(id) /\ ~Gone(id)
  <2>1. ASSUME Lists(p, id)
        PROVE  StartsTurn(id) /\ ~Gone(id)
    <3>1. PICK j \in 1 .. Len(p) : p[j].id = id
      BY <2>1 DEF Lists
    <3> DEFINE i == Len(t) + 1 - j
    <3>2. i \in 1 .. Len(t) /\ i + Limit > Len(t) /\ p[j] = t[i]
      BY <1>5, <1>6
    <3> HIDE DEF i
    <3> QED
      BY <1>7, <1>11, <3>1, <3>2 DEF Gone
  <2>2. ASSUME StartsTurn(id), ~Gone(id)
        PROVE  Lists(p, id)
    <3>1. PICK i \in 1 .. Len(t) : t[i].id = id
      BY <1>8, <2>2 DEF Gone
    <3>2. i + Limit > Len(t)
      BY <1>6, <1>10, <2>2, <3>1
    <3> DEFINE j == Len(t) + 1 - i
    <3>3. j \in 1 .. Len(p) /\ Len(t) + 1 - j = i
      BY <1>5, <1>6, <3>2
    <3> HIDE DEF j
    <3> QED
      BY <1>5, <3>1, <3>3 DEF Lists
  <2> QED
    BY <2>1, <2>2
<1> QED
  BY <1>5, <1>12 DEF p
-----------------------------------------------------------------------------
(* The inductive invariant.                                                *)

\* Where the goroutine is, or will be once the event is sent.
Place == IF stream = "sending" THEN after ELSE stream

\* The stream remembers what it sent of turn id.
Tracked(id) == revisions[id] # 0

\* The Hub's view once it has received e.
Shown(v, e) ==
  IF e.type = "turn"
    THEN [v EXCEPT ![e.turn.id] = [revision |-> e.revision, messages |-> e.turn.messages]]
    ELSE v

\* The Hub can apply e to view v.
Fits(e, v) ==
  e.type = "turn" =>
    LET known == v[e.turn.id]
    IN  /\ e.revision = known.revision + 1
        /\ e.operation = IF known.revision = 0 THEN "append" ELSE "replace"
        /\ e.turn.messages # known.messages

\* The events of q, applied to view u one after the other, give view v.
Leads(u, q, v) ==
  \E h : /\ h[0] = u
         /\ h[Len(q)] = v
         /\ \A k \in 1 .. Len(q) : Fits(q[k], h[k - 1]) /\ h[k] = Shown(h[k - 1], q[k])

\* The events on their way to the Hub.
Coming == IF stream = "sending" THEN Append(out, event) ELSE out

ConnectionFits == ConnectionTypeOK /\ queue \in Seq(GatewayEvent)

PageKept == PageFits(page) /\ \A i \in 1 .. Len(page) : StartsTurn(page[i].id)

\* The events of the stream, and those that are sent.
StreamEvents ==
  {Marker(type) : type \in {"none", "page_end", "end", "error"}}
    \cup {TurnEvent(source, operation, turn, revision) :
            source \in {"initial", "live"}, operation \in {"append", "replace"},
            turn \in {t \in TurnRecord : TurnOK(t)}, revision \in Nat \ {0}}

Sendable == {e \in StreamEvents : e.type # "none"}

Ending(e) == e.type \in {"end", "error"}

Views == [Ids -> [revision : Nat, messages : Seq(Message)]]

SendingFits ==
  /\ stream \in {"off", "loading", "initial", "sending", "waiting", "reloading", "updating",
                 "closed"}
  /\ live \in BOOLEAN /\ cancelled \in BOOLEAN
  /\ after \in {"off", "initial", "waiting", "updating", "closed"}
  /\ event \in StreamEvents
  /\ stream = "sending" => event \in Sendable /\ after # "off"
  /\ stream = "sending" /\ after = "closed" => Ending(event)
  /\ out \in Seq(Sendable) /\ Len(out) <= OutCapacity
  /\ view \in Views
  /\ last \in {"nothing", "turn", "page_end", "end", "error"}
  /\ stream = "closed" /\ ~cancelled =>
       IF out = <<>> THEN last \in {"end", "error"} ELSE Ending(out[Len(out)])

TrackingTypes ==
  /\ position \in 0 .. Len(page)
  /\ revisions \in [Ids -> Nat]
  /\ signatures \in [Ids -> Seq(Message)]

TrackingFits ==
  /\ \A id \in Ids : revisions[id] = 0 <=> signatures[id] = <<>>
  /\ \A id \in Ids : Tracked(id) => StartsTurn(id)
  /\ Place \in {"off", "loading"} => \A id \in Ids : ~Tracked(id)
  /\ Place \in {"initial", "updating", "waiting"} =>
       \A i \in 1 .. position : signatures[page[i].id] = page[i].messages
  /\ Place = "initial" =>
       \A id \in Ids : Tracked(id) => \E i \in 1 .. position : page[i].id = id
  /\ Place = "updating" => \A id \in Ids : Tracked(id) => Lists(page, id) \/ Gone(id)
  /\ Place = "waiting" => position = Len(page) /\ \A id \in Ids : Tracked(id) => Lists(page, id)

\* v is what the Hub will show: the turns that are remembered, as they are
\* remembered, and otherwise only turns that no page will list again.
Promises(v) ==
  /\ v \in Views
  /\ \A id \in Ids :
       Tracked(id) => v[id] = [revision |-> revisions[id], messages |-> signatures[id]]
  /\ \A id \in Ids : v[id].revision = 0 => v[id].messages = <<>>
  /\ \A id \in Ids : v[id].revision # 0 => StartsTurn(id) /\ (Tracked(id) \/ Gone(id))
  /\ Place \in {"off", "loading"} => \A id \in Ids : v[id].revision = 0
  /\ Place \in {"initial", "updating"} =>
       \A i \in (position + 1) .. Len(page) :
         Tracked(page[i].id) \/ v[page[i].id].revision = 0

HubFits == \E v : Leads(view, Coming, v) /\ (Place # "closed" => Promises(v))

\* A page that is out of date has an event in the queue that will reload it.
Fresh ==
  Place \in {"initial", "updating", "waiting"} /\ connection = "up" =>
    \/ page = loadGatewayHistoryTurns
    \/ \E k \in 1 .. Len(queue) : gatewayHistoryEventMatchesSession(queue[k])

CountsFit == others \in 0 .. MaxOthers /\ baseline \in 0 .. Len(messages)

HInv ==
  /\ HistoryFits
  /\ CountsFit
  /\ ConnectionFits
  /\ PageKept
  /\ TrackingTypes
  /\ SendingFits
  /\ TrackingFits
  /\ HubFits
  /\ Fresh
-----------------------------------------------------------------------------
(* The history.                                                            *)

\* What every step does to the history: messages keep their roles.
HistoryGrows ==
  /\ Len(messages) <= Len(messages')
  /\ \A i \in 1 .. Len(messages) : messages'[i].role = messages[i].role

\* A step adds messages, or changes the version of one, and nothing else.
LEMMA HistoryHolds ==
  ASSUME HistoryFits, [Next]_vars
  PROVE  HistoryFits' /\ HistoryGrows
<1>1. messages \in Seq(Message) /\ Len(messages) \in Nat /\ edits \in Nat
  BY DEF HistoryFits
<1>2. CASE messages' = messages /\ edits' = edits
  BY <1>1, <1>2 DEF HistoryFits, HistoryGrows
<1>3. ASSUME NEW role \in Roles, AddToHistory(role)
      PROVE  HistoryFits' /\ HistoryGrows
  <2> DEFINE m == [id |-> Len(messages) + 1, role |-> role, version |-> 0]
  <2>1. messages' = Append(messages, m) /\ edits' = edits /\ Len(messages) < MaxMessages
    BY <1>3 DEF AddToHistory
  <2>2. m \in Message
    BY <1>1, <2>1 DEF Message, Ids
  <2>3. m.id = Len(messages) + 1 /\ m.version = 0
    OBVIOUS
  <2> HIDE DEF m
  <2>4. /\ messages' \in Seq(Message) /\ Len(messages') = Len(messages) + 1
        /\ messages'[Len(messages) + 1] = m
        /\ \A i \in 1 .. Len(messages) : messages'[i] = messages[i]
    BY <1>1, <2>1, <2>2, AppendProperties
  <2>5. \A i \in 1 .. Len(messages') : messages'[i].id = i /\ messages'[i].version <= edits
    <3> SUFFICES ASSUME NEW i \in 1 .. Len(messages) + 1
                 PROVE  messages'[i].id = i /\ messages'[i].version <= edits
      BY <2>4
    <3>1. i = Len(messages) + 1 \/ i \in 1 .. Len(messages)
      BY <1>1
    <3> QED
      BY <1>1, <2>3, <2>4, <3>1 DEF HistoryFits
  <2> QED
    BY <1>1, <2>1, <2>4, <2>5 DEF HistoryFits, HistoryGrows
<1>4. ASSUME NEW k \in Ids, EditMessage(k)
      PROVE  HistoryFits' /\ HistoryGrows
  <2> DEFINE m == [messages[k] EXCEPT !.version = @ + 1]
  <2>1. /\ messages' = [messages EXCEPT ![k] = m] /\ edits' = edits + 1
        /\ edits < MaxEdits /\ k \in 1 .. Len(messages)
    BY <1>1, <1>4 DEF EditMessage, Ids
  <2>2. messages[k] \in Message /\ messages[k].version <= edits
    BY <1>1, <2>1 DEF HistoryFits
  <2>3. m \in Message /\ m.id = messages[k].id /\ m.role = messages[k].role
        /\ m.version <= edits + 1
    <3>1. /\ messages[k].id \in Ids /\ messages[k].role \in Roles
          /\ messages[k].version \in 0 .. MaxEdits
          /\ messages[k] = [id |-> messages[k].id, role |-> messages[k].role,
                            version |-> messages[k].version]
      BY <2>2 DEF Message
    <3>2. m = [id |-> messages[k].id, role |-> messages[k].role,
               version |-> messages[k].version + 1]
      BY <3>1
    <3>3. messages[k].version + 1 \in 0 .. MaxEdits
      BY <1>1, <2>1, <2>2, <3>1
    <3> HIDE DEF m
    <3> QED
      BY <1>1, <2>2, <3>1, <3>2, <3>3 DEF Message
  <2> HIDE DEF m
  <2>4. /\ messages' \in Seq(Message) /\ Len(messages') = Len(messages)
        /\ \A i \in 1 .. Len(messages) : messages'[i] = IF i = k THEN m ELSE messages[i]
    BY <1>1, <2>1, <2>3, ExceptSeq
  <2>5. \A i \in 1 .. Len(messages) :
          messages'[i].id = i /\ messages'[i].version <= edits + 1
            /\ messages'[i].role = messages[i].role
    <3> SUFFICES ASSUME NEW i \in 1 .. Len(messages)
                 PROVE  messages'[i].id = i /\ messages'[i].version <= edits + 1
                          /\ messages'[i].role = messages[i].role
      OBVIOUS
    <3>1. CASE i = k
      BY <1>1, <2>3, <2>4, <3>1 DEF HistoryFits
    <3>2. CASE i # k
      <4>1. messages'[i] = messages[i] /\ messages[i] \in Message
        BY <1>1, <2>4, <3>2
      <4>2. messages[i].version \in Int /\ messages[i].version <= edits /\ messages[i].id = i
        BY <4>1 DEF HistoryFits, Message
      <4> QED
        BY <1>1, <4>1, <4>2
    <3> QED
      BY <3>1, <3>2
  <2>6. edits + 1 \in 0 .. MaxEdits
    BY <1>1, <2>1
  <2> QED
    BY <1>1, <2>1, <2>4, <2>5, <2>6 DEF HistoryFits, HistoryGrows
<1>5. CASE UNCHANGED vars
  BY <1>2, <1>5 DEF vars, historyVars
<1>6. CASE \/ ReadHistoryStream \/ Cancel \/ HubReceives \/ IdleTimeout \/ ConnectionLost
           \/ \E e \in GatewayEvent : OtherEvent(e)
  BY <1>2, <1>6
     DEF ReadHistoryStream, Cancel, HubReceives, IdleTimeout, EventsEnd, ConnectionLost,
         OtherEvent, historyVars
<1>7. CASE StreamStep
  BY <1>2, <1>7
     DEF StreamStep, sendGatewayHistoryEvent, LoadInitial, SendInitialTurn, EndPage, NextEvent,
         Reload, SkipTurn, SendLiveTurn, ForgetOldTurns, ConnectionEnds, ContextEnds, EventsEnd,
         historyVars
<1> QED
  BY <1>3, <1>4, <1>5, <1>6, <1>7 DEF Next, GatewayStep

\* A message that starts a turn always will.
LEMMA StartsTurnStays ==
  ASSUME HistoryFits, HistoryGrows, HistoryFits', NEW id \in Nat, StartsTurn(id)
  PROVE  StartsTurn(id)'
<1>1. Len(messages) \in Nat /\ Len(messages') \in Nat /\ Len(messages) <= Len(messages')
      /\ Window \in Nat
  BY DEF HistoryFits, HistoryGrows
<1>2. id \in 1 .. Len(messages) /\ id \in 1 .. Len(messages')
      /\ messages'[id].role = messages[id].role
  BY <1>1 DEF StartsTurn, HistoryGrows
<1>3. \A j \in 1 .. (id - 1) :
        (j \in 1 .. Len(messages') /\ j > Len(messages') - Window) =>
          j \in 1 .. Len(messages) /\ j > Len(messages) - Window
            /\ messages'[j].role = messages[j].role
  BY <1>1, <1>2 DEF HistoryGrows
<1> QED
  BY <1>2, <1>3 DEF StartsTurn, InWindow, IsUser

\* A message that is gone stays so.
LEMMA GoneStays ==
  ASSUME HistoryFits, HistoryGrows, HistoryFits', NEW id \in 1 .. Len(messages), Gone(id)
  PROVE  Gone(id)'
<1>1. Len(messages) \in Nat /\ Len(messages') \in Nat /\ Len(messages) <= Len(messages')
      /\ Window \in Nat /\ Limit \in Nat
  BY DEF HistoryFits, HistoryGrows
<1>2. CASE ~InWindow(id)
  BY <1>1, <1>2 DEF Gone, InWindow
<1>3. ASSUME NEW s, Buries(s, id)
      PROVE  Buries(s, id)'
  <2>1. \A k \in 1 .. Limit : s[k] \in 1 .. Len(messages) /\ s[k] \in 1 .. Len(messages')
                                /\ messages'[s[k]].role = messages[s[k]].role
    BY <1>1, <1>3 DEF Buries, HistoryGrows
  <2> QED
    BY <1>3, <2>1 DEF Buries, IsUser
<1> QED
  BY <1>2, <1>3 DEF Gone
-----------------------------------------------------------------------------
(* Types.                                                                  *)

\* An event may arrive.
LEMMA ReceiveFits ==
  ASSUME ConnectionFits, NEW e \in GatewayEvent, Receive(e)
  PROVE  ConnectionFits'
<1>1. CASE connection = "up" /\ Accept /\ queue' = Append(queue, e) /\ UNCHANGED connection
  <2>1. queue' \in Seq(GatewayEvent) /\ Len(queue') = Len(queue) + 1 /\ Len(queue) \in Nat
    BY <1>1, AppendProperties DEF ConnectionFits
  <2> QED
    BY <1>1, <2>1 DEF ConnectionFits, ConnectionTypeOK, Accept
<1>2. CASE connection' \in {connection, "overflow"} /\ UNCHANGED <<queue, streamVars>>
  BY <1>2 DEF ConnectionFits, ConnectionTypeOK, streamVars
<1> QED
  BY <1>1, <1>2 DEF Receive, connectionVars

\* The connection, under every step.
LEMMA ConnectionHolds ==
  ASSUME ConnectionFits, [Next]_vars
  PROVE  ConnectionFits'
<1>1. ASSUME connection' \in {connection, "none"}, UNCHANGED <<queue, streamVars>>
      PROVE  ConnectionFits'
  BY <1>1 DEF ConnectionFits, ConnectionTypeOK, streamVars
<1>2. ASSUME NEW why \in {"read", "overflow", "gaveUp"}, End(why),
             connection' \in {connection, "none"}, UNCHANGED queue
      PROVE  ConnectionFits'
  BY <1>2 DEF ConnectionFits, ConnectionTypeOK, End, Endings, ConnectionFailures
<1>3. ASSUME NEW why \in {"read", "overflow", "gaveUp"}, EventsEnd(why)
      PROVE  ConnectionFits'
  BY <1>2, <1>3 DEF EventsEnd, Return
<1>4. CASE MessageEvent
  <2>1. PICK s \in {"this", "unnamed"} : Receive([event |-> "session.message", session |-> s])
    BY <1>4, NamesAssumption DEF MessageEvent
  <2>2. [event |-> "session.message", session |-> s] \in GatewayEvent
    BY DEF GatewayEvent
  <2> QED
    BY <2>1, <2>2, ReceiveFits
<1>5. CASE GatewayStep
  <2>1. CASE \E e \in GatewayEvent : OtherEvent(e)
    BY <2>1, ReceiveFits DEF OtherEvent
  <2>2. CASE ConnectionLost
    BY <2>2 DEF ConnectionLost, Lose, ConnectionFits, ConnectionTypeOK, streamVars
  <2> QED
    BY <1>4, <1>5, <2>1, <2>2 DEF GatewayStep, AddToHistory, EditMessage
<1>6. CASE ReadHistoryStream
  <2>1. <<>> \in Seq(GatewayEvent) /\ Len(<<>>) = 0 /\ Capacity \in Nat
    OBVIOUS
  <2> QED
    BY <1>6, <2>1 DEF ReadHistoryStream, Dial, ConnectionFits, ConnectionTypeOK
<1>7. CASE NextEvent
  <2>1. Len(queue) \in Nat /\ Len(queue) # 0
    BY <1>7 DEF NextEvent, TakeEvent, Take, ConnectionFits, ConnectionTypeOK
  <2>2. Tail(queue) \in Seq(GatewayEvent) /\ Len(Tail(queue)) = Len(queue) - 1
    BY <2>1, HeadTailProperties DEF ConnectionFits
  <2> QED
    BY <1>7, <2>1, <2>2 DEF NextEvent, TakeEvent, Take, ConnectionFits, ConnectionTypeOK
<1>8. CASE ConnectionEnds \/ ContextEnds \/ IdleTimeout
  BY <1>3, <1>8 DEF ConnectionEnds, ContextEnds, IdleTimeout, Failed, ConnectionFailures
<1>9. CASE \/ sendGatewayHistoryEvent \/ LoadInitial \/ SendInitialTurn \/ EndPage \/ Reload
           \/ SkipTurn \/ SendLiveTurn \/ ForgetOldTurns \/ Cancel \/ HubReceives
           \/ UNCHANGED vars
  BY <1>1, <1>9
     DEF sendGatewayHistoryEvent, LoadInitial, SendInitialTurn, EndPage, Reload, SkipTurn,
         SendLiveTurn, ForgetOldTurns, Cancel, HubReceives, vars, Return, connectionVars
<1> QED
  BY <1>5, <1>6, <1>7, <1>8, <1>9 DEF Next, StreamStep

\* The next turn of a page is one of its turns.
LEMMA NextTurnFits ==
  ASSUME PageKept, TrackingTypes, position < Len(page)
  PROVE  /\ position + 1 \in 1 .. Len(page) /\ NextTurn = page[position + 1]
         /\ Len(page) \in Nat /\ page \in Seq(TurnRecord)
         /\ NextTurn \in TurnRecord /\ TurnOK(NextTurn)
         /\ NextTurn.id \in Ids /\ NextTurn.messages \in Seq(Message) /\ NextTurn.messages # <<>>
<1>1. Len(page) \in Nat /\ page \in Seq(TurnRecord) /\ position + 1 \in 1 .. Len(page)
  BY DEF PageKept, PageFits, TrackingTypes
<1>2. NextTurn \in TurnRecord /\ TurnOK(NextTurn)
  BY <1>1, ElementOfSeq DEF PageKept, PageFits, NextTurn
<1> QED
  BY <1>1, <1>2 DEF NextTurn, TurnRecord, TurnOK

\* A load gives a page of turns that started.
LEMMA LoadKept ==
  ASSUME HistoryFits
  PROVE  /\ PageFits(loadGatewayHistoryTurns)
         /\ \A i \in 1 .. Len(loadGatewayHistoryTurns) :
              /\ loadGatewayHistoryTurns[i].id \in Ids
              /\ StartsTurn(loadGatewayHistoryTurns[i].id)
              /\ ~Gone(loadGatewayHistoryTurns[i].id)
<1> DEFINE p == loadGatewayHistoryTurns
<1>1. PageFits(p) /\ \A id \in Nat : Lists(p, id) <=> StartsTurn(id) /\ ~Gone(id)
  BY PageLists
<1> HIDE DEF p
<1>2. \A i \in 1 .. Len(p) : p[i].id \in Ids
  <2>1. \A i \in 1 .. Len(p) : p[i] \in TurnRecord
    BY <1>1, ElementOfSeq DEF PageFits
  <2> QED
    BY <2>1 DEF TurnRecord
<1>3. \A i \in 1 .. Len(p) : p[i].id \in Nat /\ Lists(p, p[i].id)
  BY <1>2 DEF Lists, Ids
<1> QED
  BY <1>1, <1>2, <1>3 DEF p

\* The page and what is remembered of it, under every step.
LEMMA PageHolds ==
  ASSUME HistoryFits, PageKept, TrackingTypes, [Next]_vars
  PROVE  PageKept' /\ TrackingTypes'
<1>1. HistoryFits' /\ HistoryGrows
  BY HistoryHolds
<1>2. ASSUME page' = page
      PROVE  PageKept'
  <2>1. PageFits(page)' /\ Len(page) \in Nat
    BY <1>2 DEF PageKept, PageFits
  <2>2. \A i \in 1 .. Len(page) : page[i].id \in Nat
    <3>1. \A i \in 1 .. Len(page) : page[i] \in TurnRecord
      BY ElementOfSeq DEF PageKept, PageFits
    <3> QED
      BY <3>1 DEF TurnRecord, Ids
  <2>3. \A i \in 1 .. Len(page) : StartsTurn(page[i].id)'
    <3> SUFFICES ASSUME NEW i \in 1 .. Len(page) PROVE StartsTurn(page[i].id)'
      OBVIOUS
    <3> DEFINE id == page[i].id
    <3>1. StartsTurn(id) /\ id \in Nat
      BY <2>2 DEF PageKept
    <3> HIDE DEF id
    <3>2. \A n \in Nat : StartsTurn(n) => StartsTurn(n)'
      BY <1>1, StartsTurnStays
    <3>3. StartsTurn(id) <=> StartsTurn(page[i].id)
      BY DEF id
    <3>4. page[i]' = page[i]
      BY <1>2
    <3> QED
      BY <1>2, <2>2, <3>1, <3>2, <3>4 DEF PageKept
  <2> QED
    BY <1>2, <2>1, <2>3 DEF PageKept
<1>3. ASSUME UNCHANGED pageVars
      PROVE  PageKept' /\ TrackingTypes'
  BY <1>2, <1>3 DEF pageVars, TrackingTypes
<1>4. ASSUME NEW next, LoadPage(next), messages' = messages,
             UNCHANGED <<revisions, signatures>>
      PROVE  PageKept' /\ TrackingTypes'
  <2>1. CASE page' = loadGatewayHistoryTurns /\ position' = 0
    <3>1. PageFits(page') /\ \A i \in 1 .. Len(page') : StartsTurn(page'[i].id)
      BY <2>1, LoadKept
    <3>2. PageKept'
      BY <1>4, <3>1 DEF PageKept, PageFits, StartsTurn, InWindow, IsUser
    <3>3. Len(page') \in Nat
      BY <3>1 DEF PageFits
    <3> QED
      BY <1>4, <2>1, <3>2, <3>3 DEF TrackingTypes
  <2>2. CASE UNCHANGED <<page, position>>
    BY <1>3, <1>4, <2>2 DEF pageVars
  <2> QED
    BY <1>4, <2>1, <2>2 DEF LoadPage
<1>5. CASE LoadInitial \/ Reload
  BY <1>4, <1>5 DEF LoadInitial, Reload, historyVars
<1>6. ASSUME position < Len(page), position' = position + 1, page' = page,
             NEW revision \in Nat, Remember(NextTurn, revision)
      PROVE  PageKept' /\ TrackingTypes'
  BY <1>2, <1>6, NextTurnFits DEF Remember, TrackingTypes
<1>7. CASE SendInitialTurn
  BY <1>6, <1>7 DEF SendInitialTurn
<1>8. CASE SendLiveTurn
  <2>1. revisions[NextTurn.id] + 1 \in Nat
    BY <1>8, NextTurnFits DEF SendLiveTurn, TrackingTypes
  <2> QED
    BY <1>6, <1>8, <2>1 DEF SendLiveTurn
<1>9. CASE SkipTurn
  BY <1>2, <1>9, NextTurnFits DEF SkipTurn, TrackingTypes
<1>10. CASE ForgetOldTurns
  <2>1. page' = page /\ position' = position
    BY <1>10 DEF ForgetOldTurns
  <2>2. <<>> \in Seq(Message)
    OBVIOUS
  <2>3. revisions' \in [Ids -> Nat]
    BY <1>10 DEF ForgetOldTurns, TrackingTypes
  <2>4. signatures' \in [Ids -> Seq(Message)]
    BY <1>10, <2>2 DEF ForgetOldTurns, TrackingTypes
  <2> QED
    BY <1>2, <2>1, <2>3, <2>4 DEF TrackingTypes
<1>11. CASE GatewayStep \/ ReadHistoryStream \/ Cancel \/ HubReceives \/ UNCHANGED vars
  BY <1>3, <1>11
     DEF GatewayStep, AddToHistory, EditMessage, OtherEvent, ConnectionLost, ReadHistoryStream,
         Cancel, HubReceives, vars
<1>12. CASE \/ sendGatewayHistoryEvent \/ EndPage \/ NextEvent \/ ConnectionEnds \/ ContextEnds
            \/ IdleTimeout
  BY <1>3, <1>12
     DEF sendGatewayHistoryEvent, EndPage, NextEvent, ConnectionEnds, ContextEnds, IdleTimeout,
         EventsEnd
<1> QED
  BY <1>5, <1>7, <1>8, <1>9, <1>10, <1>11, <1>12 DEF Next, StreamStep

\* The events of the stream have their fields.
LEMMA EventParts ==
  ASSUME NEW e \in StreamEvents
  PROVE  /\ e.type \in {"none", "page_end", "end", "error", "turn"}
         /\ StreamEventOK(e)
         /\ e.type = "turn" => /\ e.turn.id \in Ids /\ e.turn.messages \in Seq(Message)
                               /\ e.turn.messages # <<>> /\ e.revision \in Nat \ {0}
                               /\ e.turn \in TurnRecord
<1>1. CASE e \in {Marker(type) : type \in {"none", "page_end", "end", "error"}}
  <2>1. PICK type \in {"none", "page_end", "end", "error"} : e = Marker(type)
    BY <1>1
  <2>2. e.type = type
    BY <2>1 DEF Marker
  <2> QED
    BY <1>1, <2>1, <2>2 DEF StreamEventOK
<1>2. ASSUME NEW source \in {"initial", "live"}, NEW operation \in {"append", "replace"},
             NEW turn \in TurnRecord, TurnOK(turn), NEW revision \in Nat \ {0},
             e = TurnEvent(source, operation, turn, revision)
      PROVE  /\ e.type = "turn" /\ StreamEventOK(e) /\ e.turn.id \in Ids
             /\ e.turn.messages \in Seq(Message) /\ e.turn.messages # <<>>
             /\ e.revision \in Nat \ {0} /\ e.turn \in TurnRecord
  <2>1. /\ e.type = "turn" /\ e.source = source /\ e.operation = operation /\ e.turn = turn
        /\ e.revision = revision
    BY <1>2 DEF TurnEvent
  <2> QED
    BY <1>2, <2>1 DEF StreamEventOK, TurnRecord, TurnOK
<1> QED
  BY <1>1, <1>2 DEF StreamEvents

\* The markers can be sent.
LEMMA MarkersAreEvents ==
  /\ \A type \in {"page_end", "end", "error"} :
       Marker(type) \in Sendable /\ Marker(type).type = type
  /\ Marker("none") \in StreamEvents
<1>1. \A type \in {"none", "page_end", "end", "error"} :
        Marker(type) \in StreamEvents /\ Marker(type).type = type
  BY DEF Marker, StreamEvents
<1> QED
  BY <1>1 DEF Sendable

\* The event of a turn can be sent, and says what it was made of.
LEMMA TurnsAreEvents ==
  ASSUME NEW source \in {"initial", "live"}, NEW operation \in {"append", "replace"},
         NEW turn \in TurnRecord, TurnOK(turn), NEW revision \in Nat \ {0}
  PROVE  /\ TurnEvent(source, operation, turn, revision) \in Sendable
         /\ TurnEvent(source, operation, turn, revision).type = "turn"
         /\ TurnEvent(source, operation, turn, revision).operation = operation
         /\ TurnEvent(source, operation, turn, revision).turn = turn
         /\ TurnEvent(source, operation, turn, revision).revision = revision
<1> DEFINE e == TurnEvent(source, operation, turn, revision)
<1>1. /\ e.type = "turn" /\ e.operation = operation /\ e.turn = turn
      /\ e.revision = revision
  BY DEF TurnEvent
<1>2. e \in StreamEvents
  BY DEF StreamEvents
<1> QED
  BY <1>1, <1>2 DEF Sendable

\* The Hub's view stays one.
LEMMA ShownIsView ==
  ASSUME NEW v \in Views, NEW e \in StreamEvents
  PROVE  Shown(v, e) \in Views
<1>1. CASE e.type = "turn"
  <2>1. [revision |-> e.revision, messages |-> e.turn.messages]
          \in [revision : Nat, messages : Seq(Message)]
    BY <1>1, EventParts
  <2> QED
    BY <1>1, <2>1 DEF Shown, Views
<1> QED
  BY <1>1 DEF Shown

\* The head of the channel and what is behind it.
LEMMA HeadOfOut ==
  ASSUME SendingFits, out # <<>>
  PROVE  /\ Head(out) \in Sendable /\ Head(out) = out[1]
         /\ Tail(out) \in Seq(Sendable) /\ Len(Tail(out)) = Len(out) - 1
         /\ Len(out) \in Nat \ {0}
         /\ \A k \in 1 .. Len(out) - 1 : Tail(out)[k] = out[k + 1]
         /\ Tail(out) = <<>> <=> Len(out) = 1
<1>1. out \in Seq(Sendable) /\ Len(out) \in Nat \ {0}
  BY EmptySeq DEF SendingFits
<1>2. /\ Head(out) \in Sendable /\ Head(out) = out[1]
      /\ Tail(out) \in Seq(Sendable) /\ Len(Tail(out)) = Len(out) - 1
      /\ \A k \in 1 .. Len(out) - 1 : Tail(out)[k] = out[k + 1]
  BY <1>1, HeadTailProperties
<1>3. Tail(out) = <<>> <=> Len(out) = 1
  <2>1. Tail(out) = <<>> <=> Len(Tail(out)) = 0
    BY <1>2, EmptySeq
  <2> QED
    BY <1>1, <1>2, <2>1
<1> QED
  BY <1>1, <1>2, <1>3

\* What is sent and shown, under every step.
LEMMA SendingHolds ==
  ASSUME SendingFits, PageKept, TrackingTypes, [Next]_vars
  PROVE  SendingFits'
<1>1. ASSUME UNCHANGED <<out, hubVars, cancelled, live, sendVars>>, stream' # "sending",
             stream' # "closed",
             stream' \in {"loading", "initial", "waiting", "reloading", "updating"}
      PROVE  SendingFits'
  BY <1>1 DEF SendingFits, hubVars, sendVars
<1>2. ASSUME NEW e \in Sendable, NEW next \in {"initial", "waiting", "updating", "closed"},
             Send(e, next), next = "closed" => Ending(e),
             UNCHANGED <<out, hubVars, cancelled, live>>
      PROVE  SendingFits'
  BY <1>2 DEF SendingFits, Send, hubVars, Sendable
<1>3. CASE sendGatewayHistoryEvent
  <2>1. /\ event' \in StreamEvents /\ UNCHANGED <<live, after, cancelled, hubVars>>
        /\ event \in Sendable /\ after \in {"initial", "waiting", "updating", "closed"}
        /\ after = "closed" => Ending(event)
    BY <1>3, MarkersAreEvents DEF sendGatewayHistoryEvent, SendingFits
  <2>2. CASE cancelled /\ Return /\ UNCHANGED out
    <3>1. /\ stream' = "closed" /\ cancelled /\ cancelled' = cancelled /\ live' = live
          /\ after' = after /\ out' = out /\ view' = view /\ last' = last
      BY <2>1, <2>2 DEF Return, hubVars
    <3>2. ~(stream' = "closed" /\ ~cancelled') /\ stream' # "sending"
      BY <3>1, Zenon
    <3> QED
      BY <2>1, <3>1, <3>2 DEF SendingFits
  <2>3. CASE /\ Len(out) < OutCapacity
             /\ out' = Append(out, event)
             /\ stream' = after
    <3>1. out \in Seq(Sendable) /\ Len(out) \in Nat
      BY DEF SendingFits
    <3>2. /\ Append(out, event) \in Seq(Sendable) /\ Append(out, event) # <<>>
          /\ Len(Append(out, event)) = Len(out) + 1
          /\ Append(out, event)[Len(out) + 1] = event
      BY <2>1, <3>1, AppendProperties
    <3>3. /\ out' \in Seq(Sendable) /\ out' # <<>> /\ out'[Len(out')] = event
          /\ Len(out') <= OutCapacity
      BY <2>3, <3>1, <3>2
    <3>4. /\ stream' = after /\ live' = live /\ after' = after /\ view' = view
          /\ last' = last /\ cancelled' = cancelled
      BY <2>1, <2>3 DEF hubVars
    <3>5. stream' = "closed" => Ending(out'[Len(out')])
      BY <2>1, <3>3, <3>4
    <3> QED
      BY <2>1, <3>3, <3>4, <3>5 DEF SendingFits
  <2> QED
    BY <1>3, <2>2, <2>3 DEF sendGatewayHistoryEvent, Return
<1>4. ASSUME NEW next \in {"initial", "updating"}, LoadPage(next),
             UNCHANGED <<out, hubVars, cancelled, live>>
      PROVE  SendingFits'
  <2>1. CASE Send(Marker("error"), "closed")
    BY <1>2, <1>4, <2>1, MarkersAreEvents DEF Ending
  <2>2. CASE stream' = next /\ UNCHANGED sendVars
    BY <1>1, <1>4, <2>2
  <2> QED
    BY <1>4, <2>1, <2>2 DEF LoadPage
<1>5. CASE LoadInitial \/ Reload
  BY <1>4, <1>5 DEF LoadInitial, Reload
<1>6. CASE SendInitialTurn
  <2>1. TurnEvent("initial", "append", NextTurn, 1) \in Sendable
    BY <1>6, NextTurnFits, TurnsAreEvents DEF SendInitialTurn
  <2> QED
    BY <1>2, <1>6, <2>1 DEF SendInitialTurn
<1>7. CASE SendLiveTurn
  <2> DEFINE operation == IF signatures[NextTurn.id] = <<>> THEN "append" ELSE "replace"
             revision == revisions[NextTurn.id] + 1
  <2>1. revision \in Nat \ {0} /\ operation \in {"append", "replace"}
    BY <1>7, NextTurnFits DEF SendLiveTurn, TrackingTypes
  <2>2. Send(TurnEvent("live", operation, NextTurn, revision), "updating")
        /\ UNCHANGED <<out, hubVars, cancelled, live>>
    BY <1>7 DEF SendLiveTurn
  <2> HIDE DEF operation, revision
  <2>3. TurnEvent("live", operation, NextTurn, revision) \in Sendable
    BY <1>7, <2>1, NextTurnFits, TurnsAreEvents DEF SendLiveTurn
  <2> QED
    BY <1>2, <2>2, <2>3
<1>8. CASE EndPage
  BY <1>2, <1>8, MarkersAreEvents DEF EndPage, Ending
<1>9. CASE SkipTurn \/ ForgetOldTurns \/ NextEvent
  BY <1>1, <1>9 DEF SkipTurn, ForgetOldTurns, NextEvent
<1>10. ASSUME NEW why, EventsEnd(why)
       PROVE  SendingFits'
  <2>1. CASE cancelled /\ Return /\ UNCHANGED sendVars
    BY <1>10, <2>1 DEF EventsEnd, SendingFits, Return, hubVars, sendVars
  <2>2. CASE Send(Marker("error"), "closed")
    BY <1>2, <1>10, <2>2, MarkersAreEvents DEF EventsEnd, Ending
  <2> QED
    BY <1>10, <2>1, <2>2 DEF EventsEnd
<1>11. CASE ConnectionEnds \/ ContextEnds \/ IdleTimeout
  BY <1>10, <1>11 DEF ConnectionEnds, ContextEnds, IdleTimeout
<1>12. CASE HubReceives
  <2> DEFINE e == Head(out)
  <2>1. /\ out # <<>> /\ out' = Tail(out) /\ last' = e.type /\ view' = Shown(view, e)
        /\ UNCHANGED <<stream, live, sendVars, cancelled>>
    BY <1>12 DEF HubReceives, Shown
  <2>2. e \in Sendable /\ e \in StreamEvents /\ view' \in Views
    BY <2>1, HeadOfOut, ShownIsView DEF SendingFits, Sendable
  <2>3. last' \in {"nothing", "turn", "page_end", "end", "error"}
    BY <2>1, <2>2, EventParts DEF Sendable
  <2>4. /\ out' \in Seq(Sendable) /\ Len(out') = Len(out) - 1 /\ Len(out) \in Nat \ {0}
        /\ e = out[1]
        /\ \A k \in 1 .. Len(out) - 1 : out'[k] = out[k + 1]
        /\ out' = <<>> <=> Len(out) = 1
    BY <2>1, HeadOfOut
  <2> HIDE DEF e
  <2>5. ASSUME stream' = "closed" /\ ~cancelled'
        PROVE  IF out' = <<>> THEN last' \in {"end", "error"} ELSE Ending(out'[Len(out')])
    <3>1. Ending(out[Len(out)])
      BY <2>1, <2>5 DEF SendingFits
    <3>2. CASE out' = <<>>
      BY <2>1, <2>4, <3>1, <3>2 DEF Ending
    <3>3. CASE out' # <<>>
      <4>1. Len(out) - 1 \in 1 .. Len(out) - 1
        BY <2>4, <3>3
      <4>2. out'[Len(out')] = out[Len(out)]
        BY <2>4, <4>1
      <4> QED
        BY <3>1, <3>3, <4>2
    <3> QED
      BY <3>2, <3>3
  <2>6. Len(out') <= OutCapacity
    BY <2>4 DEF SendingFits
  <2> QED
    BY <2>1, <2>2, <2>3, <2>4, <2>5, <2>6 DEF SendingFits, sendVars
<1>13. CASE Cancel
  BY <1>13 DEF Cancel, SendingFits, hubVars, sendVars
<1>14. CASE GatewayStep \/ UNCHANGED vars
  <2>1. /\ stream' = stream /\ live' = live /\ cancelled' = cancelled /\ after' = after
        /\ event' = event /\ out' = out /\ view' = view /\ last' = last
    BY <1>14
       DEF GatewayStep, AddToHistory, EditMessage, OtherEvent, ConnectionLost, vars, hubVars,
           sendVars
  <2> QED
    BY <2>1 DEF SendingFits
<1>15. CASE ReadHistoryStream
  BY <1>1, <1>15 DEF ReadHistoryStream
<1> QED
  BY <1>3, <1>5, <1>6, <1>7, <1>8, <1>9, <1>11, <1>12, <1>13, <1>14, <1>15
     DEF Next, StreamStep
-----------------------------------------------------------------------------
(* What is remembered.                                                     *)

\* What started a turn, and what is gone, under every step.
LEMMA HistoryStays ==
  ASSUME HistoryFits, [Next]_vars, NEW id \in Ids, StartsTurn(id)
  PROVE  StartsTurn(id)' /\ (Gone(id) => Gone(id)')
<1>1. HistoryFits' /\ HistoryGrows /\ id \in Nat /\ id \in 1 .. Len(messages)
  BY HistoryHolds DEF Ids, StartsTurn
<1> QED
  BY <1>1, StartsTurnStays, GoneStays

\* Place when something is sent, and when the sending ends.
LEMMA PlaceOfSending ==
  ASSUME SendingFits, sendGatewayHistoryEvent
  PROVE  /\ stream = "sending" /\ Place = after
         /\ after \in {"initial", "waiting", "updating", "closed"}
         /\ stream' # "sending" /\ Place' = stream'
         /\ \/ stream' = after /\ out' = Append(out, event)
            \/ stream' = "closed" /\ out' = out
<1>1. stream = "sending" /\ after \in {"initial", "waiting", "updating", "closed"}
  BY DEF sendGatewayHistoryEvent, SendingFits
<1>2. \/ stream' = after /\ out' = Append(out, event)
      \/ stream' = "closed" /\ out' = out
  BY DEF sendGatewayHistoryEvent, Return
<1> QED
  BY <1>1, <1>2 DEF Place

\* What is remembered, under every step.
LEMMA TrackingHolds ==
  ASSUME HistoryFits, PageKept, TrackingTypes, SendingFits, TrackingFits, [Next]_vars
  PROVE  TrackingFits'
<1>1. \A id \in Ids : StartsTurn(id) => StartsTurn(id)' /\ (Gone(id) => Gone(id)')
  BY HistoryStays
<1>2. /\ PageKept' /\ TrackingTypes' /\ Len(page) \in Nat /\ Len(page') \in Nat
      /\ \A i \in 1 .. Len(page) : page[i].id \in Ids
      /\ \A i \in 1 .. Len(page) : page[i].messages # <<>>
      /\ \A i, j \in 1 .. Len(page) : i # j => page[i].id # page[j].id
  <2>1. PageKept' /\ TrackingTypes'
    BY PageHolds
  <2>2. \A i \in 1 .. Len(page) : page[i] \in TurnRecord /\ TurnOK(page[i])
    BY ElementOfSeq DEF PageKept, PageFits
  <2> QED
    BY <2>1, <2>2 DEF PageKept, PageFits, TurnRecord, TurnOK
\* Steps that remember nothing.
<1>3. ASSUME UNCHANGED pageVars,
             \/ Place' \in {Place, "closed", "reloading"}
             \/ Place = "off" /\ Place' = "loading"
             \/ Place = "initial" /\ Place' = "waiting" /\ position = Len(page)
      PROVE  TrackingFits'
  <2>1. /\ page' = page /\ position' = position /\ revisions' = revisions
        /\ signatures' = signatures
    BY <1>3 DEF pageVars
  <2>2. \A id \in Ids : Tracked(id)' <=> Tracked(id)
    BY <2>1 DEF Tracked
  <2>3. \A id : Lists(page, id)' <=> Lists(page, id)
    BY <2>1 DEF Lists
  <2>4. \A id \in Ids : Tracked(id)' => StartsTurn(id) /\ StartsTurn(id)'
    BY <1>1, <2>2 DEF TrackingFits
  <2>5. CASE Place' = Place
    <3>1. Place = "updating" => \A id \in Ids : Tracked(id)' => Lists(page, id)' \/ Gone(id)'
      BY <1>1, <2>2, <2>3, <2>4 DEF TrackingFits
    <3> QED
      BY <2>1, <2>2, <2>3, <2>4, <2>5, <3>1 DEF TrackingFits
  <2>6. CASE Place' \in {"closed", "reloading"}
    BY <2>1, <2>2, <2>4, <2>6 DEF TrackingFits
  <2>7. CASE Place = "off" /\ Place' = "loading"
    BY <2>1, <2>2, <2>4, <2>7 DEF TrackingFits
  <2>8. CASE Place = "initial" /\ Place' = "waiting" /\ position = Len(page)
    <3>1. \A id \in Ids : Tracked(id)' => Lists(page, id)'
      BY <2>2, <2>3, <2>8 DEF TrackingFits, Lists
    <3> QED
      BY <2>1, <2>2, <2>4, <2>8, <3>1 DEF TrackingFits
  <2> QED
    BY <1>3, <2>5, <2>6, <2>7, <2>8
<1>4. CASE GatewayStep \/ Cancel \/ HubReceives \/ UNCHANGED vars
  <2>1. UNCHANGED <<pageVars, stream, after>>
    BY <1>4
       DEF GatewayStep, AddToHistory, EditMessage, OtherEvent, ConnectionLost, Cancel,
           HubReceives, vars, sendVars
  <2> QED
    BY <1>3, <2>1 DEF Place
<1>5. CASE ReadHistoryStream
  BY <1>3, <1>5 DEF ReadHistoryStream, Place
<1>6. CASE sendGatewayHistoryEvent
  BY <1>3, <1>6, PlaceOfSending DEF sendGatewayHistoryEvent
<1>7. ASSUME Send(Marker("error"), "closed"), UNCHANGED pageVars
      PROVE  TrackingFits'
  BY <1>3, <1>7 DEF Send, Place
<1>8. CASE LoadInitial
  <2>1. CASE Send(Marker("error"), "closed") /\ UNCHANGED <<page, position>>
    BY <1>7, <1>8, <2>1 DEF LoadInitial, pageVars
  <2>2. CASE page' = loadGatewayHistoryTurns /\ position' = 0 /\ stream' = "initial"
    <3>1. revisions' = revisions /\ signatures' = signatures /\ Place = "loading"
          /\ Place' = "initial"
      BY <1>8, <2>2 DEF LoadInitial, Place
    <3>2. \A id \in Ids : ~Tracked(id)'
      BY <3>1 DEF TrackingFits, Tracked
    <3> QED
      BY <2>2, <3>1, <3>2 DEF TrackingFits
  <2> QED
    BY <1>8, <2>1, <2>2 DEF LoadInitial, LoadPage
<1>9. CASE Reload
  <2>1. CASE Send(Marker("error"), "closed") /\ UNCHANGED <<page, position>>
    BY <1>7, <1>9, <2>1 DEF Reload, pageVars
  <2>2. CASE page' = loadGatewayHistoryTurns /\ position' = 0 /\ stream' = "updating"
    <3>1. revisions' = revisions /\ signatures' = signatures /\ Place' = "updating"
      BY <1>9, <2>2 DEF Reload, Place
    <3>2. \A id \in Ids : Tracked(id)' <=> Tracked(id)
      BY <3>1 DEF Tracked
    <3>3. \A id \in Ids : Tracked(id)' => StartsTurn(id) /\ StartsTurn(id)'
      BY <1>1, <3>2 DEF TrackingFits
    <3>4. \A id \in Ids : Tracked(id)' => Lists(page, id)' \/ Gone(id)'
      <4> SUFFICES ASSUME NEW id \in Ids, Tracked(id)', ~Gone(id)'
                   PROVE  Lists(page, id)'
        OBVIOUS
      <4>1. StartsTurn(id) /\ ~Gone(id) /\ id \in Nat
        BY <1>1, <3>3 DEF Ids
      <4>2. Lists(loadGatewayHistoryTurns, id)
        BY <4>1, PageLists
      <4> QED
        BY <2>2, <4>2 DEF Lists
    <3> QED
      BY <2>2, <3>1, <3>2, <3>3, <3>4 DEF TrackingFits
  <2> QED
    BY <1>9, <2>1, <2>2 DEF Reload, LoadPage
\* Steps that go through a turn of the page.
<1>10. ASSUME position < Len(page), position' = position + 1, page' = page,
              NEW revision \in Nat \ {0},
              \/ Remember(NextTurn, revision)
              \/ /\ UNCHANGED <<revisions, signatures>>
                 /\ signatures[NextTurn.id] = NextTurn.messages,
              Place \in {"initial", "updating"}, Place' = Place
       PROVE  TrackingFits'
  <2> DEFINE turn == NextTurn
  <2>1. /\ position + 1 \in 1 .. Len(page) /\ turn = page[position + 1]
        /\ turn.id \in Ids /\ turn.messages # <<>> /\ turn.messages \in Seq(Message)
    BY <1>10, NextTurnFits
  <2> HIDE DEF turn
  <2>2. /\ revisions' \in [Ids -> Nat] /\ revisions'[turn.id] # 0
        /\ signatures'[turn.id] = turn.messages
        /\ \A id \in Ids \ {turn.id} : /\ revisions'[id] = revisions[id]
                                       /\ signatures'[id] = signatures[id]
    <3>1. CASE Remember(NextTurn, revision)
      BY <1>10, <2>1, <3>1 DEF Remember, TrackingTypes, turn
    <3>2. CASE UNCHANGED <<revisions, signatures>> /\ signatures[NextTurn.id] = NextTurn.messages
      <4>1. signatures[turn.id] = turn.messages
        BY <3>2 DEF turn
      <4> QED
        BY <2>1, <3>2, <4>1 DEF TrackingFits, TrackingTypes
    <3> QED
      BY <1>10, <3>1, <3>2
  <2>3. \A id \in Ids : revisions'[id] = 0 <=> signatures'[id] = <<>>
    BY <2>1, <2>2 DEF TrackingFits
  <2>4. \A id \in Ids : Tracked(id)' => id = turn.id \/ Tracked(id)
    BY <2>2 DEF Tracked
  <2>5. StartsTurn(turn.id) /\ Lists(page, turn.id)
    BY <2>1 DEF PageKept, Lists
  <2>6. \A id \in Ids : Tracked(id)' => StartsTurn(id) /\ StartsTurn(id)'
    BY <1>1, <2>1, <2>4, <2>5 DEF TrackingFits
  <2>7. \A i \in 1 .. position + 1 : signatures'[page[i].id] = page[i].messages
    <3> SUFFICES ASSUME NEW i \in 1 .. position + 1
                 PROVE  signatures'[page[i].id] = page[i].messages
      OBVIOUS
    <3>1. CASE i = position + 1
      BY <2>1, <2>2, <3>1
    <3>2. CASE i # position + 1
      <4>1. position \in Nat /\ position <= Len(page)
        BY <1>2 DEF TrackingTypes
      <4>2. i \in 1 .. position /\ i \in 1 .. Len(page) /\ i # position + 1
        BY <3>2, <4>1
      <4>3. page[i].id \in Ids \ {turn.id}
        BY <1>2, <2>1, <4>2
      <4> QED
        BY <1>10, <2>2, <4>2, <4>3 DEF TrackingFits
    <3> QED
      BY <3>1, <3>2
  <2>8. Place = "initial" =>
          \A id \in Ids : Tracked(id)' => \E i \in 1 .. position + 1 : page[i].id = id
    <3> SUFFICES ASSUME Place = "initial", NEW id \in Ids, Tracked(id)'
                 PROVE  \E i \in 1 .. position + 1 : page[i].id = id
      OBVIOUS
    <3>1. CASE id = turn.id
      BY <1>2, <2>1, <3>1 DEF TrackingTypes
    <3>2. CASE id # turn.id
      <4>1. PICK i \in 1 .. position : page[i].id = id
        BY <2>4, <3>2 DEF TrackingFits
      <4> QED
        BY <1>2, <4>1 DEF TrackingTypes
    <3> QED
      BY <3>1, <3>2
  <2>9. Place = "updating" => \A id \in Ids : Tracked(id)' => Lists(page, id)' \/ Gone(id)'
    <3> SUFFICES ASSUME Place = "updating", NEW id \in Ids, Tracked(id)'
                 PROVE  Lists(page, id)' \/ Gone(id)'
      OBVIOUS
    <3>1. Lists(page, id) \/ Gone(id)
      BY <2>4, <2>5 DEF TrackingFits
    <3>2. Lists(page, id) => Lists(page, id)'
      BY <1>10 DEF Lists
    <3> QED
      BY <1>1, <2>6, <3>1, <3>2
  <2> QED
    BY <1>10, <2>3, <2>6, <2>7, <2>8, <2>9 DEF TrackingFits
<1>11. CASE SendInitialTurn
  <2>1. Place = "initial" /\ Place' = "initial"
    BY <1>11 DEF SendInitialTurn, Send, Place
  <2> QED
    BY <1>10, <1>11, <2>1 DEF SendInitialTurn
<1>12. CASE SkipTurn
  <2>1. Place = "updating" /\ Place' = "updating"
    BY <1>12 DEF SkipTurn, Place
  <2> QED
    BY <1>10, <1>12, <2>1 DEF SkipTurn
<1>13. CASE SendLiveTurn
  <2>1. Place = "updating" /\ Place' = "updating"
    BY <1>13 DEF SendLiveTurn, Send, Place
  <2>2. revisions[NextTurn.id] + 1 \in Nat \ {0}
    BY <1>13, NextTurnFits DEF SendLiveTurn, TrackingTypes
  <2> QED
    BY <1>10, <1>13, <2>1, <2>2 DEF SendLiveTurn
<1>14. CASE ForgetOldTurns
  <2>1. /\ page' = page /\ position' = position /\ position = Len(page)
        /\ Place = "updating" /\ Place' = "waiting"
    BY <1>14 DEF ForgetOldTurns, Place
  <2>2. \A id : Listed(id) <=> Lists(page, id)
    <3>1. DOMAIN page = 1 .. Len(page)
      BY DEF PageKept, PageFits
    <3> QED
      BY <3>1 DEF Listed, Lists
  <2>3. \A id \in Ids : /\ revisions'[id] = IF Lists(page, id) THEN revisions[id] ELSE 0
                        /\ signatures'[id] = IF Lists(page, id) THEN signatures[id] ELSE <<>>
    BY <1>14, <2>2 DEF ForgetOldTurns
  <2>4. \A id \in Ids : revisions'[id] = 0 <=> signatures'[id] = <<>>
    BY <2>3 DEF TrackingFits
  <2>5. \A id \in Ids : Tracked(id)' => Tracked(id) /\ Lists(page, id)
    BY <2>3 DEF Tracked
  <2>6. \A id \in Ids : Tracked(id)' => StartsTurn(id)'
    BY <1>1, <2>5 DEF TrackingFits
  <2>7. \A i \in 1 .. Len(page) : signatures'[page[i].id] = page[i].messages
    <3>1. \A i \in 1 .. Len(page) : Lists(page, page[i].id)
      BY DEF Lists
    <3> QED
      BY <1>2, <2>1, <2>3, <3>1 DEF TrackingFits
  <2>8. \A id \in Ids : Tracked(id)' => Lists(page, id)'
    BY <2>1, <2>5 DEF Lists
  <2> QED
    BY <2>1, <2>4, <2>6, <2>7, <2>8 DEF TrackingFits
<1>15. CASE EndPage
  BY <1>3, <1>7, <1>15 DEF EndPage, Send, Place
<1>16. CASE NextEvent
  BY <1>3, <1>16 DEF NextEvent, Place
<1>17. ASSUME NEW why, EventsEnd(why)
       PROVE  TrackingFits'
  BY <1>3, <1>7, <1>17 DEF EventsEnd, Return, Place
<1>18. CASE ConnectionEnds \/ ContextEnds \/ IdleTimeout
  BY <1>17, <1>18 DEF ConnectionEnds, ContextEnds, IdleTimeout
<1> QED
  BY <1>4, <1>5, <1>6, <1>8, <1>9, <1>11, <1>12, <1>13, <1>14, <1>15, <1>16, <1>18
     DEF Next, StreamStep
-----------------------------------------------------------------------------
(* A page that is out of date is reloaded.                                 *)

\* What is in the queue stays there when an event arrives, which is then in
\* the queue itself.
LEMMA ReceiveKeeps ==
  ASSUME ConnectionFits, NEW e \in GatewayEvent, Receive(e), connection' = "up"
  PROVE  /\ connection = "up"
         /\ \A k \in 1 .. Len(queue) : k \in 1 .. Len(queue') /\ queue'[k] = queue[k]
         /\ \E k \in 1 .. Len(queue') : queue'[k] = e
<1>1. queue \in Seq(GatewayEvent) /\ connection = "up" /\ queue' = Append(queue, e)
  BY DEF Receive, ConnectionFits, connectionVars
<1>2. /\ Len(queue') = Len(queue) + 1 /\ Len(queue) \in Nat /\ queue'[Len(queue) + 1] = e
      /\ \A k \in 1 .. Len(queue) : queue'[k] = queue[k]
  BY <1>1, AppendProperties
<1>3. Len(queue) + 1 \in 1 .. Len(queue') /\ \A k \in 1 .. Len(queue) : k \in 1 .. Len(queue')
  BY <1>2
<1> QED
  BY <1>1, <1>2, <1>3

\* Every step leaves the page up to date or an event in the queue.
LEMMA FreshHolds ==
  ASSUME ConnectionFits, SendingFits, Fresh, [Next]_vars
  PROVE  Fresh'
<1> DEFINE Notes(q) == \E k \in 1 .. Len(q) : gatewayHistoryEventMatchesSession(q[k])
<1>1. ASSUME messages' = messages
      PROVE  loadGatewayHistoryTurns' = loadGatewayHistoryTurns
  BY <1>1 DEF loadGatewayHistoryTurns
<1>2. ASSUME Place' \in {Place, "waiting", "closed", "reloading", "loading"},
             Place' = "waiting" => Place \in {"initial", "updating", "waiting"},
             connection' = "up" => connection = "up" \/ Place' = "loading",
             messages' = messages, page' = page,
             Notes(queue) => Notes(queue') \/ Place' = "reloading"
      PROVE  Fresh'
  BY <1>1, <1>2 DEF Fresh
<1>3. ASSUME NEW next, LoadPage(next), messages' = messages
      PROVE  Fresh'
  <2>1. CASE page' = loadGatewayHistoryTurns
    BY <1>1, <1>3, <2>1 DEF Fresh
  <2>2. CASE Send(Marker("error"), "closed")
    BY <2>2 DEF Send, Place, Fresh
  <2> QED
    BY <1>3, <2>1, <2>2 DEF LoadPage
<1>4. CASE LoadInitial \/ Reload
  BY <1>3, <1>4 DEF LoadInitial, Reload, historyVars
<1>5. CASE \/ SendInitialTurn \/ SkipTurn \/ SendLiveTurn \/ ForgetOldTurns \/ EndPage
  BY <1>2, <1>5
     DEF SendInitialTurn, SkipTurn, SendLiveTurn, ForgetOldTurns, EndPage, Send, Place,
         historyVars, connectionVars, pageVars
<1>6. CASE sendGatewayHistoryEvent
  <2>1. /\ messages' = messages /\ queue' = queue /\ page' = page
        /\ connection' \in {connection, "none"}
    BY <1>6 DEF sendGatewayHistoryEvent, Return, historyVars, pageVars
  <2> QED
    BY <1>2, <1>6, <2>1, PlaceOfSending
<1>7. CASE ReadHistoryStream
  BY <1>7 DEF ReadHistoryStream, Place, Fresh
<1>8. CASE Cancel \/ HubReceives \/ ConnectionLost \/ UNCHANGED vars
  BY <1>2, <1>8
     DEF Cancel, HubReceives, ConnectionLost, Lose, vars, Place, historyVars, connectionVars,
         pageVars, sendVars
<1>9. ASSUME NEW why, EventsEnd(why)
      PROVE  Fresh'
  BY <1>9 DEF EventsEnd, Return, Send, Place, Fresh
<1>10. CASE ConnectionEnds \/ ContextEnds \/ IdleTimeout
  BY <1>9, <1>10 DEF ConnectionEnds, ContextEnds, IdleTimeout
<1>11. CASE NextEvent
  <2>1. /\ stream = "waiting" /\ queue' = Tail(queue) /\ connection' = connection
        /\ stream' = IF gatewayHistoryEventMatchesSession(Head(queue))
                       THEN "reloading" ELSE "waiting"
        /\ messages' = messages /\ page' = page
    BY <1>11 DEF NextEvent, TakeEvent, NextInLine, historyVars, pageVars
  <2>2. Len(queue) \in Nat /\ Len(queue) # 0 /\ queue \in Seq(GatewayEvent)
    BY <1>11 DEF NextEvent, TakeEvent, Take, ConnectionFits, ConnectionTypeOK
  <2>3. /\ Head(queue) = queue[1] /\ Len(Tail(queue)) = Len(queue) - 1
        /\ \A k \in 1 .. Len(queue) - 1 : Tail(queue)[k] = queue[k + 1]
    BY <2>2, HeadTailProperties
  <2>4. ASSUME NEW k \in 1 .. Len(queue), gatewayHistoryEventMatchesSession(queue[k]),
               stream' # "reloading"
        PROVE  Notes(queue')
    <3>1. k # 1
      BY <2>1, <2>3, <2>4
    <3>2. k - 1 \in 1 .. Len(queue) - 1 /\ (k - 1) + 1 = k
      BY <2>2, <3>1
    <3> QED
      BY <2>1, <2>3, <2>4, <3>2
  <2>5. Place = "waiting" /\ Place' = stream'
    BY <2>1 DEF Place
  <2> QED
    BY <1>2, <2>1, <2>4, <2>5
<1>12. CASE \E e \in GatewayEvent : OtherEvent(e)
  <2>1. PICK e \in GatewayEvent : OtherEvent(e)
    BY <1>12
  <2>2. /\ Receive(e) /\ messages' = messages /\ page' = page /\ Place' = Place
    BY <2>1 DEF OtherEvent, pageVars, sendVars, Place
  <2>3. CASE connection' = "up"
    BY <1>2, <2>2, <2>3, ReceiveKeeps
  <2>4. CASE connection' # "up"
    BY <2>4 DEF Fresh
  <2> QED
    BY <2>3, <2>4
<1>13. CASE MessageEvent
  <2>1. PICK s \in {"this", "unnamed"} : Receive([event |-> "session.message", session |-> s])
    BY <1>13, NamesAssumption DEF MessageEvent
  <2> DEFINE e == [event |-> "session.message", session |-> s]
  <2>2. e \in GatewayEvent /\ gatewayHistoryEventMatchesSession(e)
    BY DEF GatewayEvent, gatewayHistoryEventMatchesSession
  <2>3. CASE connection' = "up"
    <3>1. \E k \in 1 .. Len(queue') : queue'[k] = e
      BY <2>1, <2>2, <2>3, ReceiveKeeps
    <3> QED
      BY <2>2, <3>1 DEF Fresh
  <2>4. CASE connection' # "up"
    BY <2>4 DEF Fresh
  <2> QED
    BY <2>3, <2>4
<1>14. CASE GatewayStep
  BY <1>8, <1>12, <1>13, <1>14 DEF GatewayStep, AddToHistory, EditMessage
<1> QED
  BY <1>4, <1>5, <1>6, <1>7, <1>8, <1>10, <1>11, <1>14 DEF Next, StreamStep
-----------------------------------------------------------------------------
(* What the Hub receives.                                                  *)

\* One more event.
LEMMA LeadsAppend ==
  ASSUME NEW S, NEW q \in Seq(S), NEW e \in S, NEW u, NEW v, Leads(u, q, v), Fits(e, v)
  PROVE  Leads(u, Append(q, e), Shown(v, e))
<1> DEFINE r == Append(q, e)
<1>1. PICK h : /\ h[0] = u
               /\ h[Len(q)] = v
               /\ \A k \in 1 .. Len(q) : Fits(q[k], h[k - 1]) /\ h[k] = Shown(h[k - 1], q[k])
  BY DEF Leads
<1>2. /\ Len(r) = Len(q) + 1 /\ Len(q) \in Nat /\ r[Len(q) + 1] = e
      /\ \A k \in 1 .. Len(q) : r[k] = q[k]
  BY AppendProperties
<1> HIDE DEF r
<1> DEFINE g == [k \in 0 .. Len(q) + 1 |-> IF k = Len(q) + 1 THEN Shown(v, e) ELSE h[k]]
<1>3. g[0] = u /\ g[Len(r)] = Shown(v, e) /\ \A k \in 0 .. Len(q) : g[k] = h[k]
  BY <1>1, <1>2
<1> HIDE DEF g
<1>4. ASSUME NEW k \in 1 .. Len(r)
      PROVE  Fits(r[k], g[k - 1]) /\ g[k] = Shown(g[k - 1], r[k])
  <2>1. CASE k = Len(q) + 1
    <3>1. r[k] = e /\ g[k - 1] = v /\ g[k] = Shown(v, e)
      BY <1>1, <1>2, <1>3, <2>1
    <3> QED
      BY <3>1
  <2>2. CASE k \in 1 .. Len(q)
    <3>1. r[k] = q[k] /\ g[k - 1] = h[k - 1] /\ g[k] = h[k]
      BY <1>2, <1>3, <2>2
    <3> QED
      BY <1>1, <2>2, <3>1
  <2> QED
    BY <1>2, <2>1, <2>2
<1> QED
  BY <1>3, <1>4 DEF Leads, r

\* The last event is not sent after all.
LEMMA LeadsFront ==
  ASSUME NEW S, NEW q \in Seq(S), NEW e \in S, NEW u, NEW v, Leads(u, Append(q, e), v)
  PROVE  \E w : Leads(u, q, w)
<1> DEFINE r == Append(q, e)
<1>1. PICK h : /\ h[0] = u
               /\ \A k \in 1 .. Len(r) : Fits(r[k], h[k - 1]) /\ h[k] = Shown(h[k - 1], r[k])
  BY DEF Leads
<1>2. /\ Len(r) = Len(q) + 1 /\ Len(q) \in Nat
      /\ \A k \in 1 .. Len(q) : r[k] = q[k]
  BY AppendProperties
<1> HIDE DEF r
<1>3. \A k \in 1 .. Len(q) : Fits(q[k], h[k - 1]) /\ h[k] = Shown(h[k - 1], q[k])
  BY <1>1, <1>2
<1>4. Leads(u, q, h[Len(q)])
  BY <1>1, <1>3 DEF Leads
<1> QED
  BY <1>4

\* The first event is received.
LEMMA LeadsTail ==
  ASSUME NEW S, NEW q \in Seq(S), q # <<>>, NEW u, NEW v, Leads(u, q, v)
  PROVE  Fits(Head(q), u) /\ Leads(Shown(u, Head(q)), Tail(q), v)
<1>1. PICK h : /\ h[0] = u
               /\ h[Len(q)] = v
               /\ \A k \in 1 .. Len(q) : Fits(q[k], h[k - 1]) /\ h[k] = Shown(h[k - 1], q[k])
  BY DEF Leads
<1>2. /\ Len(q) \in Nat \ {0} /\ Head(q) = q[1] /\ Len(Tail(q)) = Len(q) - 1
      /\ \A k \in 1 .. Len(q) - 1 : Tail(q)[k] = q[k + 1]
  BY EmptySeq, HeadTailProperties
<1>3. Fits(Head(q), u) /\ h[1] = Shown(u, Head(q))
  <2>1. 1 \in 1 .. Len(q) /\ 1 - 1 = 0
    BY <1>2
  <2> QED
    BY <1>1, <1>2, <2>1
<1> DEFINE r == Tail(q)
           g == [k \in 0 .. Len(q) - 1 |-> h[k + 1]]
<1>4. g[0] = h[1] /\ g[Len(r)] = v
  BY <1>1, <1>2
<1>5. ASSUME NEW k \in 1 .. Len(r)
      PROVE  Fits(r[k], g[k - 1]) /\ g[k] = Shown(g[k - 1], r[k])
  <2>1. k \in 1 .. Len(q) - 1 /\ k + 1 \in 1 .. Len(q) /\ (k + 1) - 1 = k
        /\ k - 1 \in 0 .. Len(q) - 1 /\ (k - 1) + 1 = k
    BY <1>2
  <2>2. r[k] = q[k + 1] /\ g[k - 1] = h[k] /\ g[k] = h[k + 1]
    BY <1>2, <2>1
  <2>3. Fits(q[k + 1], h[(k + 1) - 1]) /\ h[k + 1] = Shown(h[(k + 1) - 1], q[k + 1])
    BY <1>1, <2>1
  <2> HIDE DEF r, g
  <2> QED
    BY <2>1, <2>2, <2>3
<1> HIDE DEF r, g
<1>6. Leads(h[1], r, v)
  BY <1>4, <1>5 DEF Leads
<1> QED
  BY <1>3, <1>6 DEF r

\* The channel, and then the event, without the first.
LEMMA ComingTail ==
  ASSUME SendingFits, out # <<>>
  PROVE  /\ Coming \in Seq(Sendable) /\ Coming # <<>> /\ Head(Coming) = Head(out)
         /\ stream = "sending" => Tail(Coming) = Append(Tail(out), event)
         /\ stream # "sending" => Tail(Coming) = Tail(out)
<1>1. /\ out \in Seq(Sendable) /\ Len(out) \in Nat \ {0} /\ Head(out) = out[1]
      /\ Tail(out) \in Seq(Sendable) /\ Len(Tail(out)) = Len(out) - 1
      /\ \A k \in 1 .. Len(out) - 1 : Tail(out)[k] = out[k + 1]
  BY HeadOfOut DEF SendingFits
<1>2. CASE stream = "sending"
  <2>1. event \in Sendable /\ Coming = Append(out, event)
    BY <1>2 DEF SendingFits, Coming
  <2>2. /\ Coming \in Seq(Sendable) /\ Len(Coming) = Len(out) + 1
        /\ Coming[Len(out) + 1] = event /\ \A k \in 1 .. Len(out) : Coming[k] = out[k]
    BY <1>1, <2>1, AppendProperties
  <2>3. Coming # <<>>
    BY <1>1, <2>2, EmptySeq
  <2>4. /\ Head(Coming) = Coming[1] /\ Tail(Coming) \in Seq(Sendable)
        /\ Len(Tail(Coming)) = Len(Coming) - 1
        /\ \A k \in 1 .. Len(Coming) - 1 : Tail(Coming)[k] = Coming[k + 1]
    BY <2>2, <2>3, HeadTailProperties
  <2>5. 1 \in 1 .. Len(out)
    BY <1>1
  <2> DEFINE r == Append(Tail(out), event)
  <2>6. /\ r \in Seq(Sendable) /\ Len(r) = Len(out)
        /\ r[Len(out)] = event /\ \A k \in 1 .. Len(out) - 1 : r[k] = Tail(out)[k]
    BY <1>1, <2>1, AppendProperties
  <2> HIDE DEF r
  <2>7. \A k \in 1 .. Len(out) : r[k] = Tail(Coming)[k]
    <3> SUFFICES ASSUME NEW k \in 1 .. Len(out) PROVE r[k] = Tail(Coming)[k]
      OBVIOUS
    <3>1. Tail(Coming)[k] = Coming[k + 1]
      BY <1>1, <2>2, <2>4
    <3>2. CASE k = Len(out)
      BY <1>1, <2>2, <2>6, <3>1, <3>2
    <3>3. CASE k # Len(out)
      <4>1. \A n \in Nat : n \in Nat \ {0} /\ k \in 1 .. n /\ k # n =>
              k \in 1 .. n - 1 /\ k + 1 \in 1 .. n
        OBVIOUS
      <4>2. k \in 1 .. Len(out) - 1 /\ k + 1 \in 1 .. Len(out)
        BY <1>1, <3>3, <4>1
      <4> QED
        BY <1>1, <2>2, <2>6, <3>1, <4>2
    <3> QED
      BY <3>2, <3>3
  <2>8. Tail(Coming) = r
    BY <1>1, <2>2, <2>4, <2>6, <2>7, SeqEqual
  <2> QED
    BY <1>1, <1>2, <2>2, <2>3, <2>4, <2>5, <2>8 DEF r
<1>3. CASE stream # "sending"
  BY <1>1, <1>3 DEF Coming
<1> QED
  BY <1>2, <1>3

\* The event of a turn is sent: the Hub will show it as it is remembered.
LEMMA TurnIsPromised ==
  ASSUME HistoryFits, PageKept, TrackingTypes, SendingFits, TrackingFits, [Next]_vars,
         NEW v, Promises(v), Leads(view, out, v),
         stream \in {"initial", "updating"}, position < Len(page),
         NEW source \in {"initial", "live"}, NEW operation \in {"append", "replace"},
         NEW revision \in Nat \ {0},
         LET e == TurnEvent(source, operation, NextTurn, revision)
         IN  Fits(e, v) /\ Send(e, stream),
         Remember(NextTurn, revision), position' = position + 1,
         UNCHANGED <<messages, page, out, view>>
  PROVE  HubFits'
<1> DEFINE turn == NextTurn
           e == TurnEvent(source, operation, turn, revision)
<1> PICK w : w = Shown(v, e)
  OBVIOUS
<1>1. /\ position + 1 \in 1 .. Len(page) /\ turn = page[position + 1] /\ Len(page) \in Nat
      /\ turn.id \in Ids /\ turn.messages # <<>> /\ turn.messages \in Seq(Message)
      /\ turn \in TurnRecord /\ TurnOK(turn)
  BY NextTurnFits
<1>2. Fits(e, v) /\ event' = e /\ after' = stream /\ stream' = "sending"
  BY DEF Send
<1> HIDE DEF turn
<1>3. e \in Sendable /\ e.type = "turn" /\ e.turn = turn /\ e.revision = revision
  BY <1>1, TurnsAreEvents
<1>4. v \in Views /\ w \in Views
  BY <1>3, ShownIsView DEF Promises, Sendable
<1> HIDE DEF e
<1>5. /\ w[turn.id] = [revision |-> revision, messages |-> turn.messages]
      /\ \A id \in Ids \ {turn.id} : w[id] = v[id]
  BY <1>1, <1>3, <1>4 DEF Shown, Views
<1>6. Leads(view, Append(out, e), w)
  BY <1>2, <1>3, LeadsAppend DEF SendingFits
<1>7. Coming' = Append(out, e) /\ view' = view /\ Place' = stream /\ Place = stream
  BY <1>2 DEF Coming, Place
<1>8. /\ revisions'[turn.id] = revision /\ signatures'[turn.id] = turn.messages
      /\ \A id \in Ids \ {turn.id} : /\ revisions'[id] = revisions[id]
                                     /\ signatures'[id] = signatures[id]
  BY <1>1 DEF Remember, TrackingTypes, turn
<1>9. StartsTurn(turn.id)
  BY <1>1 DEF PageKept
<1>10. Promises(w)'
  <2>1. ASSUME NEW id \in Ids, Tracked(id)'
        PROVE  w[id] = [revision |-> revisions'[id], messages |-> signatures'[id]]
    <3>1. CASE id = turn.id
      BY <1>5, <1>8, <3>1
    <3>2. CASE id # turn.id
      <4>1. Tracked(id)
        BY <1>8, <2>1, <3>2 DEF Tracked
      <4> QED
        BY <1>5, <1>8, <3>2, <4>1 DEF Promises
    <3> QED
      BY <3>1, <3>2
  <2>2. ASSUME NEW id \in Ids, w[id].revision = 0
        PROVE  w[id].messages = <<>>
    <3>1. id # turn.id
      BY <1>5, <2>2
    <3> QED
      BY <1>5, <2>2, <3>1 DEF Promises
  <2>3. ASSUME NEW id \in Ids, w[id].revision # 0
        PROVE  StartsTurn(id)' /\ (Tracked(id)' \/ Gone(id)')
    <3>1. CASE id = turn.id
      BY <1>8, <1>9, <3>1, HistoryStays DEF Tracked
    <3>2. CASE id # turn.id
      <4>1. StartsTurn(id) /\ (Tracked(id) \/ Gone(id))
        BY <1>5, <2>3, <3>2 DEF Promises
      <4>2. Tracked(id) => Tracked(id)'
        BY <1>8, <3>2 DEF Tracked
      <4> QED
        BY <4>1, <4>2, HistoryStays
    <3> QED
      BY <3>1, <3>2
  <2>4. ASSUME NEW i \in (position + 1) + 1 .. Len(page)
        PROVE  Tracked(page[i].id)' \/ w[page[i].id].revision = 0
    <3>1. /\ i \in position + 1 .. Len(page) /\ i \in 1 .. Len(page) /\ i # position + 1
      BY <1>1 DEF TrackingTypes
    <3>2. page[i].id # turn.id /\ page[i].id \in Ids
      <4>1. page[i] \in TurnRecord
        BY <3>1, ElementOfSeq DEF PageKept, PageFits
      <4> QED
        BY <1>1, <3>1, <4>1 DEF PageKept, PageFits, TurnRecord
    <3>3. Tracked(page[i].id) \/ v[page[i].id].revision = 0
      BY <1>7, <3>1 DEF Promises
    <3>4. Tracked(page[i].id) => Tracked(page[i].id)'
      BY <1>8, <3>2 DEF Tracked
    <3> QED
      BY <1>5, <3>2, <3>3, <3>4
  <2>5. Place' \notin {"off", "loading"} /\ page' = page /\ position' = position + 1
    BY <1>7
  <2>6. \A id \in Ids : Tracked(id)' =>
          w[id] = [revision |-> revisions'[id], messages |-> signatures'[id]]
    BY <2>1
  <2>7. \A id \in Ids : w[id].revision # 0 => StartsTurn(id)' /\ (Tracked(id)' \/ Gone(id)')
    BY <2>3
  <2>8. \A id \in Ids : w[id].revision = 0 => w[id].messages = <<>>
    BY <2>2
  <2>9. \A i \in position' + 1 .. Len(page') :
          Tracked(page[i].id)' \/ w[page[i].id].revision = 0
    BY <2>4, <2>5
  <2> QED
    BY <1>4, <2>5, <2>6, <2>7, <2>8, <2>9 DEF Promises
<1> QED
  BY <1>6, <1>7, <1>10 DEF HubFits

\* What the Hub will show, under every step.
LEMMA HubHolds ==
  ASSUME HistoryFits, PageKept, TrackingTypes, SendingFits, TrackingFits, HubFits, [Next]_vars
  PROVE  HubFits'
<1>1. PICK v : Leads(view, Coming, v) /\ (Place # "closed" => Promises(v))
  BY DEF HubFits
<1>2. \A id \in Ids : StartsTurn(id) => StartsTurn(id)' /\ (Gone(id) => Gone(id)')
  BY HistoryStays
\* Steps that send no turn and remember none.
<1>3. ASSUME UNCHANGED pageVars, Place # "closed",
             \/ Place' \in {Place, "waiting", "reloading"}
             \/ Place = "off" /\ Place' = "loading"
      PROVE  Promises(v)'
  <2>1. /\ page' = page /\ position' = position /\ revisions' = revisions
        /\ signatures' = signatures
    BY <1>3 DEF pageVars
  <2>2. \A id \in Ids : Tracked(id)' <=> Tracked(id)
    BY <2>1 DEF Tracked
  <2>3. \A i : Tracked(page[i].id)' <=> Tracked(page[i].id)
    BY <2>1 DEF Tracked
  <2>4. Promises(v)
    BY <1>1, <1>3
  <2>5. \A id \in Ids : Tracked(id)' =>
          v[id] = [revision |-> revisions'[id], messages |-> signatures'[id]]
    BY <2>1, <2>2, <2>4 DEF Promises
  <2>6. \A id \in Ids : v[id].revision # 0 => StartsTurn(id)' /\ (Tracked(id)' \/ Gone(id)')
    BY <1>2, <2>2, <2>4 DEF Promises
  <2>7. Place' \in {"initial", "updating"} =>
          \A i \in (position + 1) .. Len(page) :
            Tracked(page[i].id)' \/ v[page[i].id].revision = 0
    BY <1>3, <2>3, <2>4 DEF Promises
  <2>8. Place' \in {"off", "loading"} => \A id \in Ids : v[id].revision = 0
    BY <1>3, <2>4 DEF Promises
  <2>9. v \in Views /\ \A id \in Ids : v[id].revision = 0 => v[id].messages = <<>>
    BY <2>4 DEF Promises
  <2> QED
    BY <2>1, <2>5, <2>6, <2>7, <2>8, <2>9 DEF Promises
<1>4. ASSUME UNCHANGED <<pageVars, view, Coming>>,
             \/ Place' \in {Place, "reloading"} /\ Place # "closed"
             \/ Place = "off" /\ Place' = "loading"
             \/ Place' = "closed"
      PROVE  HubFits'
  <2>1. Leads(view', Coming', v)
    BY <1>1, <1>4
  <2> QED
    BY <1>3, <1>4, <2>1 DEF HubFits
\* A marker is sent.
<1>5. ASSUME NEW type \in {"page_end", "end", "error"}, NEW next, Send(Marker(type), next),
             stream # "sending", out' = out, view' = view,
             next = "waiting" => UNCHANGED pageVars /\ Place # "closed",
             next \in {"waiting", "closed"}
      PROVE  HubFits'
  <2>1. Marker(type) \in Sendable /\ Marker(type).type # "turn"
    BY MarkersAreEvents
  <2>2. Fits(Marker(type), v) /\ Shown(v, Marker(type)) = v
    BY <2>1 DEF Fits, Shown
  <2>3. Coming = out /\ Coming' = Append(out, Marker(type)) /\ Place' = next
    BY <1>5 DEF Send, Coming, Place
  <2>4. Leads(view, Append(out, Marker(type)), v)
    BY <1>1, <2>1, <2>2, <2>3, LeadsAppend DEF SendingFits
  <2>5. Leads(view', Coming', v)
    BY <1>5, <2>3, <2>4
  <2> QED
    BY <1>3, <1>5, <2>3, <2>5 DEF HubFits
<1>6. CASE GatewayStep \/ Cancel \/ UNCHANGED vars
  <2>1. UNCHANGED <<pageVars, view, stream, after, out, event>>
    BY <1>6
       DEF GatewayStep, AddToHistory, EditMessage, OtherEvent, ConnectionLost, Cancel, vars,
           sendVars, hubVars
  <2> QED
    BY <1>4, <2>1 DEF Place, Coming
<1>7. CASE ReadHistoryStream
  BY <1>4, <1>7 DEF ReadHistoryStream, Place, Coming, hubVars
<1>8. CASE NextEvent
  BY <1>4, <1>8 DEF NextEvent, Place, Coming, hubVars
<1>9. CASE EndPage
  <2>1. Place = "initial" /\ stream # "sending"
    BY <1>9 DEF EndPage, Place
  <2> QED
    BY <1>5, <1>9, <2>1 DEF EndPage, hubVars
<1>10. ASSUME NEW why, EventsEnd(why)
       PROVE  HubFits'
  <2>1. CASE Return /\ UNCHANGED sendVars
    BY <1>4, <1>10, <2>1 DEF EventsEnd, Return, Place, Coming, hubVars
  <2>2. CASE Send(Marker("error"), "closed")
    BY <1>5, <1>10, <2>2 DEF EventsEnd, hubVars
  <2> QED
    BY <1>10, <2>1, <2>2 DEF EventsEnd
<1>11. CASE ConnectionEnds \/ ContextEnds \/ IdleTimeout
  BY <1>10, <1>11 DEF ConnectionEnds, ContextEnds, IdleTimeout
<1>12. CASE sendGatewayHistoryEvent
  <2>1. Coming = Append(out, event) /\ view' = view /\ pageVars' = pageVars
        /\ event \in Sendable /\ out \in Seq(Sendable)
    BY <1>12, PlaceOfSending
       DEF sendGatewayHistoryEvent, Coming, hubVars, SendingFits
  <2>2. CASE stream' = after /\ out' = Append(out, event)
    <3>1. Coming' = Coming /\ Place' = Place
      BY <1>12, <2>1, <2>2, PlaceOfSending DEF Coming
    <3> QED
      BY <1>4, <2>1, <3>1
  <2>3. CASE stream' = "closed" /\ out' = out
    <3>1. Coming' = out /\ Place' = "closed"
      BY <2>3 DEF Coming, Place
    <3>2. PICK w : Leads(view, out, w)
      BY <1>1, <2>1, LeadsFront
    <3>3. Leads(view', Coming', w)
      BY <2>1, <3>1, <3>2
    <3> QED
      BY <3>1, <3>3 DEF HubFits
  <2> QED
    BY <1>12, <2>2, <2>3, PlaceOfSending
<1>13. CASE HubReceives
  <2>1. /\ out # <<>> /\ out' = Tail(out) /\ view' = Shown(view, Head(out))
        /\ UNCHANGED <<pageVars, stream, after, event>>
    BY <1>13 DEF HubReceives, Shown, sendVars
  <2>2. Coming' = Tail(Coming) /\ Place' = Place
    BY <2>1, ComingTail DEF Coming, Place
  <2>3. Leads(Shown(view, Head(out)), Tail(Coming), v)
    BY <1>1, <2>1, ComingTail, LeadsTail
  <2>4. Leads(view', Coming', v)
    BY <2>1, <2>2, <2>3
  <2> QED
    BY <1>3, <2>1, <2>2, <2>4 DEF HubFits
\* A page is loaded.
<1>14. ASSUME NEW next \in {"initial", "updating"}, LoadPage(next), stream # "sending",
              UNCHANGED <<messages, revisions, signatures, out, view>>, Place # "closed",
              \A i \in 1 .. Len(loadGatewayHistoryTurns) :
                LET id == loadGatewayHistoryTurns[i].id
                IN  Tracked(id) \/ v[id].revision = 0
       PROVE  HubFits'
  <2>1. CASE Send(Marker("error"), "closed")
    BY <1>5, <1>14, <2>1
  <2>2. CASE page' = loadGatewayHistoryTurns /\ position' = 0 /\ stream' = next
    <3>1. Coming' = Coming /\ Place' = next /\ view' = view
      BY <1>14, <2>2 DEF Coming, Place
    <3>2. \A id : Tracked(id)' <=> Tracked(id)
      BY <1>14 DEF Tracked
    <3>3. Promises(v)
      BY <1>1, <1>14
    <3>4. \A id \in Ids : Tracked(id)' =>
            v[id] = [revision |-> revisions'[id], messages |-> signatures'[id]]
      BY <1>14, <3>2, <3>3 DEF Promises
    <3>5. \A id \in Ids : v[id].revision # 0 => StartsTurn(id)' /\ (Tracked(id)' \/ Gone(id)')
      BY <1>2, <3>2, <3>3 DEF Promises
    <3>6. \A i \in (position' + 1) .. Len(page') :
            Tracked(page'[i].id) \/ v[page'[i].id].revision = 0
      BY <1>14, <2>2
    <3>7. \A i \in (position' + 1) .. Len(page') :
            Tracked(page[i].id)' \/ v[page'[i].id].revision = 0
      BY <1>14, <3>6 DEF Tracked
    <3>8. v \in Views /\ \A id \in Ids : v[id].revision = 0 => v[id].messages = <<>>
      BY <3>3 DEF Promises
    <3>9. Promises(v)'
      BY <1>14, <3>1, <3>4, <3>5, <3>7, <3>8 DEF Promises
    <3>10. Leads(view', Coming', v)
      BY <1>1, <3>1
    <3> QED
      BY <3>9, <3>10 DEF HubFits
  <2> QED
    BY <1>14, <2>1, <2>2 DEF LoadPage
<1>15. CASE LoadInitial
  <2>1. Place = "loading" /\ stream # "sending"
    BY <1>15 DEF LoadInitial, Place
  <2>2. \A id \in Ids : v[id].revision = 0
    BY <1>1, <2>1 DEF Promises
  <2>3. \A i \in 1 .. Len(loadGatewayHistoryTurns) :
          LET id == loadGatewayHistoryTurns[i].id IN Tracked(id) \/ v[id].revision = 0
    BY <2>2, LoadKept
  <2> QED
    BY <1>14, <1>15, <2>1, <2>3 DEF LoadInitial, hubVars, historyVars
<1>16. CASE Reload
  <2>1. Place = "reloading" /\ stream # "sending"
    BY <1>16 DEF Reload, Place
  <2>2. \A i \in 1 .. Len(loadGatewayHistoryTurns) :
          LET id == loadGatewayHistoryTurns[i].id IN Tracked(id) \/ v[id].revision = 0
    BY <1>1, <2>1, LoadKept DEF Promises
  <2> QED
    BY <1>14, <1>16, <2>1, <2>2 DEF Reload, hubVars, historyVars
\* A turn of the page is sent, or is known to the Hub.
<1>17. ASSUME stream \in {"initial", "updating"}, position < Len(page)
       PROVE  /\ Promises(v) /\ Leads(view, out, v) /\ NextTurn.id \in Ids
              /\ NextTurn.messages # <<>>
              /\ Tracked(NextTurn.id) \/ v[NextTurn.id].revision = 0
              /\ v[NextTurn.id].revision = 0 => v[NextTurn.id].messages = <<>>
              /\ Tracked(NextTurn.id) => stream = "updating"
  <2>1. Place = stream /\ Coming = out
    BY <1>17 DEF Place, Coming
  <2>2. Promises(v) /\ Leads(view, out, v)
    BY <1>1, <1>17, <2>1
  <2>3. /\ position + 1 \in 1 .. Len(page) /\ NextTurn = page[position + 1]
        /\ NextTurn.id \in Ids /\ NextTurn.messages # <<>> /\ Len(page) \in Nat
    BY <1>17, NextTurnFits
  <2>4. position + 1 \in (position + 1) .. Len(page)
    BY <2>3
  <2>5. Tracked(NextTurn.id) \/ v[NextTurn.id].revision = 0
    BY <1>17, <2>1, <2>2, <2>3, <2>4 DEF Promises
  <2>6. v[NextTurn.id].revision = 0 => v[NextTurn.id].messages = <<>>
    BY <2>2, <2>3 DEF Promises
  <2>7. ASSUME Tracked(NextTurn.id), stream = "initial"
        PROVE  FALSE
    <3>1. PICK i \in 1 .. position : page[i].id = NextTurn.id
      BY <2>1, <2>3, <2>7 DEF TrackingFits
    <3>2. i \in 1 .. Len(page) /\ i # position + 1
      BY <1>17, <2>3 DEF TrackingTypes
    <3> QED
      BY <2>3, <3>1, <3>2 DEF PageKept, PageFits
  <2> QED
    BY <1>17, <2>2, <2>3, <2>5, <2>6, <2>7
<1>18. CASE SendInitialTurn
  <2> DEFINE e == TurnEvent("initial", "append", NextTurn, 1)
  <2>1. /\ stream = "initial" /\ position < Len(page) /\ Send(e, stream)
        /\ Remember(NextTurn, 1) /\ position' = position + 1
        /\ UNCHANGED <<messages, page, out, view>>
    BY <1>18 DEF SendInitialTurn, historyVars, hubVars
  <2>2. /\ e.type = "turn" /\ e.operation = "append" /\ e.turn = NextTurn /\ e.revision = 1
    BY DEF TurnEvent
  <2>3. Fits(e, v)
    BY <1>17, <2>1, <2>2 DEF Fits
  <2> QED
    BY <1>17, <2>1, <2>3, TurnIsPromised
<1>19. CASE SendLiveTurn
  <2> DEFINE operation == IF signatures[NextTurn.id] = <<>> THEN "append" ELSE "replace"
             revision == revisions[NextTurn.id] + 1
             e == TurnEvent("live", operation, NextTurn, revision)
  <2>1. /\ stream = "updating" /\ position < Len(page) /\ Send(e, stream)
        /\ signatures[NextTurn.id] # NextTurn.messages
        /\ Remember(NextTurn, revision) /\ position' = position + 1
        /\ UNCHANGED <<messages, page, out, view>>
    BY <1>19 DEF SendLiveTurn, historyVars, hubVars
  <2>2. revision \in Nat \ {0} /\ operation \in {"append", "replace"}
    BY <1>17, <2>1 DEF TrackingTypes
  <2>3. /\ e.type = "turn" /\ e.operation = operation /\ e.turn = NextTurn
        /\ e.revision = revision
    BY DEF TurnEvent
  <2>4. Fits(e, v)
    <3>1. CASE Tracked(NextTurn.id)
      <4>1. v[NextTurn.id] = [revision |-> revisions[NextTurn.id],
                              messages |-> signatures[NextTurn.id]]
        BY <1>17, <2>1, <3>1 DEF Promises
      <4>2. revisions[NextTurn.id] # 0 /\ operation = "replace"
        BY <1>17, <2>1, <3>1 DEF TrackingFits, Tracked
      <4> QED
        BY <2>1, <2>3, <4>1, <4>2 DEF Fits
    <3>2. CASE ~Tracked(NextTurn.id)
      <4>1. v[NextTurn.id].revision = 0 /\ v[NextTurn.id].messages = <<>>
        BY <1>17, <2>1, <3>2
      <4>2. revisions[NextTurn.id] = 0 /\ operation = "append"
        BY <1>17, <2>1, <3>2 DEF TrackingFits, Tracked
      <4> QED
        BY <1>17, <2>1, <2>3, <4>1, <4>2 DEF Fits
    <3> QED
      BY <3>1, <3>2
  <2> HIDE DEF operation, revision
  <2> QED
    BY <1>17, <2>1, <2>2, <2>4, TurnIsPromised
<1>20. CASE SkipTurn
  <2>1. /\ stream = "updating" /\ position < Len(page) /\ position' = position + 1
        /\ page' = page /\ revisions' = revisions /\ signatures' = signatures
        /\ UNCHANGED <<messages, out, view>> /\ stream' = "updating"
    BY <1>20 DEF SkipTurn, historyVars, hubVars
  <2>2. Promises(v) /\ Leads(view, out, v)
    BY <1>17, <2>1
  <2>3. Place = "updating" /\ Place' = "updating" /\ Coming' = out /\ view' = view
    BY <2>1 DEF Place, Coming
  <2>4. \A id : Tracked(id)' <=> Tracked(id)
    BY <2>1 DEF Tracked
  <2>5. \A i \in (position' + 1) .. Len(page') :
          Tracked(page[i].id)' \/ v[page[i].id].revision = 0
    <3>1. \A i \in (position' + 1) .. Len(page') : i \in (position + 1) .. Len(page)
      BY <2>1 DEF TrackingTypes, PageKept, PageFits
    <3>2. \A i : Tracked(page[i].id)' <=> Tracked(page[i].id)
      BY <2>1 DEF Tracked
    <3> QED
      BY <2>2, <2>3, <3>1, <3>2 DEF Promises
  <2>6. \A id \in Ids : Tracked(id)' =>
          v[id] = [revision |-> revisions'[id], messages |-> signatures'[id]]
    BY <2>1, <2>2, <2>4 DEF Promises
  <2>7. \A id \in Ids : v[id].revision # 0 => StartsTurn(id)' /\ (Tracked(id)' \/ Gone(id)')
    BY <1>2, <2>2, <2>4 DEF Promises
  <2>8. v \in Views /\ \A id \in Ids : v[id].revision = 0 => v[id].messages = <<>>
    BY <2>2 DEF Promises
  <2>9. Promises(v)'
    BY <2>1, <2>3, <2>5, <2>6, <2>7, <2>8 DEF Promises
  <2>10. Leads(view', Coming', v)
    BY <2>2, <2>3
  <2> QED
    BY <2>9, <2>10 DEF HubFits
<1>21. CASE ForgetOldTurns
  <2>1. /\ stream = "updating" /\ UNCHANGED <<messages, out, view>> /\ stream' = "waiting"
    BY <1>21 DEF ForgetOldTurns, historyVars, hubVars
  <2>2. Place = "updating" /\ Place' = "waiting" /\ Coming = out /\ Coming' = out
        /\ view' = view
    BY <2>1 DEF Place, Coming
  <2>3. Promises(v)
    BY <1>1, <2>2
  <2>4. \A id \in Ids : /\ revisions'[id] = IF Lists(page, id) THEN revisions[id] ELSE 0
                        /\ signatures'[id] = IF Lists(page, id) THEN signatures[id] ELSE <<>>
    <3>1. \A id : Listed(id) <=> Lists(page, id)
      <4>1. DOMAIN page = 1 .. Len(page)
        BY DEF PageKept, PageFits
      <4> QED
        BY <4>1 DEF Listed, Lists
    <3> QED
      BY <1>21, <3>1 DEF ForgetOldTurns
  <2>5. \A id \in Ids : Tracked(id)' =>
          v[id] = [revision |-> revisions'[id], messages |-> signatures'[id]]
    BY <2>3, <2>4 DEF Promises, Tracked
  <2>6. ASSUME NEW id \in Ids, v[id].revision # 0
        PROVE  StartsTurn(id)' /\ (Tracked(id)' \/ Gone(id)')
    <3>1. StartsTurn(id) /\ (Tracked(id) \/ Gone(id))
      BY <2>3, <2>6 DEF Promises
    <3>2. Tracked(id) => Lists(page, id) \/ Gone(id)
      BY <2>2 DEF TrackingFits
    <3>3. Tracked(id) /\ Lists(page, id) => Tracked(id)'
      BY <2>4 DEF Tracked
    <3> QED
      BY <1>2, <3>1, <3>2, <3>3
  <2>7. \A id \in Ids : v[id].revision # 0 => StartsTurn(id)' /\ (Tracked(id)' \/ Gone(id)')
    BY <2>6
  <2>8. v \in Views /\ \A id \in Ids : v[id].revision = 0 => v[id].messages = <<>>
    BY <2>3 DEF Promises
  <2>9. Promises(v)'
    BY <2>2, <2>5, <2>7, <2>8 DEF Promises
  <2>10. Leads(view', Coming', v)
    BY <1>1, <2>2
  <2> QED
    BY <2>9, <2>10 DEF HubFits
<1> QED
  BY <1>6, <1>7, <1>8, <1>9, <1>11, <1>12, <1>13, <1>15, <1>16, <1>18, <1>19, <1>20, <1>21
     DEF Next, StreamStep
-----------------------------------------------------------------------------
(* The theorems.                                                           *)

\* The invariant holds at first.
LEMMA InvariantStarts ==
  Init => HInv
<1> SUFFICES ASSUME Init PROVE HInv
  OBVIOUS
<1>1. /\ messages = <<>> /\ edits = 0 /\ others = 0 /\ stream = "off" /\ live \in BOOLEAN
      /\ page = <<>> /\ position = 0 /\ revisions = [id \in Ids |-> 0]
      /\ signatures = [id \in Ids |-> <<>>] /\ event = Marker("none") /\ after = "off"
      /\ cancelled = FALSE /\ out = <<>> /\ last = "nothing" /\ baseline = 0
      /\ view = [id \in Ids |-> [revision |-> 0, messages |-> <<>>]]
      /\ connection = "none" /\ queue = <<>> /\ StreamInit
  BY DEF Init, NoConnection
<1>2. Len(<<>>) = 0 /\ \A S : <<>> \in Seq(S)
  BY EmptySeq
<1>3. HistoryFits /\ CountsFit
  BY <1>1, <1>2 DEF HistoryFits, CountsFit
<1>4. ConnectionFits
  BY <1>1, <1>2 DEF ConnectionFits, ConnectionTypeOK, StreamInit
<1>5. PageKept
  BY <1>1, <1>2 DEF PageKept, PageFits
<1>6. TrackingTypes
  BY <1>1, <1>2 DEF TrackingTypes
<1>7. view \in Views
  BY <1>1, <1>2 DEF Views
<1>8. SendingFits
  <2>1. out \in Seq(Sendable) /\ Len(out) <= OutCapacity
    BY <1>1, <1>2
  <2>2. event \in StreamEvents
    BY <1>1, MarkersAreEvents
  <2> QED
    BY <1>1, <1>7, <2>1, <2>2 DEF SendingFits
<1>9. Place = "off" /\ Coming = <<>> /\ \A id \in Ids : ~Tracked(id)
  BY <1>1 DEF Place, Coming, Tracked
<1>10. TrackingFits
  BY <1>1, <1>9 DEF TrackingFits
<1>11. HubFits
  <2> DEFINE h == [k \in {0} |-> view]
  <2>1. h[0] = view /\ h[Len(Coming)] = view /\ 1 .. Len(Coming) = {}
    BY <1>2, <1>9
  <2>2. Leads(view, Coming, view)
    BY <2>1 DEF Leads
  <2>3. \A id \in Ids : view[id].revision = 0 /\ view[id].messages = <<>>
    BY <1>1
  <2>4. Promises(view)
    BY <1>7, <1>9, <2>3 DEF Promises
  <2> QED
    BY <2>2, <2>4 DEF HubFits
<1>12. Fresh
  BY <1>9 DEF Fresh
<1> QED
  BY <1>3, <1>4, <1>5, <1>6, <1>8, <1>10, <1>11, <1>12 DEF HInv

\* The counters, under every step.
LEMMA CountsHold ==
  ASSUME HistoryFits, CountsFit, [Next]_vars
  PROVE  CountsFit'
<1>1. Len(messages) \in Nat /\ Len(messages') \in Nat /\ Len(messages) <= Len(messages')
  BY HistoryHolds DEF HistoryFits, HistoryGrows
<1>2. CASE others' = others /\ baseline' \in {baseline, Len(messages)}
  BY <1>1, <1>2 DEF CountsFit
<1>3. CASE \E e \in GatewayEvent : OtherEvent(e)
  <2>1. others < MaxOthers /\ others' = others + 1 /\ baseline' = baseline
    BY <1>3 DEF OtherEvent
  <2> QED
    BY <1>1, <2>1 DEF CountsFit
<1>4. CASE \/ \E role \in Roles : AddToHistory(role)
           \/ \E id \in Ids : EditMessage(id)
           \/ ConnectionLost \/ ReadHistoryStream \/ Cancel \/ HubReceives \/ UNCHANGED vars
  BY <1>2, <1>4
     DEF AddToHistory, EditMessage, ConnectionLost, ReadHistoryStream, Cancel, HubReceives, vars,
         historyVars
<1>5. CASE StreamStep \/ IdleTimeout
  BY <1>2, <1>5
     DEF StreamStep, IdleTimeout, sendGatewayHistoryEvent, LoadInitial, SendInitialTurn, EndPage,
         NextEvent, Reload, SkipTurn, SendLiveTurn, ForgetOldTurns, ConnectionEnds, ContextEnds,
         EventsEnd, historyVars
<1> QED
  BY <1>3, <1>4, <1>5 DEF Next, GatewayStep

\* The invariant, and with it what the code promises to the Hub, holds in
\* every state of every run.
THEOREM HistoryInvariant == Spec => []HInv
<1>1. HInv /\ [Next]_vars => HInv'
  BY HistoryHolds, CountsHold, ConnectionHolds, PageHolds, SendingHolds, TrackingHolds, HubHolds,
     FreshHolds DEF HInv
<1> QED
  BY InvariantStarts, <1>1, PTL DEF Spec

\* The variables have their types: no turn is sent without messages or under
\* an id it does not have, the channel and the buffer stay within their
\* sizes, and a page within its limit.
THEOREM TypeCorrect == Spec => []TypeOK
<1>1. ASSUME HInv PROVE TypeOK
  <2>1. /\ HistoryFits /\ CountsFit /\ ConnectionFits /\ PageKept /\ TrackingTypes
        /\ SendingFits
    BY <1>1 DEF HInv
  <2>2. StreamEventOK(event)
    BY <2>1, EventParts DEF SendingFits
  <2>3. \A i \in DOMAIN out : StreamEventOK(out[i])
    <3>1. \A i \in DOMAIN out : out[i] \in Sendable
      BY <2>1 DEF SendingFits
    <3> QED
      BY <3>1, EventParts DEF Sendable
  <2>4. /\ \A i \in DOMAIN page : TurnOK(page[i])
        /\ Len(page) <= Limit
    BY <2>1 DEF PageKept, PageFits
  <2> QED
    BY <2>1, <2>2, <2>3, <2>4
       DEF TypeOK, HistoryFits, CountsFit, ConnectionFits, TrackingTypes, SendingFits, Views
<1> QED
  BY <1>1, HistoryInvariant, PTL

\* The Hub can apply every event it receives: a turn it does not know is
\* appended at revision 1, one that it knows is replaced at the next revision
\* by a different content, however the history grows and whatever the stream
\* has forgotten.
THEOREM OperationsFit == Spec => []OperationsFitView
<1>1. ASSUME HInv, out # <<>>, Head(out).type = "turn"
      PROVE  LET e == Head(out)
                 known == view[e.turn.id]
             IN  /\ e.revision = known.revision + 1
                 /\ e.operation = IF known.revision = 0 THEN "append" ELSE "replace"
                 /\ e.turn.messages # known.messages
  <2>1. PICK v : Leads(view, Coming, v)
    BY <1>1 DEF HInv, HubFits
  <2>2. Coming \in Seq(Sendable) /\ Coming # <<>> /\ Head(Coming) = Head(out)
    BY <1>1, ComingTail DEF HInv
  <2>3. Fits(Head(out), view)
    BY <2>1, <2>2, LeadsTail
  <2> QED
    BY <1>1, <2>3 DEF Fits
<1>2. HInv => OperationsFitView
  BY <1>1 DEF OperationsFitView
<1> QED
  BY <1>2, HistoryInvariant, PTL

\* A caught-up Hub shows every turn of the latest page as the Gateway has it:
\* no change of a message is lost between a load and the events, whatever the
\* sizes of the buffer and of the channel.
THEOREM CaughtUpCurrent == Spec => []CaughtUpShowsLatest
<1>1. ASSUME HInv, CaughtUp, NEW i \in DOMAIN loadGatewayHistoryTurns
      PROVE  Shows(loadGatewayHistoryTurns[i])
  <2>1. stream = "waiting" /\ connection = "up" /\ taken = accepted /\ out = <<>>
    BY <1>1 DEF CaughtUp, Drained
  <2>2. Place = "waiting" /\ Coming = <<>>
    BY <2>1 DEF Place, Coming
  <2>3. Len(queue) = 0
    <3>1. queue \in Seq(GatewayEvent) /\ taken \in Nat /\ accepted = taken + Len(queue)
      BY <1>1 DEF HInv, ConnectionFits, ConnectionTypeOK
    <3>2. Len(queue) \in Nat
      BY <3>1
    <3> QED
      BY <2>1, <3>1, <3>2
  <2>4. page = loadGatewayHistoryTurns
    BY <1>1, <2>1, <2>2, <2>3 DEF HInv, Fresh
  <2>5. i \in 1 .. Len(page) /\ page[i] \in TurnRecord /\ TurnOK(page[i])
    <3>1. page \in Seq(TurnRecord) /\ \A k \in 1 .. Len(page) : TurnOK(page[k])
      BY <1>1 DEF HInv, PageKept, PageFits
    <3>2. i \in 1 .. Len(page)
      BY <2>4, <3>1
    <3> QED
      BY <3>1, <3>2, ElementOfSeq
  <2> DEFINE turn == page[i]
  <2>6. turn.id \in Ids /\ turn.messages # <<>>
    BY <2>5 DEF TurnRecord, TurnOK
  <2>7. signatures[turn.id] = turn.messages
    BY <1>1, <2>2, <2>5 DEF HInv, TrackingFits
  <2>8. Tracked(turn.id)
    BY <1>1, <2>6, <2>7 DEF HInv, TrackingFits, Tracked
  <2>9. PICK v : Leads(view, Coming, v) /\ Promises(v)
    BY <1>1, <2>2 DEF HInv, HubFits
  <2>10. v = view
    <3>1. Len(<<>>) = 0
      BY EmptySeq
    <3> QED
      BY <2>2, <2>9, <3>1 DEF Leads
  <2> HIDE DEF turn
  <2>11. view[turn.id] = [revision |-> revisions[turn.id], messages |-> signatures[turn.id]]
    BY <2>6, <2>8, <2>9, <2>10 DEF Promises
  <2> QED
    BY <2>4, <2>7, <2>11 DEF Shows, turn
<1>2. HInv => CaughtUpShowsLatest
  BY <1>1 DEF CaughtUpShowsLatest
<1> QED
  BY <1>2, HistoryInvariant, PTL

\* What is remembered of turns that were sent never outgrows a page: between
\* events it is one revision and one signature for each turn of the page.
THEOREM TrackingBounded == Spec => []TrackingIsBounded
<1>1. ASSUME HInv, stream = "waiting"
      PROVE  {id \in Ids : revisions[id] # 0} = {page[i].id : i \in DOMAIN page}
  <2>1. Place = "waiting"
    BY <1>1 DEF Place
  <2>2. page \in Seq(TurnRecord) /\ DOMAIN page = 1 .. Len(page) /\ position = Len(page)
        /\ \A i \in 1 .. Len(page) : page[i] \in TurnRecord /\ TurnOK(page[i])
    <3>1. page \in Seq(TurnRecord) /\ \A i \in 1 .. Len(page) : TurnOK(page[i])
      BY <1>1 DEF HInv, PageKept, PageFits
    <3> QED
      BY <1>1, <2>1, <3>1, ElementOfSeq DEF HInv, TrackingFits
  <2>3. \A id \in Ids : revisions[id] # 0 => \E i \in 1 .. Len(page) : page[i].id = id
    BY <1>1, <2>1 DEF HInv, TrackingFits, Tracked, Lists
  <2>4. \A i \in 1 .. Len(page) : page[i].id \in Ids /\ page[i].messages # <<>>
    BY <2>2 DEF TurnRecord, TurnOK
  <2>5. \A i \in 1 .. Len(page) : signatures[page[i].id] = page[i].messages
    BY <1>1, <2>1, <2>2 DEF HInv, TrackingFits
  <2>6. \A i \in 1 .. Len(page) : revisions[page[i].id] # 0
    BY <1>1, <2>4, <2>5 DEF HInv, TrackingFits
  <2> QED
    BY <2>2, <2>3, <2>4, <2>6
<1>2. ASSUME HInv
      PROVE  \A id \in Ids : revisions[id] = 0 <=> signatures[id] = <<>>
  BY <1>2 DEF HInv, TrackingFits
<1>3. HInv => TrackingIsBounded
  BY <1>1, <1>2 DEF TrackingIsBounded
<1> QED
  BY <1>3, HistoryInvariant, PTL

\* A stream ends with an end or an error event unless its context was
\* cancelled, wherever the connection breaks or a load fails.
THEOREM EndAnnounced == Spec => []EndIsAnnounced
<1>1. HInv => EndIsAnnounced
  BY DEF HInv, SendingFits, EndIsAnnounced
<1> QED
  BY <1>1, HistoryInvariant, PTL

\* gatewayHistoryTurns (history_stream.go): whatever the history, the window
\* and the limit, the page has one turn for each of the latest heads, newest
\* first, with all that was said up to the next head and nothing else.
THEOREM PagesGrouped == Spec => []PageIsGrouped
<1>1. HInv => PageIsGrouped
  <2> SUFFICES ASSUME HInv PROVE PageIsGrouped
    OBVIOUS
  <2>1. Latest(messages, Window) \in Seq(Message) /\ Ascending(Latest(messages, Window))
    BY WindowElements DEF HInv
  <2> QED
    BY <2>1, WindowPaged DEF PageIsGrouped, loadGatewayHistoryTurns
<1> QED
  BY <1>1, HistoryInvariant, PTL
-----------------------------------------------------------------------------
(* What the Hub is told of a turn only moves forward.                      *)

\* turn is of the history m, and continues what view v shows under its id and
\* what the first n events of q say of it.
Supersedes(turn, m, v, q, n) ==
  /\ Feed!Had(m, turn.id, turn.messages)
  /\ Feed!Continues(v[turn.id].messages, turn.messages)
  /\ \A i \in 1 .. n : q[i].type = "turn" /\ q[i].turn.id = turn.id =>
       Feed!Continues(q[i].turn.messages, turn.messages)

\* What v shows is of the history, and each event of q continues it and the
\* events before.
Forward(m, v, q) ==
  /\ \A id \in Ids : Feed!Had(m, id, v[id].messages)
  /\ \A j \in 1 .. Len(q) : q[j].type = "turn" => Supersedes(q[j].turn, m, v, q, j - 1)

\* The turns of the page that are still to be handled continue all that is
\* on its way.
NewsFits ==
  /\ Forward(messages, view, Coming)
  /\ Place \in {"initial", "updating"} =>
       \A k \in (position + 1) .. Len(page) :
         Supersedes(page[k], messages, view, Coming, Len(Coming))

\* A step of the Gateway is one of the promise, and no other step touches the
\* history.
LEMMA HistoryChanged ==
  ASSUME HistoryFits, [Next]_vars
  PROVE  messages' = messages \/ Feed!HistoryChanges
<1>1. ASSUME NEW role \in Roles, AddToHistory(role)
      PROVE  Feed!HistoryChanges
  BY <1>1 DEF AddToHistory, Feed!HistoryChanges, Roles, hubVars
<1>2. ASSUME NEW k \in Ids, EditMessage(k)
      PROVE  Feed!HistoryChanges
  <2>1. k \in DOMAIN messages
    BY <1>2 DEF EditMessage, Ids, HistoryFits
  <2> QED
    BY <1>2, <2>1 DEF EditMessage, Feed!HistoryChanges, hubVars
<1>3. CASE \/ ReadHistoryStream \/ Cancel \/ HubReceives \/ IdleTimeout \/ ConnectionLost
           \/ (\E e \in GatewayEvent : OtherEvent(e)) \/ UNCHANGED vars
  BY <1>3
     DEF ReadHistoryStream, Cancel, HubReceives, IdleTimeout, EventsEnd, ConnectionLost,
         OtherEvent, vars, historyVars
<1>4. CASE StreamStep
  BY <1>4
     DEF StreamStep, sendGatewayHistoryEvent, LoadInitial, SendInitialTurn, EndPage, NextEvent,
         Reload, SkipTurn, SendLiveTurn, ForgetOldTurns, ConnectionEnds, ContextEnds, EventsEnd,
         historyVars
<1> QED
  BY <1>1, <1>2, <1>3, <1>4 DEF Next, GatewayStep

\* A message keeps its role and moves to later versions only.
LEMMA VersionsGrow ==
  ASSUME HistoryFits, HistoryFits', messages' = messages \/ Feed!HistoryChanges
  PROVE  /\ Len(messages) \in Nat /\ Len(messages') \in Nat /\ Len(messages) <= Len(messages')
         /\ \A i \in 1 .. Len(messages) :
              /\ messages[i].version \in Nat /\ messages'[i].version \in Nat
              /\ messages'[i].role = messages[i].role
              /\ messages[i].version <= messages'[i].version
<1>1. /\ messages \in Seq(Message) /\ Len(messages) \in Nat
      /\ messages' \in Seq(Message) /\ Len(messages') \in Nat
  BY DEF HistoryFits
<1>2. /\ \A i \in 1 .. Len(messages) : messages[i].version \in Nat
      /\ \A i \in 1 .. Len(messages') : messages'[i].version \in Nat
  <2>1. /\ \A i \in 1 .. Len(messages) : messages[i] \in Message
        /\ \A i \in 1 .. Len(messages') : messages'[i] \in Message
    BY <1>1, ElementOfSeq
  <2> QED
    BY <2>1 DEF Message
<1>3. CASE messages' = messages
  BY <1>1, <1>2, <1>3
<1>4. ASSUME NEW m, messages' = Append(messages, m)
      PROVE  /\ Len(messages) <= Len(messages')
             /\ \A i \in 1 .. Len(messages) : messages'[i] = messages[i]
  BY <1>1, <1>4
<1>5. ASSUME NEW k \in DOMAIN messages, messages' = [messages EXCEPT ![k].version = @ + 1]
      PROVE  /\ Len(messages) = Len(messages')
             /\ \A i \in 1 .. Len(messages) :
                  messages'[i].role = messages[i].role
                    /\ messages[i].version <= messages'[i].version
  <2>1. Len(messages') = Len(messages)
    BY <1>1, <1>5
  <2>2. ASSUME NEW i \in 1 .. Len(messages)
        PROVE  messages'[i].role = messages[i].role
                 /\ messages[i].version <= messages'[i].version
    <3>1. CASE i # k
      BY <1>1, <1>2, <1>5, <2>2, <3>1
    <3>2. CASE i = k
      <4>1. messages'[i] = [messages[i] EXCEPT !.version = @ + 1]
        BY <1>1, <1>5, <3>2
      <4>2. messages[i] \in [id : Ids, role : Roles, version : 0 .. MaxEdits]
        BY <1>1, <3>2, ElementOfSeq DEF Message
      <4>3. messages'[i].version = messages[i].version + 1
            /\ messages'[i].role = messages[i].role
        BY <4>1, <4>2
      <4> QED
        BY <1>2, <4>3
    <3> QED
      BY <3>1, <3>2
  <2> QED
    BY <2>1, <2>2
<1>6. CASE Feed!HistoryChanges
  <2>1. CASE \E role \in {"user", "assistant", "other"} :
               messages' = Append(messages,
                                  [id |-> Len(messages) + 1, role |-> role, version |-> 0])
    <3>1. /\ Len(messages) <= Len(messages')
          /\ \A i \in 1 .. Len(messages) : messages'[i] = messages[i]
      BY <1>4, <2>1
    <3> QED
      BY <1>1, <1>2, <3>1
  <2>2. CASE \E k \in DOMAIN messages : messages' = [messages EXCEPT ![k].version = @ + 1]
    <3>1. PICK k \in DOMAIN messages : messages' = [messages EXCEPT ![k].version = @ + 1]
      BY <2>2
    <3>2. /\ Len(messages) = Len(messages')
          /\ \A i \in 1 .. Len(messages) :
               messages'[i].role = messages[i].role
                 /\ messages[i].version <= messages'[i].version
      BY <1>5, <3>1
    <3> QED
      BY <1>1, <1>2, <3>2
  <2> QED
    BY <1>6, <2>1, <2>2 DEF Feed!HistoryChanges
<1> QED
  BY <1>3, <1>6

\* What was shown rightly stays so.
LEMMA HadStays ==
  ASSUME HistoryFits, HistoryFits', [Next]_vars, NEW id \in Nat, NEW x \in Seq(Message),
         Feed!Had(messages, id, x)
  PROVE  Feed!Had(messages', id, x)
<1>1. /\ Len(messages) \in Nat /\ Len(messages') \in Nat /\ Len(messages) <= Len(messages')
      /\ \A i \in 1 .. Len(messages) :
           /\ messages[i].version \in Nat /\ messages'[i].version \in Nat
           /\ messages'[i].role = messages[i].role
           /\ messages[i].version <= messages'[i].version
  BY HistoryChanged, VersionsGrow
<1>2. DOMAIN messages = 1 .. Len(messages) /\ DOMAIN messages' = 1 .. Len(messages')
  BY DEF HistoryFits
<1>3. ASSUME NEW i \in 1 .. Len(messages)
      PROVE  i \in Feed!Said(messages', id) <=> i \in Feed!Said(messages, id)
  <2>1. \A j \in 1 .. Len(messages') : j <= i => j \in 1 .. Len(messages)
    BY <1>1
  <2>2. \A j \in 1 .. Len(messages) : j \in 1 .. Len(messages')
    BY <1>1
  <2> QED
    BY <1>1, <1>2, <2>1, <2>2 DEF Feed!Said
<1>4. ASSUME NEW k \in DOMAIN x
      PROVE  /\ x[k].id \in Feed!Said(messages', id)
             /\ x[k].version <= messages'[x[k].id].version
             /\ {i \in Feed!Said(messages', id) : i < x[k].id} = {x[j].id : j \in 1 .. (k - 1)}
  <2> DEFINE s == x[k].id
  <2>1. /\ s \in Feed!Said(messages, id) /\ x[k].version <= messages[s].version
        /\ {i \in Feed!Said(messages, id) : i < s} = {x[j].id : j \in 1 .. (k - 1)}
    BY DEF Feed!Had
  <2>2. x[k].version \in Nat
    <3>1. x[k] \in Message
      OBVIOUS
    <3> QED
      BY <3>1 DEF Message
  <2> HIDE DEF s
  <2>3. s \in 1 .. Len(messages)
    BY <1>2, <2>1 DEF Feed!Said
  <2>4. \A i \in Feed!Said(messages', id) : i < s => i \in 1 .. Len(messages)
    BY <1>1, <1>2, <2>3 DEF Feed!Said
  <2>5. \A i \in Feed!Said(messages, id) : i \in 1 .. Len(messages)
    BY <1>2 DEF Feed!Said
  <2>6. {i \in Feed!Said(messages', id) : i < s} = {i \in Feed!Said(messages, id) : i < s}
    BY <1>3, <2>4, <2>5
  <2>7. x[k].version <= messages'[s].version
    BY <1>1, <2>1, <2>2, <2>3
  <2> QED
    BY <1>3, <2>1, <2>3, <2>6, <2>7 DEF s
<1> QED
  BY <1>4 DEF Feed!Had

\* A turn of a loaded page is all that is said from its id on, as it is.
LEMMA PageComplete ==
  ASSUME HistoryFits, NEW n \in 1 .. Len(loadGatewayHistoryTurns)
  PROVE  LET r == loadGatewayHistoryTurns[n]
         IN  \E e : /\ Enumerates(e, Feed!Said(messages, r.id))
                    /\ Len(e) = Len(r.messages)
                    /\ \A k \in 1 .. Len(e) : r.messages[k] = messages[e[k]]
<1> DEFINE w == Latest(messages, Window)
           off == Len(messages) - Len(w)
           t == FoldLeft(AddMessage, <<>>, w)
           p == loadGatewayHistoryTurns
<1>1. /\ w \in Seq(Message) /\ Len(w) \in Nat /\ off \in Nat
      /\ Len(messages) \in Nat /\ off + Len(w) = Len(messages)
      /\ \A k \in 1 .. Len(w) : w[k] = messages[off + k] /\ w[k].id = off + k
      /\ Ascending(w)
  BY WindowElements
<1>2. PICK heads : Placed(t, w, Len(w), heads)
  BY <1>1, WindowPlaced
<1>3. Grouped(t, w, Len(w))
  BY <1>1, <1>2, WindowGroups
<1>4. p = Reverse(Latest(t, Limit))
  BY DEF gatewayHistoryTurns, loadGatewayHistoryTurns
<1> HIDE DEF w, off, t
<1>5. /\ Len(p) = IF Len(t) > Limit THEN Limit ELSE Len(t)
      /\ \A i \in 1 .. Len(p) : p[i] = t[Len(t) + 1 - i]
  BY <1>3, <1>4, TurnsToPage
<1> DEFINE i == Len(t) + 1 - n
<1>6. i \in 1 .. Len(t) /\ p[n] = t[i]
  <2>1. Limit \in Nat \ {0} /\ Len(t) \in Nat /\ n \in 1 .. Len(p)
    BY <1>3 DEF Grouped
  <2>2. n <= Len(t) /\ n \in Nat \ {0}
    BY <1>5, <2>1
  <2> QED
    BY <1>5, <2>1, <2>2
<1> HIDE DEF i, p
<1> DEFINE h == heads[i]
<1>7. /\ h \in Heads(w) /\ h \in 1 .. Len(w) /\ TurnPlaced(t[i], w, h, Len(w))
  <2>1. TurnPlaced(t[i], w, h, Len(w)) /\ i \in 1 .. Len(heads)
    BY <1>2, <1>6 DEF Placed
  <2>2. h \in UpTo(Heads(w), Len(w))
    BY <1>2, <2>1 DEF Placed, Enumerates
  <2>3. h \in Heads(w)
    BY <2>2 DEF UpTo
  <2>4. h \in Spoken(w)
    BY <1>1, <2>3, PositionsAreNumbers
  <2>5. h \in 1 .. Len(w)
    BY <1>1, <2>4 DEF Spoken
  <2> QED
    BY <2>1, <2>3, <2>5
<1> HIDE DEF h
<1>8. Spoken(w) = {k \in 1 .. Len(w) : w[k].role # "other"} /\ DOMAIN messages = 1 .. Len(messages)
  BY <1>1 DEF Spoken, HistoryFits
\* The positions of the turn, moved by the messages before the window.
<1>9. ASSUME NEW q \in 1 .. Len(w)
      PROVE  q \in TurnAt(w, h) <=> off + q \in Feed!Said(messages, off + h)
  <2>1. q \in Spoken(w) <=> messages[off + q].role # "other"
    BY <1>1, <1>7, <1>8, PositionsAreNumbers
  <2>2. h <= q <=> off + h <= off + q
    BY <1>1, <1>7
  <2>3. ASSUME NEW g \in Heads(w), g <= q, ~(g <= h)
        PROVE  off + g \in DOMAIN messages /\ off + h < off + g /\ off + g <= off + q
               /\ messages[off + g].role = "user"
    <3>1. g \in Spoken(w) /\ g \in 1 .. Len(w)
      BY <1>1, <1>8, PositionsAreNumbers
    <3>2. h \in Spoken(w) /\ ~(\A j \in Spoken(w) : g <= j)
      BY <1>1, <1>7, <2>3, PositionsAreNumbers
    <3>3. w[g].role = "user"
      BY <3>2 DEF Heads
    <3> QED
      BY <1>1, <1>7, <1>8, <2>3, <3>1, <3>3
  <2>4. ASSUME NEW j \in DOMAIN messages, off + h < j, j <= off + q, messages[j].role = "user"
        PROVE  j - off \in Heads(w) /\ j - off <= q /\ ~(j - off <= h)
    <3>1. j - off \in 1 .. Len(w) /\ off + (j - off) = j
      BY <1>1, <1>7, <1>8, <2>4
    <3>2. w[j - off].role = "user"
      BY <1>1, <2>4, <3>1
    <3>3. j - off <= q /\ ~(j - off <= h)
      BY <1>1, <1>7, <1>8, <2>4
    <3> QED
      BY <1>8, <3>1, <3>2, <3>3 DEF Heads
  <2>5. off + q \in DOMAIN messages
    BY <1>1, <1>8
  <2>6. (\A g \in Heads(w) : g <= q => g <= h) <=>
          \A j \in DOMAIN messages :
            off + h < j /\ j <= off + q => messages[j].role # "user"
    BY <2>3, <2>4
  <2>7. q \in TurnAt(w, h) <=>
          q \in Spoken(w) /\ h <= q /\ \A g \in Heads(w) : g <= q => g <= h
    BY DEF TurnAt
  <2>8. off + q \in Feed!Said(messages, off + h) <=>
          /\ off + h <= off + q
          /\ messages[off + q].role # "other"
          /\ \A j \in DOMAIN messages :
               off + h < j /\ j <= off + q => messages[j].role # "user"
    BY <2>5 DEF Feed!Said
  <2> QED
    BY <2>1, <2>2, <2>6, <2>7, <2>8
<1>10. PICK e : /\ Enumerates(e, UpTo(TurnAt(w, h), Len(w)))
                /\ Len(e) = Len(t[i].messages)
                /\ \A k \in 1 .. Len(e) : t[i].messages[k] = w[e[k]]
  BY <1>7 DEF TurnPlaced
<1>11. t[i].id = off + h
  BY <1>1, <1>7 DEF TurnPlaced
<1>12. e \in Seq(Nat) /\ Len(e) \in Nat /\ \A k \in 1 .. Len(e) : e[k] \in 1 .. Len(w)
  <2>1. e \in Seq(Nat) /\ Len(e) \in Nat /\ \A k \in 1 .. Len(e) : e[k] \in TurnAt(w, h)
    BY <1>10 DEF Enumerates, UpTo
  <2> QED
    BY <1>1, <1>8, <2>1, PositionsAreNumbers
<1> DEFINE f == [k \in 1 .. Len(e) |-> off + e[k]]
<1>13. f \in Seq(Nat) /\ Len(f) = Len(e)
  <2>1. \A k \in 1 .. Len(e) : off + e[k] \in Nat
    BY <1>1, <1>12
  <2> QED
    BY <1>12, <2>1
<1>14. \A k \in 1 .. Len(e) : f[k] = off + e[k]
  OBVIOUS
<1> HIDE DEF f
<1>15. \A j, k \in 1 .. Len(f) : j < k => f[j] < f[k]
  <2>1. \A j, k \in 1 .. Len(e) : j < k => e[j] < e[k]
    BY <1>10 DEF Enumerates
  <2> QED
    BY <1>1, <1>12, <1>13, <1>14, <2>1
<1>16. ASSUME NEW x
       PROVE  x \in Feed!Said(messages, off + h) <=> \E k \in 1 .. Len(f) : f[k] = x
  <2>1. ASSUME x \in Feed!Said(messages, off + h)
        PROVE  \E k \in 1 .. Len(f) : f[k] = x
    <3>1. x \in 1 .. Len(messages) /\ off + h <= x
      BY <1>8, <2>1 DEF Feed!Said
    <3>2. x - off \in 1 .. Len(w) /\ off + (x - off) = x
      BY <1>1, <1>7, <3>1
    <3>3. x - off \in TurnAt(w, h)
      BY <1>9, <2>1, <3>2
    <3>4. x - off \in UpTo(TurnAt(w, h), Len(w))
      BY <1>1, <3>2, <3>3 DEF UpTo
    <3>5. PICK k \in 1 .. Len(e) : e[k] = x - off
      BY <1>10, <3>4 DEF Enumerates
    <3> QED
      BY <1>13, <1>14, <3>2, <3>5
  <2>2. ASSUME NEW k \in 1 .. Len(f)
        PROVE  f[k] \in Feed!Said(messages, off + h)
    <3>1. e[k] \in TurnAt(w, h) /\ e[k] \in 1 .. Len(w)
      BY <1>10, <1>12, <1>13 DEF Enumerates, UpTo
    <3> QED
      BY <1>9, <1>13, <1>14, <3>1
  <2> QED
    BY <2>1, <2>2
<1>17. Enumerates(f, Feed!Said(messages, off + h))
  BY <1>13, <1>15, <1>16 DEF Enumerates
<1>18. \A k \in 1 .. Len(f) : t[i].messages[k] = messages[f[k]]
  BY <1>1, <1>10, <1>12, <1>13, <1>14
<1> QED
  BY <1>6, <1>10, <1>11, <1>13, <1>17, <1>18 DEF p

\* So it continues whatever was shown of the turn.
LEMMA CompleteContinues ==
  ASSUME HistoryFits, NEW id \in Nat, NEW ms \in Seq(Message),
         NEW e, Enumerates(e, Feed!Said(messages, id)), Len(e) = Len(ms),
         \A k \in 1 .. Len(e) : ms[k] = messages[e[k]]
  PROVE  /\ Feed!Had(messages, id, ms)
         /\ \A x \in Seq(Message) : Feed!Had(messages, id, x) => Feed!Continues(x, ms)
<1> DEFINE S == Feed!Said(messages, id)
<1>1. /\ e \in Seq(Nat) /\ Len(e) \in Nat /\ DOMAIN ms = 1 .. Len(e)
      /\ \A i, j \in 1 .. Len(e) : i < j => e[i] < e[j]
      /\ \A y : y \in S <=> \E i \in 1 .. Len(e) : e[i] = y
  BY DEF Enumerates
<1>2. \A k \in 1 .. Len(e) : e[k] \in Nat /\ ms[k].id = e[k] /\ ms[k] = messages[e[k]]
  <2>1. \A y \in S : y \in 1 .. Len(messages) /\ messages[y].id = y
    BY DEF HistoryFits, Feed!Said
  <2> HIDE DEF S
  <2> QED
    BY <1>1, <2>1
<1>3. \A k \in 1 .. Len(e) : messages[e[k]].version \in Int
  <2>1. \A k \in 1 .. Len(e) : ms[k] \in Message
    BY <1>1
  <2> QED
    BY <1>2, <2>1 DEF Message
<1>4. ASSUME NEW k \in 1 .. Len(e)
      PROVE  /\ ms[k].id \in S
             /\ ms[k].version <= messages[ms[k].id].version
             /\ {i \in S : i < ms[k].id} = {ms[j].id : j \in 1 .. (k - 1)}
  <2> HIDE DEF S
  <2>1. ms[k].id \in S /\ ms[k].version <= messages[ms[k].id].version
    BY <1>1, <1>2, <1>3
  <2>2. \A j \in 1 .. (k - 1) : j \in 1 .. Len(e) /\ ms[j].id = e[j] /\ e[j] \in S /\ e[j] < e[k]
    BY <1>1, <1>2
  <2>3. ASSUME NEW i \in S, i < e[k]
        PROVE  \E j \in 1 .. (k - 1) : ms[j].id = i
    <3>1. PICK j \in 1 .. Len(e) : e[j] = i
      BY <1>1
    <3>2. ~(k < j) /\ j # k
      BY <1>1, <1>2, <2>3, <3>1
    <3>3. j \in 1 .. (k - 1)
      BY <1>1, <3>2
    <3> QED
      BY <1>2, <3>1, <3>3
  <2> QED
    BY <1>2, <2>1, <2>2, <2>3
<1>5. Feed!Had(messages, id, ms)
  BY <1>1, <1>4 DEF Feed!Had
<1>6. ASSUME NEW x \in Seq(Message), Feed!Had(messages, id, x)
      PROVE  Feed!Continues(x, ms)
  <2>0. DOMAIN x = 1 .. Len(x) /\ Len(x) \in Nat
    OBVIOUS
  <2>1. \A k \in 1 .. Len(x) :
          /\ x[k].id \in S /\ x[k].version <= messages[x[k].id].version
          /\ {i \in S : i < x[k].id} = {x[j].id : j \in 1 .. (k - 1)}
    BY <1>6, <2>0, Zenon DEF Feed!Had
  <2> HIDE DEF S
  <2> DEFINE P == {n \in Nat : n <= Len(x) => n <= Len(e) /\ \A k \in 1 .. n : x[k].id = e[k]}
  <2>2. 0 \in P
    BY <1>1
  <2>3. ASSUME NEW n \in Nat, n \in P, n + 1 <= Len(x)
        PROVE  n + 1 <= Len(e) /\ \A k \in 1 .. n + 1 : x[k].id = e[k]
    <3>1. n <= Len(e) /\ n + 1 \in 1 .. Len(x) /\ \A k \in 1 .. n : x[k].id = e[k]
      BY <2>0, <2>1, <2>3
    <3>2. PICK m \in 1 .. Len(e) : e[m] = x[n + 1].id
      BY <1>1, <2>0, <2>1, <3>1
    <3>3. {i \in S : i < e[m]} = {x[j].id : j \in 1 .. n}
      BY <2>0, <2>1, <3>1, <3>2
    <3>4. ~(m <= n)
      <4> SUFFICES ASSUME m <= n PROVE FALSE
        OBVIOUS
      <4>1. m \in 1 .. n /\ x[m].id = e[m]
        BY <1>1, <3>1
      <4>2. e[m] \in {i \in S : i < e[m]}
        BY <3>3, <4>1
      <4> QED
        BY <1>2, <4>2
    <3>5. ~(n + 1 < m)
      <4> SUFFICES ASSUME n + 1 < m PROVE FALSE
        OBVIOUS
      <4>1. n + 1 \in 1 .. Len(e) /\ e[n + 1] < e[m] /\ e[n + 1] \in S
        BY <1>1
      <4>2. PICK j \in 1 .. n : x[j].id = e[n + 1]
        BY <3>3, <4>1
      <4>3. j \in 1 .. Len(e) /\ j < n + 1 /\ e[j] = e[n + 1]
        BY <1>1, <3>1, <4>2
      <4> QED
        BY <1>1, <1>2, <4>1, <4>3
    <3>6. m = n + 1
      BY <1>1, <3>4, <3>5
    <3>7. \A k \in 1 .. n + 1 : k \in 1 .. n \/ k = n + 1
      OBVIOUS
    <3> QED
      BY <3>1, <3>2, <3>6, <3>7
  <2>4. Nat \subseteq P
    <3>1. ASSUME NEW n \in Nat, n \in P PROVE n + 1 \in P
      <4>1. n + 1 <= Len(x) => n + 1 <= Len(e) /\ \A k \in 1 .. n + 1 : x[k].id = e[k]
        BY <2>3, <3>1
      <4> QED
        BY <4>1
    <3> HIDE DEF P
    <3> QED
      BY <2>2, <3>1, EveryNumber
  <2>5. Len(x) <= Len(e) /\ \A k \in 1 .. Len(x) : x[k].id = e[k]
    BY <2>0, <2>4
  <2>6. \A k \in 1 .. Len(x) : k \in 1 .. Len(e) /\ x[k].id = ms[k].id
                                /\ x[k].version <= ms[k].version
    BY <1>1, <1>2, <2>0, <2>1, <2>5
  <2> QED
    BY <1>1, <2>0, <2>5, <2>6 DEF Feed!Continues
<1> QED
  BY <1>5, <1>6

\* One more event, with news of its turn or of none.
LEMMA ForwardAppend ==
  ASSUME NEW S, NEW q \in Seq(S), NEW e \in S, NEW m, NEW v, Forward(m, v, q),
         e.type = "turn" => Supersedes(e.turn, m, v, q, Len(q))
  PROVE  /\ Forward(m, v, Append(q, e))
         /\ \A turn : /\ Supersedes(turn, m, v, q, Len(q))
                      /\ e.type = "turn" => e.turn.id # turn.id
                      => Supersedes(turn, m, v, Append(q, e), Len(Append(q, e)))
<1> DEFINE r == Append(q, e)
<1>1. /\ Len(r) = Len(q) + 1 /\ Len(q) \in Nat /\ r[Len(q) + 1] = e
      /\ \A k \in 1 .. Len(q) : r[k] = q[k]
  BY AppendProperties
<1> HIDE DEF r
<1>2. \A n \in 0 .. Len(q) : \A turn : Supersedes(turn, m, v, q, n) => Supersedes(turn, m, v, r, n)
  <2> SUFFICES ASSUME NEW n \in 0 .. Len(q), NEW turn, Supersedes(turn, m, v, q, n)
               PROVE  Supersedes(turn, m, v, r, n)
    OBVIOUS
  <2>1. \A i \in 1 .. n : r[i] = q[i]
    BY <1>1
  <2> QED
    BY <2>1 DEF Supersedes
<1>3. ASSUME NEW j \in 1 .. Len(r), r[j].type = "turn"
      PROVE  Supersedes(r[j].turn, m, v, r, j - 1)
  <2>1. CASE j = Len(q) + 1
    <3>1. r[j] = e /\ j - 1 = Len(q) /\ Len(q) \in 0 .. Len(q)
      BY <1>1, <2>1
    <3>2. Supersedes(e.turn, m, v, r, Len(q))
      BY <1>2, <1>3, <3>1
    <3> QED
      BY <3>1, <3>2
  <2>2. CASE j \in 1 .. Len(q)
    <3>1. r[j] = q[j] /\ j - 1 \in 0 .. Len(q)
      BY <1>1, <2>2
    <3>2. Supersedes(q[j].turn, m, v, q, j - 1)
      BY <1>3, <2>2, <3>1 DEF Forward
    <3> QED
      BY <1>2, <3>1, <3>2
  <2> QED
    BY <1>1, <2>1, <2>2
<1>4. ASSUME NEW turn, Supersedes(turn, m, v, q, Len(q)), e.type = "turn" => e.turn.id # turn.id
      PROVE  Supersedes(turn, m, v, r, Len(r))
  <2>1. \A i \in 1 .. Len(r) : i \in 1 .. Len(q) \/ r[i] = e
    BY <1>1
  <2>2. \A i \in 1 .. Len(r) : r[i].type = "turn" /\ r[i].turn.id = turn.id =>
          i \in 1 .. Len(q) /\ r[i] = q[i]
    BY <1>1, <1>4, <2>1
  <2> QED
    BY <1>4, <2>2 DEF Supersedes
<1>5. Forward(m, v, r)
  BY <1>3 DEF Forward
<1> QED
  BY <1>4, <1>5 DEF r

\* The last event is not sent after all.
LEMMA ForwardFront ==
  ASSUME NEW S, NEW q \in Seq(S), NEW e \in S, NEW m, NEW v, Forward(m, v, Append(q, e))
  PROVE  Forward(m, v, q)
<1> DEFINE r == Append(q, e)
<1>1. /\ Len(r) = Len(q) + 1 /\ Len(q) \in Nat
      /\ \A k \in 1 .. Len(q) : r[k] = q[k]
  BY AppendProperties
<1> HIDE DEF r
<1>2. ASSUME NEW j \in 1 .. Len(q), q[j].type = "turn"
      PROVE  Supersedes(q[j].turn, m, v, q, j - 1)
  <2>1. j \in 1 .. Len(r) /\ r[j] = q[j] /\ \A i \in 1 .. (j - 1) : r[i] = q[i]
    BY <1>1
  <2>2. Supersedes(q[j].turn, m, v, r, j - 1)
    BY <1>2, <2>1 DEF Forward, r
  <2> QED
    BY <2>1, <2>2 DEF Supersedes
<1> QED
  BY <1>2 DEF Forward

\* The Hub receives the first event.
LEMMA ForwardTail ==
  ASSUME NEW q \in Seq(Sendable), q # <<>>, NEW m, NEW v \in Views, Forward(m, v, q)
  PROVE  /\ Forward(m, Shown(v, Head(q)), Tail(q))
         /\ \A turn \in TurnRecord :
              Supersedes(turn, m, v, q, Len(q)) =>
                Supersedes(turn, m, Shown(v, Head(q)), Tail(q), Len(Tail(q)))
<1> DEFINE e == Head(q)
           r == Tail(q)
           u == Shown(v, e)
<1>1. /\ Len(q) \in Nat \ {0} /\ e = q[1] /\ Len(r) = Len(q) - 1 /\ r \in Seq(Sendable)
      /\ \A k \in 1 .. Len(q) - 1 : r[k] = q[k + 1]
  BY EmptySeq, HeadTailProperties
<1>2. e \in Sendable /\ 1 \in 1 .. Len(q)
  BY <1>1, ElementOfSeq
<1>3. e.type = "turn" => e.turn.id \in Ids
  BY <1>2, EventParts DEF Sendable
<1>4. \A id \in Ids : u[id].messages =
        IF e.type = "turn" /\ e.turn.id = id THEN e.turn.messages ELSE v[id].messages
  BY <1>3 DEF Shown, Views
<1>5. e.type = "turn" => Supersedes(e.turn, m, v, q, 0)
  BY <1>1, <1>2 DEF Forward
<1> HIDE DEF e, r, u
<1>6. ASSUME NEW turn \in TurnRecord, NEW n \in 1 .. Len(q), Supersedes(turn, m, v, q, n)
      PROVE  Supersedes(turn, m, u, r, n - 1)
  <2>1. turn.id \in Ids
    BY DEF TurnRecord
  <2>2. Feed!Continues(u[turn.id].messages, turn.messages)
    <3>1. CASE e.type = "turn" /\ e.turn.id = turn.id
      <4>1. 1 \in 1 .. n /\ q[1].type = "turn" /\ q[1].turn.id = turn.id
        BY <1>1, <1>6, <3>1
      <4>2. Feed!Continues(q[1].turn.messages, turn.messages)
        BY <1>6, <4>1 DEF Supersedes
      <4> QED
        BY <1>1, <1>4, <2>1, <3>1, <4>2
    <3>2. CASE ~(e.type = "turn" /\ e.turn.id = turn.id)
      BY <1>4, <1>6, <2>1, <3>2 DEF Supersedes
    <3> QED
      BY <3>1, <3>2
  <2>3. \A i \in 1 .. (n - 1) : i + 1 \in 1 .. n /\ r[i] = q[i + 1]
    BY <1>1
  <2>4. \A i \in 1 .. (n - 1) : r[i].type = "turn" /\ r[i].turn.id = turn.id =>
          Feed!Continues(r[i].turn.messages, turn.messages)
    BY <1>6, <2>3 DEF Supersedes
  <2> QED
    BY <1>6, <2>2, <2>4 DEF Supersedes
<1>7. ASSUME NEW id \in Ids
      PROVE  Feed!Had(m, id, u[id].messages)
  BY <1>4, <1>5 DEF Forward, Supersedes
<1>8. ASSUME NEW j \in 1 .. Len(r), r[j].type = "turn"
      PROVE  Supersedes(r[j].turn, m, u, r, j - 1)
  <2>1. j + 1 \in 1 .. Len(q) /\ r[j] = q[j + 1] /\ (j + 1) - 1 = j /\ j \in 1 .. Len(q)
    BY <1>1
  <2>2. Supersedes(r[j].turn, m, v, q, j)
    BY <1>8, <2>1 DEF Forward
  <2>3. r[j].turn \in TurnRecord
    <3>1. r[j] \in StreamEvents
      BY <1>1, ElementOfSeq DEF Sendable
    <3> QED
      BY <1>8, <3>1, EventParts
  <2> QED
    BY <1>6, <2>1, <2>2, <2>3
<1>9. Forward(m, u, r)
  BY <1>7, <1>8 DEF Forward
<1>10. \A turn \in TurnRecord :
         Supersedes(turn, m, v, q, Len(q)) => Supersedes(turn, m, u, r, Len(r))
  <2>1. Len(q) \in 1 .. Len(q) /\ Len(q) - 1 = Len(r)
    BY <1>1
  <2> QED
    BY <1>6, <2>1
<1> QED
  BY <1>9, <1>10 DEF e, r, u

\* The history moves on under it all.
LEMMA ForwardStays ==
  ASSUME HistoryFits, HistoryFits', [Next]_vars, NEW q \in Seq(Sendable), NEW v \in Views
  PROVE  /\ \A turn \in TurnRecord, n \in Nat :
              Supersedes(turn, messages, v, q, n) => Supersedes(turn, messages', v, q, n)
         /\ Forward(messages, v, q) => Forward(messages', v, q)
<1>1. \A id \in Ids, x \in Seq(Message) :
        Feed!Had(messages, id, x) => Feed!Had(messages', id, x)
  BY HadStays DEF Ids
<1>2. ASSUME NEW turn \in TurnRecord, NEW n \in Nat, Supersedes(turn, messages, v, q, n)
      PROVE  Supersedes(turn, messages', v, q, n)
  BY <1>1, <1>2 DEF Supersedes, TurnRecord
<1>3. ASSUME Forward(messages, v, q)
      PROVE  Forward(messages', v, q)
  <2>1. ASSUME NEW j \in 1 .. Len(q), q[j].type = "turn"
        PROVE  Supersedes(q[j].turn, messages', v, q, j - 1)
    <3>1. q[j] \in StreamEvents
      BY ElementOfSeq DEF Sendable
    <3>2. q[j].turn \in TurnRecord /\ j - 1 \in Nat
      BY <2>1, <3>1, EventParts
    <3> QED
      BY <1>2, <1>3, <2>1, <3>2 DEF Forward
  <2>2. \A id \in Ids : Feed!Had(messages', id, v[id].messages)
    BY <1>1, <1>3 DEF Forward, Views
  <2> QED
    BY <2>1, <2>2 DEF Forward
<1> QED
  BY <1>2, <1>3

\* What is on its way consists of events.
LEMMA ComingTypes ==
  ASSUME SendingFits
  PROVE  /\ Coming \in Seq(Sendable) /\ Len(Coming) \in Nat /\ view \in Views
         /\ stream # "sending" => Coming = out
<1>1. CASE stream = "sending"
  <2>1. out \in Seq(Sendable) /\ event \in Sendable /\ Coming = Append(out, event)
    BY <1>1 DEF SendingFits, Coming
  <2> QED
    BY <1>1, <2>1, AppendProperties DEF SendingFits
<1>2. CASE stream # "sending"
  BY <1>2 DEF SendingFits, Coming
<1> QED
  BY <1>1, <1>2

\* A loaded page continues whatever there is of its turns.
LEMMA LoadSupersedes ==
  ASSUME HistoryFits, SendingFits, NewsFits, NEW k \in 1 .. Len(loadGatewayHistoryTurns)
  PROVE  Supersedes(loadGatewayHistoryTurns[k], messages, view, Coming, Len(Coming))
<1> DEFINE p == loadGatewayHistoryTurns
           id == p[k].id
           ms == p[k].messages
<1>1. id \in Ids /\ ms \in Seq(Message)
  <2>1. p \in Seq(TurnRecord)
    BY LoadKept DEF PageFits
  <2>2. p[k] \in TurnRecord
    BY <2>1, ElementOfSeq
  <2> QED
    BY <2>2 DEF TurnRecord
<1>2. PICK e : /\ Enumerates(e, Feed!Said(messages, id))
               /\ Len(e) = Len(ms)
               /\ \A j \in 1 .. Len(e) : ms[j] = messages[e[j]]
  BY PageComplete
<1> HIDE DEF id, ms
<1>3. id \in Nat
  BY <1>1 DEF Ids
<1>4. /\ Feed!Had(messages, id, ms)
      /\ \A x \in Seq(Message) : Feed!Had(messages, id, x) => Feed!Continues(x, ms)
  BY <1>1, <1>2, <1>3, CompleteContinues
<1>5. view[id].messages \in Seq(Message) /\ Feed!Had(messages, id, view[id].messages)
  BY <1>1 DEF SendingFits, Views, NewsFits, Forward
<1>6. ASSUME NEW i \in 1 .. Len(Coming), Coming[i].type = "turn", Coming[i].turn.id = id
      PROVE  Feed!Continues(Coming[i].turn.messages, ms)
  <2>1. Coming[i] \in StreamEvents
    BY ComingTypes, ElementOfSeq DEF Sendable
  <2>2. Coming[i].turn.messages \in Seq(Message)
    BY <1>6, <2>1, EventParts
  <2>3. Feed!Had(messages, id, Coming[i].turn.messages)
    BY <1>6 DEF NewsFits, Forward, Supersedes
  <2> QED
    BY <1>4, <2>2, <2>3
<1> QED
  BY <1>4, <1>5, <1>6 DEF Supersedes, id, ms

\* No step tells the Hub anything but news.
LEMMA NewsHolds ==
  ASSUME HistoryFits, PageKept, TrackingTypes, SendingFits, NewsFits, [Next]_vars
  PROVE  NewsFits'
<1>1. /\ Coming \in Seq(Sendable) /\ Len(Coming) \in Nat /\ view \in Views
      /\ stream # "sending" => Coming = out
  BY ComingTypes
<1>2. HistoryFits'
  BY HistoryHolds
<1>3. /\ page \in Seq(TurnRecord) /\ Len(page) \in Nat /\ position \in Nat
      /\ \A k \in 1 .. Len(page) : page[k] \in TurnRecord
      /\ \A j, k \in 1 .. Len(page) : j # k => page[j].id # page[k].id
  BY ElementOfSeq DEF PageKept, PageFits, TrackingTypes
<1>4. Forward(messages, view, Coming)
  BY DEF NewsFits
\* Steps that send nothing and load nothing.
<1>5. ASSUME UNCHANGED <<view, Coming, page>>, position' \in {position, position + 1},
             Place' \in {"initial", "updating"} => Place' = Place
      PROVE  NewsFits'
  <2>1. Forward(messages', view, Coming)
    BY <1>1, <1>2, <1>4, ForwardStays
  <2>2. ASSUME Place' \in {"initial", "updating"}, NEW k \in (position' + 1) .. Len(page)
        PROVE  Supersedes(page[k], messages', view, Coming, Len(Coming))
    <3>1. k \in (position + 1) .. Len(page) /\ k \in 1 .. Len(page)
      <4>1. position' = position \/ position' = position + 1
        BY <1>5
      <4>2. CASE position' = position
        BY <1>3, <2>2, <4>2
      <4>3. CASE position' = position + 1
        BY <1>3, <2>2, <4>3
      <4> QED
        BY <4>1, <4>2, <4>3
    <3>2. Supersedes(page[k], messages, view, Coming, Len(Coming))
      BY <1>5, <2>2, <3>1 DEF NewsFits
    <3> QED
      BY <1>1, <1>2, <1>3, <3>1, <3>2, ForwardStays
  <2> QED
    BY <1>5, <2>1, <2>2 DEF NewsFits
<1>6. CASE \/ GatewayStep \/ Cancel \/ UNCHANGED vars \/ ReadHistoryStream \/ NextEvent
  <2>1. UNCHANGED <<view, Coming, page, position>>
    BY <1>6
       DEF GatewayStep, AddToHistory, EditMessage, OtherEvent, ConnectionLost, Cancel, vars,
           ReadHistoryStream, NextEvent, sendVars, hubVars, pageVars, Coming
  <2>2. Place' \in {"initial", "updating"} => Place' = Place
    BY <1>6
       DEF GatewayStep, AddToHistory, EditMessage, OtherEvent, ConnectionLost, Cancel, vars,
           ReadHistoryStream, NextEvent, sendVars, Place
  <2> QED
    BY <1>5, <2>1, <2>2
<1>7. CASE SkipTurn \/ ForgetOldTurns
  BY <1>5, <1>7 DEF SkipTurn, ForgetOldTurns, Coming, Place, hubVars
\* A marker is sent.
<1>8. ASSUME NEW type \in {"page_end", "end", "error"}, NEW next \in {"waiting", "closed"},
             Send(Marker(type), next), stream # "sending", out' = out, view' = view,
             messages' = messages
      PROVE  NewsFits'
  <2>1. Marker(type) \in Sendable /\ Marker(type).type # "turn"
    BY MarkersAreEvents
  <2>2. Coming' = Append(Coming, Marker(type)) /\ Place' = next
    BY <1>1, <1>8 DEF Send, Coming, Place
  <2>3. Forward(messages, view, Append(Coming, Marker(type)))
    BY <1>1, <1>4, <2>1, ForwardAppend
  <2> QED
    BY <1>8, <2>2, <2>3 DEF NewsFits
<1>9. CASE EndPage
  BY <1>8, <1>9 DEF EndPage, hubVars, historyVars
<1>10. ASSUME NEW why, EventsEnd(why)
       PROVE  NewsFits'
  <2>1. CASE Return /\ UNCHANGED sendVars
    BY <1>5, <1>10, <2>1 DEF EventsEnd, Return, Place, Coming, hubVars, sendVars, pageVars
  <2>2. CASE Send(Marker("error"), "closed")
    BY <1>8, <1>10, <2>2 DEF EventsEnd, hubVars, historyVars
  <2> QED
    BY <1>10, <2>1, <2>2 DEF EventsEnd
<1>11. CASE ConnectionEnds \/ ContextEnds \/ IdleTimeout
  BY <1>10, <1>11 DEF ConnectionEnds, ContextEnds, IdleTimeout
\* A turn is sent.
<1>12. ASSUME NEW source \in {"initial", "live"}, NEW operation \in {"append", "replace"},
              NEW revision \in Nat \ {0},
              stream \in {"initial", "updating"}, position < Len(page),
              Send(TurnEvent(source, operation, NextTurn, revision), stream),
              position' = position + 1, UNCHANGED <<messages, page, out, view>>
       PROVE  NewsFits'
  <2> DEFINE e == TurnEvent(source, operation, NextTurn, revision)
  <2>1. /\ position + 1 \in 1 .. Len(page) /\ NextTurn = page[position + 1]
        /\ NextTurn \in TurnRecord /\ TurnOK(NextTurn)
    BY <1>12, NextTurnFits
  <2>2. e \in Sendable /\ e.type = "turn" /\ e.turn = NextTurn
    BY <2>1, TurnsAreEvents
  <2>3. Coming' = Append(Coming, e) /\ Place' = stream /\ Place = stream
    BY <1>1, <1>12 DEF Send, Coming, Place
  <2> HIDE DEF e
  <2>4. \A k \in (position + 1) .. Len(page) :
          Supersedes(page[k], messages, view, Coming, Len(Coming))
    BY <1>12, <2>3 DEF NewsFits
  <2>5. Supersedes(e.turn, messages, view, Coming, Len(Coming))
    <3>1. position + 1 \in (position + 1) .. Len(page)
      BY <1>3, <2>1
    <3> QED
      BY <2>1, <2>2, <2>4, <3>1
  <2>6. Forward(messages, view, Coming')
    BY <1>1, <1>4, <2>2, <2>3, <2>5, ForwardAppend
  <2>7. ASSUME NEW k \in (position' + 1) .. Len(page)
        PROVE  Supersedes(page[k], messages, view, Coming', Len(Coming'))
    <3>1. k \in (position + 1) .. Len(page) /\ k \in 1 .. Len(page) /\ k # position + 1
      BY <1>3, <1>12
    <3>2. e.turn.id # page[k].id
      BY <1>3, <2>1, <2>2, <3>1
    <3>3. Supersedes(page[k], messages, view, Coming, Len(Coming))
      BY <2>4, <3>1
    <3> QED
      BY <1>1, <1>4, <2>2, <2>3, <2>5, <3>2, <3>3, ForwardAppend
  <2> QED
    BY <1>12, <2>6, <2>7 DEF NewsFits
<1>13. CASE SendInitialTurn
  BY <1>12, <1>13 DEF SendInitialTurn, historyVars, hubVars
<1>14. CASE SendLiveTurn
  <2> DEFINE operation == IF signatures[NextTurn.id] = <<>> THEN "append" ELSE "replace"
             revision == revisions[NextTurn.id] + 1
  <2>1. revision \in Nat \ {0} /\ operation \in {"append", "replace"}
    BY <1>14, NextTurnFits DEF SendLiveTurn, TrackingTypes
  <2>2. /\ Send(TurnEvent("live", operation, NextTurn, revision), "updating")
        /\ stream = "updating" /\ position < Len(page) /\ position' = position + 1
        /\ UNCHANGED <<messages, page, out, view>>
    BY <1>14 DEF SendLiveTurn, historyVars, hubVars
  <2> HIDE DEF operation, revision
  <2> QED
    BY <1>12, <2>1, <2>2
\* A page is loaded, or that fails.
<1>15. ASSUME NEW next \in {"initial", "updating"}, LoadPage(next), stream # "sending",
              UNCHANGED <<messages, out, view>>
       PROVE  NewsFits'
  <2>1. CASE Send(Marker("error"), "closed")
    BY <1>8, <1>15, <2>1
  <2>2. CASE page' = loadGatewayHistoryTurns /\ position' = 0 /\ stream' = next
    <3>1. \A k \in 1 .. Len(page') : Supersedes(page'[k], messages, view, Coming, Len(Coming))
      BY <2>2, LoadSupersedes
    <3>2. Coming' = Coming
      BY <1>1, <1>15, <2>2 DEF Coming
    <3> QED
      BY <1>4, <1>15, <2>2, <3>1, <3>2 DEF NewsFits
  <2> QED
    BY <1>15, <2>1, <2>2 DEF LoadPage
<1>16. CASE LoadInitial \/ Reload
  BY <1>15, <1>16 DEF LoadInitial, Reload, historyVars, hubVars
<1>17. CASE sendGatewayHistoryEvent
  <2>1. Coming = Append(out, event) /\ UNCHANGED <<messages, view, page, position>>
        /\ event \in Sendable /\ out \in Seq(Sendable)
    BY <1>17 DEF sendGatewayHistoryEvent, Coming, hubVars, pageVars, historyVars, SendingFits
  <2>2. CASE stream' = after /\ out' = Append(out, event)
    <3>1. Coming' = Coming /\ Place' = Place
      BY <1>17, <2>1, <2>2, PlaceOfSending DEF Coming
    <3> QED
      BY <1>5, <2>1, <3>1
  <2>3. CASE stream' = "closed" /\ out' = out
    <3>1. Coming' = out /\ Place' = "closed"
      BY <2>3 DEF Coming, Place
    <3>2. Forward(messages, view, out)
      BY <1>4, <2>1, ForwardFront
    <3> QED
      BY <2>1, <3>1, <3>2 DEF NewsFits
  <2> QED
    BY <1>17, <2>2, <2>3, PlaceOfSending
<1>18. CASE HubReceives
  <2>1. /\ out # <<>> /\ out' = Tail(out) /\ view' = Shown(view, Head(out))
        /\ UNCHANGED <<messages, page, position, stream, after, event>>
    BY <1>18 DEF HubReceives, Shown, sendVars, pageVars, historyVars
  <2>2. /\ Coming' = Tail(Coming) /\ Place' = Place /\ Coming # <<>>
        /\ view' = Shown(view, Head(Coming))
    BY <2>1, ComingTail DEF Coming, Place
  <2>3. Forward(messages, view', Coming')
    BY <1>1, <1>4, <2>2, ForwardTail
  <2>4. ASSUME Place \in {"initial", "updating"}, NEW k \in (position + 1) .. Len(page)
        PROVE  Supersedes(page[k], messages, view', Coming', Len(Coming'))
    <3>1. Supersedes(page[k], messages, view, Coming, Len(Coming)) /\ page[k] \in TurnRecord
      BY <1>3, <2>4 DEF NewsFits
    <3> QED
      BY <1>1, <1>4, <2>2, <3>1, ForwardTail
  <2> QED
    BY <2>1, <2>2, <2>3, <2>4 DEF NewsFits
<1> QED
  BY <1>6, <1>7, <1>9, <1>11, <1>13, <1>14, <1>16, <1>17, <1>18 DEF Next, StreamStep

\* A step is one of the promise, or leaves its variables alone.
LEMMA FeedSteps ==
  ASSUME HInv, NewsFits, OperationsFitView, [Next]_vars
  PROVE  [Feed!FeedNext]_(Feed!feedVars)
<1>1. HistoryFits /\ SendingFits
  BY DEF HInv
<1>2. CASE GatewayStep
  <2>1. view' = view /\ (messages' = messages \/ Feed!HistoryChanges)
    BY <1>1, <1>2, HistoryChanged
       DEF GatewayStep, AddToHistory, EditMessage, OtherEvent, ConnectionLost, hubVars
  <2> QED
    BY <2>1 DEF Feed!FeedNext, Feed!feedVars
<1>3. CASE HubReceives /\ Head(out).type = "turn"
  <2> DEFINE e == Head(out)
             id == e.turn.id
  <2>1. /\ Coming \in Seq(Sendable) /\ Coming # <<>> /\ Head(Coming) = e /\ out # <<>>
        /\ view \in Views /\ messages' = messages
    BY <1>1, <1>3, ComingTail, ComingTypes DEF HubReceives, historyVars
  <2>2. Coming[1] = e /\ 1 \in 1 .. Len(Coming) /\ e \in Sendable
    BY <2>1, EmptySeq, HeadTailProperties
  <2>3. id \in Ids
    BY <1>3, <2>2, EventParts DEF Sendable
  <2>4. Supersedes(e.turn, messages, view, Coming, 1 - 1)
    BY <1>3, <2>2 DEF NewsFits, Forward
  <2>5. e.revision = view[id].revision + 1 /\ e.turn.messages # view[id].messages
    BY <1>3, <2>1 DEF OperationsFitView
  <2>6. view' = [view EXCEPT ![id] = [revision |-> e.revision, messages |-> e.turn.messages]]
    BY <1>3 DEF HubReceives
  <2> HIDE DEF e
  <2>7. view'[id] = [revision |-> e.revision, messages |-> e.turn.messages]
    BY <2>1, <2>3, <2>6 DEF Views
  <2>8. /\ view'[id].revision = view[id].revision + 1
        /\ view'[id].messages = e.turn.messages
    BY <2>5, <2>7
  <2>9. Feed!ShowTurn(id)
    BY <2>1, <2>4, <2>5, <2>6, <2>7, <2>8 DEF Supersedes, Feed!ShowTurn
  <2> QED
    BY <2>3, <2>9 DEF Feed!FeedNext
<1>4. CASE HubReceives /\ Head(out).type # "turn"
  BY <1>4 DEF HubReceives, Feed!feedVars, historyVars
<1>5. CASE ReadHistoryStream \/ Cancel \/ IdleTimeout \/ UNCHANGED vars
  BY <1>5
     DEF ReadHistoryStream, Cancel, IdleTimeout, EventsEnd, vars, historyVars, hubVars,
         Feed!feedVars
<1>6. CASE StreamStep
  BY <1>6
     DEF StreamStep, sendGatewayHistoryEvent, LoadInitial, SendInitialTurn, EndPage, NextEvent,
         Reload, SkipTurn, SendLiveTurn, ForgetOldTurns, ConnectionEnds, ContextEnds, EventsEnd,
         historyVars, hubVars, Feed!feedVars
<1> QED
  BY <1>2, <1>3, <1>4, <1>5, <1>6 DEF Next

\* runHistoryStream: what the Hub shows of a turn only moves forward, one
\* revision at a time, to a longer or later beginning of what the Gateway has,
\* however edits, reloads and the sizes of page, window and channel fall.
THEOREM FeedImplemented == Spec => ImplementsTurnFeed
<1>1. Init => NewsFits
  <2> SUFFICES ASSUME Init PROVE NewsFits
    OBVIOUS
  <2>1. Coming = <<>> /\ Place = "off" /\ \A id \in Ids : view[id].messages = <<>>
    BY DEF Init, Coming, Place
  <2>2. \A id \in Ids : Feed!Had(messages, id, <<>>)
    BY DEF Feed!Had
  <2> QED
    BY <2>1, <2>2, EmptySeq DEF NewsFits, Forward
<1>2. HInv /\ NewsFits /\ [Next]_vars => NewsFits'
  BY NewsHolds DEF HInv
<1>3. Spec => []NewsFits
  BY <1>1, <1>2, HistoryInvariant, PTL DEF Spec
<1>4. Init => Feed!FeedInit
  BY DEF Init, Feed!FeedInit
<1>5. HInv /\ NewsFits /\ OperationsFitView /\ [Next]_vars => [Feed!FeedNext]_(Feed!feedVars)
  BY FeedSteps
<1> QED
  BY <1>3, <1>4, <1>5, HistoryInvariant, OperationsFit, PTL
     DEF Spec, ImplementsTurnFeed, Feed!FeedSpec
=============================================================================
