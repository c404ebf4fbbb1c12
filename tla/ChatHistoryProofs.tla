------------------------ MODULE ChatHistoryProofs ------------------------
(***************************************************************************)
(* ChatHistory: what is stored of a session is never replaced by something *)
(* older, what is deleted stays deleted and nothing shown is forgotten,    *)
(* proved for any sets of sessions and turns and without the bounds of the *)
(* runs mattering.                                                         *)
(*                                                                         *)
(* The first argument is an order of versions. What a session has in the   *)
(* tables is no newer than what any queued command writes of it, later     *)
(* commands write nothing older than earlier ones, and the window, as      *)
(* rendered and then as it is, has nothing older than the last of them.    *)
(* The creation of a session that is there already writes nothing.         *)
(* The second is that a session whose deletion is queued is neither shown  *)
(* nor in a save behind it, nor in the copy that refills emptied tables.   *)
(* The third is the type invariant, with the constraint of the tables: a   *)
(* merge that stops at the first conflict leaves no two turns of a session *)
(* in one place, wherever it stops.                                        *)
(* The fourth is that all copies of a session, shown, rendered, in a save  *)
(* and in the tables, are beginnings of one sequence of turns: no save     *)
(* then meets a conflict, and the last one due has all that is shown.      *)
(* The last, for bursts, follows each message by itself: what is shown is  *)
(* stored, or its own write is still under way.                            *)
(***************************************************************************)
EXTENDS ChatHistory, FiniteSetTheorems, SequenceTheorems, TLAPS

(* A sequence, without naming the set that it is over. *)
IsSeq(q) == q \in Seq(Listed(q))

(* What a command writes of a session when it is executed. *)
Writes(c, s) ==
  \/ c.cmd = "save" /\ s \in DOMAIN c.payload
  \/ c.cmd = "create" /\ Home[c.turn] = s
RevOf(c, s) == IF c.cmd = "save" THEN c.payload[s].rev ELSE c.rev

Bounded(f, n) ==
  /\ DOMAIN f \subseteq Sessions
  /\ \A s \in DOMAIN f : f[s].rev \in Nat /\ f[s].rev <= n

NotAfter(f, g) == \A s \in DOMAIN f \cap DOMAIN g : f[s].rev <= g[s].rev

CommandBounded(c, n) ==
  /\ c.cmd = "save" => DOMAIN c.payload \subseteq Sessions
  /\ c.cmd = "create" => Home[c.turn] \in Sessions
  /\ \A s \in Sessions : Writes(c, s) => RevOf(c, s) \in Nat /\ RevOf(c, s) <= n

(* A command writes nothing newer than f shows, or nothing older than it has. *)
WritesAtMost(c, f) == \A s \in DOMAIN f : Writes(c, s) => RevOf(c, s) <= f[s].rev
WritesAtLeast(c, f) == \A s \in DOMAIN f : Writes(c, s) => f[s].rev <= RevOf(c, s)
WritesInOrder(c, e) ==
  \A s \in Sessions : Writes(c, s) /\ Writes(e, s) => RevOf(c, s) <= RevOf(e, s)

Deletes(c, s) == c.cmd = "delete" /\ c.session = s

(* The command creates a session that will be there when it is executed. *)
Moot(q, d, i) ==
  /\ q[i].cmd = "create" /\ Home[q[i].turn] \in DOMAIN d
  /\ \A k \in DOMAIN q : k < i => ~Deletes(q[k], Home[q[i].turn])

(* The order of versions, for a history h, its rendered form l, the tables d,  *)
(* the backup b, a queue q and a clock n.                                    *)
InVersionOrder(h, l, d, b, q, n) ==
  /\ n \in Nat /\ IsSeq(q)
  /\ Bounded(h, n) /\ Bounded(l, n) /\ Bounded(d, n) /\ Bounded(b, n)
  /\ DOMAIN l \subseteq DOMAIN h
  /\ NotAfter(l, h) /\ NotAfter(d, l) /\ NotAfter(d, h)
  /\ \A i \in DOMAIN q :
       /\ CommandBounded(q[i], n)
       /\ ~Moot(q, d, i) =>
            WritesAtLeast(q[i], d) /\ WritesAtMost(q[i], l) /\ WritesAtMost(q[i], h)
  /\ \A i, j \in DOMAIN q : i < j /\ ~Moot(q, d, i) => WritesInOrder(q[i], q[j])

(* Before the history is loaded only messages of IM users are under way. *)
Early(c) == c.cmd \in {"create", "append"} /\ c.turn \in Inbound

NothingUnderWay ==
  /\ window = "down" => queue = <<>> /\ answers = {}
  /\ window # "ready" =>
       /\ ~timer /\ DOMAIN latest = {}
       /\ \A i \in DOMAIN queue : Early(queue[i])
       /\ \A a \in answers : a.cmd = a.of.cmd /\ Early(a.of)

IInv ==
  \/ undone
  \/ /\ InVersionOrder(history, latest, db, backup.of, queue, clock)
     /\ NothingUnderWay

-----------------------------------------------------------------------------
(* Sequences *)

(* A sequence over any set is one over what it lists.                         *)
LEMMA ListedSeq ==
  ASSUME NEW S, NEW q \in Seq(S)
  PROVE  IsSeq(q)
<1> DEFINE n == Len(q)
           T == Listed(q)
<1>1. n \in Nat /\ q \in [1..n -> S] /\ DOMAIN q = 1..n
  BY LenProperties
<1>2. \A i \in 1..n : q[i] \in T
  BY <1>1 DEF Listed
<1>3. q \in [1..n -> T]
  BY <1>1, <1>2
<1> HIDE DEF n, T
<1>4. q \in Seq(T)
  BY <1>1, <1>3, SeqDef
<1> QED
  BY <1>4 DEF IsSeq, T

(* A command put at the end of the queue stands after all the others.         *)
LEMMA Pushed ==
  ASSUME NEW q, IsSeq(q), NEW c
  PROVE  LET r == q \o <<c>> IN
         /\ IsSeq(r)
         /\ DOMAIN r = DOMAIN q \cup {Len(q) + 1}
         /\ \A i \in DOMAIN q : r[i] = q[i] /\ i \in Nat /\ i < Len(q) + 1
         /\ r[Len(q) + 1] = c
         /\ Len(q) \in Nat
<1> DEFINE S == Listed(q) \cup {c}
           r == q \o <<c>>
<1>1. q \in Seq(S) /\ <<c>> \in Seq(S)
  BY DEF IsSeq, Listed
<1>2. r \in Seq(S) /\ Len(r) = Len(q) + 1 /\ Len(q) \in Nat /\ DOMAIN q = 1..Len(q)
  BY <1>1, ConcatProperties, LenProperties
<1>3. DOMAIN r = 1..(Len(q) + 1)
  BY <1>2, LenProperties
<1>4. \A i \in DOMAIN q : r[i] = q[i] /\ i \in Nat /\ i < Len(q) + 1
  BY <1>1, <1>2, ConcatProperties
<1>5. r[Len(q) + 1] = c
  BY <1>1, <1>2, ConcatProperties
<1>6. IsSeq(r)
  BY <1>2, ListedSeq
<1> QED
  BY <1>2, <1>3, <1>4, <1>5, <1>6

(* Without its first command the queue has the others, one place nearer.       *)
LEMMA Popped ==
  ASSUME NEW q, IsSeq(q), q # <<>>
  PROVE  /\ IsSeq(Tail(q))
         /\ 1 \in DOMAIN q /\ Head(q) = q[1]
         /\ \A i \in DOMAIN Tail(q) :
              i \in Nat /\ i + 1 \in DOMAIN q /\ 1 < i + 1 /\ Tail(q)[i] = q[i + 1]
<1>1. q \in Seq(Listed(q))
  BY DEF IsSeq
<1>2. /\ Tail(q) \in Seq(Listed(q)) /\ Len(Tail(q)) = Len(q) - 1
      /\ Len(q) \in Nat \ {0} /\ DOMAIN q = 1..Len(q) /\ Head(q) = q[1]
  BY <1>1, HeadTailProperties, LenProperties, EmptySeq
<1>3. DOMAIN Tail(q) = 1..(Len(q) - 1)
  BY <1>2, LenProperties
<1>4. \A i \in DOMAIN Tail(q) :
        i \in Nat /\ i + 1 \in DOMAIN q /\ 1 < i + 1 /\ Tail(q)[i] = q[i + 1]
  BY <1>1, <1>2, <1>3, HeadTailProperties
<1>5. IsSeq(Tail(q))
  BY <1>2, ListedSeq
<1> QED
  BY <1>2, <1>4, <1>5

-----------------------------------------------------------------------------
(* What the steps do to the order of versions *)

(* The history may show more sessions, later versions, or the latest of all.   *)
LEMMA Advances ==
  ASSUME NEW h, NEW l, NEW d, NEW b, NEW q, NEW n,
         InVersionOrder(h, l, d, b, q, n),
         NEW g, NEW k \in {n, n + 1},
         DOMAIN h \subseteq DOMAIN g, DOMAIN g \subseteq Sessions,
         \A s \in DOMAIN g : \/ s \in DOMAIN h /\ g[s].rev = h[s].rev
                             \/ k = n + 1 /\ g[s].rev = k
  PROVE  InVersionOrder(g, l, d, b, q, k)
<1>1. n \in Nat /\ k \in Nat /\ n <= k
  BY DEF InVersionOrder
<1>2. \A s \in DOMAIN g :
        /\ g[s].rev \in Nat /\ g[s].rev <= k
        /\ s \in DOMAIN h => h[s].rev <= g[s].rev
        /\ s \notin DOMAIN h => n < g[s].rev
  BY <1>1 DEF InVersionOrder, Bounded
<1>3. Bounded(g, k) /\ Bounded(l, k) /\ Bounded(d, k) /\ Bounded(b, k)
  BY <1>1, <1>2 DEF InVersionOrder, Bounded
<1>4. NotAfter(l, g) /\ NotAfter(d, g)
  BY <1>1, <1>2 DEF InVersionOrder, Bounded, NotAfter
<1>5. ASSUME NEW i \in DOMAIN q
      PROVE  CommandBounded(q[i], k) /\ (~Moot(q, d, i) => WritesAtMost(q[i], g))
  <2>1. CommandBounded(q[i], n) /\ (~Moot(q, d, i) => WritesAtMost(q[i], h))
    BY DEF InVersionOrder
  <2>2. CommandBounded(q[i], k)
    BY <1>1, <2>1 DEF CommandBounded
  <2>3. ASSUME ~Moot(q, d, i), NEW s \in DOMAIN g, Writes(q[i], s)
        PROVE  RevOf(q[i], s) <= g[s].rev
    <3>1. RevOf(q[i], s) \in Nat /\ RevOf(q[i], s) <= n
      BY <2>1, <2>3 DEF CommandBounded
    <3>2. s \in DOMAIN h => RevOf(q[i], s) <= h[s].rev
      BY <2>1, <2>3 DEF WritesAtMost
    <3>3. s \in DOMAIN h => h[s].rev \in Nat
      BY DEF InVersionOrder, Bounded
    <3> QED
      BY <1>1, <1>2, <3>1, <3>2, <3>3
  <2> QED
    BY <2>2, <2>3 DEF WritesAtMost
<1> QED
  BY <1>1, <1>3, <1>4, <1>5 DEF InVersionOrder

(* Rendering takes the history as it is.                                      *)
LEMMA Renders ==
  ASSUME NEW h, NEW l, NEW d, NEW b, NEW q, NEW n,
         InVersionOrder(h, l, d, b, q, n)
  PROVE  InVersionOrder(h, h, d, b, q, n)
  BY DEF InVersionOrder, NotAfter, Bounded

(* A deletion leaves the rendered history without the session.                *)
LEMMA Drops ==
  ASSUME NEW h, NEW l, NEW d, NEW b, NEW q, NEW n, NEW s,
         InVersionOrder(h, l, d, b, q, n)
  PROVE  InVersionOrder(Drop(l, s), Drop(l, s), d, b, q, n)
<1> DEFINE g == Drop(l, s)
<1>1. DOMAIN g \subseteq DOMAIN l /\ \A x \in DOMAIN g : g[x] = l[x]
  BY DEF Drop
<1> HIDE DEF g
<1>2. Bounded(g, n) /\ NotAfter(g, g) /\ NotAfter(d, g)
  BY <1>1 DEF InVersionOrder, Bounded, NotAfter
<1>3. \A i \in DOMAIN q : ~Moot(q, d, i) => WritesAtMost(q[i], g)
  BY <1>1 DEF InVersionOrder, WritesAtMost
<1> QED
  BY <1>2, <1>3 DEF InVersionOrder, g

(* A command may be queued if what it writes is no older than what is stored   *)
(* and queued, and no newer than what is shown.                              *)
LEMMA Queues ==
  ASSUME NEW h, NEW l, NEW d, NEW b, NEW q, NEW n,
         InVersionOrder(h, l, d, b, q, n),
         NEW c, CommandBounded(c, n),
         WritesAtLeast(c, d), WritesAtMost(c, l), WritesAtMost(c, h),
         \A i \in DOMAIN q : ~Moot(q, d, i) => WritesInOrder(q[i], c)
  PROVE  InVersionOrder(h, l, d, b, q \o <<c>>, n)
<1> DEFINE r == q \o <<c>>
           m == Len(q) + 1
<1>1. IsSeq(q)
  BY DEF InVersionOrder
<1>2. /\ IsSeq(r) /\ DOMAIN r = DOMAIN q \cup {m} /\ r[m] = c /\ Len(q) \in Nat
      /\ \A i \in DOMAIN q : r[i] = q[i] /\ i \in Nat /\ i < m
  BY <1>1, Pushed
<1> HIDE DEF r
<1>0. \A i \in DOMAIN q : ~Moot(r, d, i) => ~Moot(q, d, i)
  <2> SUFFICES ASSUME NEW i \in DOMAIN q, Moot(q, d, i) PROVE Moot(r, d, i)
    OBVIOUS
  <2>1. \A k \in DOMAIN r : k < i => k \in DOMAIN q
    BY <1>2
  <2> QED
    BY <1>2, <2>1 DEF Moot
<1>3. \A i \in DOMAIN r :
        /\ CommandBounded(r[i], n)
        /\ ~Moot(r, d, i) =>
             WritesAtLeast(r[i], d) /\ WritesAtMost(r[i], l) /\ WritesAtMost(r[i], h)
  BY <1>0, <1>2 DEF InVersionOrder
<1>4. ASSUME NEW i \in DOMAIN r, NEW j \in DOMAIN r, i < j, ~Moot(r, d, i)
      PROVE  WritesInOrder(r[i], r[j])
  <2>1. CASE j = m
    <3>1. i \in DOMAIN q
      BY <1>2, <1>4, <2>1
    <3> QED
      BY <1>0, <1>2, <1>4, <2>1, <3>1
  <2>2. CASE j \in DOMAIN q
    <3>1. i \in DOMAIN q
      BY <1>2, <1>4, <2>2
    <3> QED
      BY <1>0, <1>2, <1>4, <2>2, <3>1 DEF InVersionOrder
  <2> QED
    BY <1>2, <2>1, <2>2
<1> QED
  BY <1>2, <1>3, <1>4 DEF InVersionOrder, r

(* A command that is executed leaves what is stored of a session, or stores    *)
(* what it writes of it, or deletes it; the backup may follow the tables.     *)
LEMMA Executed ==
  ASSUME NEW h, NEW l, NEW d, NEW b, NEW q, NEW n,
         InVersionOrder(h, l, d, b, q, n), q # <<>>,
         NEW e, DOMAIN e \subseteq Sessions,
         \A s \in DOMAIN e : \/ s \in DOMAIN d /\ e[s].rev = d[s].rev
                             \/ /\ Writes(Head(q), s) /\ e[s].rev = RevOf(Head(q), s)
                                /\ Head(q).cmd = "create" => s \notin DOMAIN d,
         \A s \in DOMAIN d \ DOMAIN e : Deletes(Head(q), s),
         NEW a \in {b, e}
  PROVE  InVersionOrder(h, l, e, a, Tail(q), n)
<1> DEFINE r == Tail(q)
<1>1. /\ IsSeq(r) /\ 1 \in DOMAIN q /\ Head(q) = q[1]
      /\ \A i \in DOMAIN r : i \in Nat /\ i + 1 \in DOMAIN q /\ 1 < i + 1 /\ r[i] = q[i + 1]
  BY Popped DEF InVersionOrder
<1> HIDE DEF r
<1>0. \A s \in DOMAIN e : \/ s \in DOMAIN d /\ e[s].rev = d[s].rev
                          \/ /\ Writes(q[1], s) /\ e[s].rev = RevOf(q[1], s)
                             /\ ~Moot(q, d, 1)
  BY <1>1 DEF Moot, Writes
<1>2. CommandBounded(q[1], n)
      /\ (~Moot(q, d, 1) => WritesAtMost(q[1], l) /\ WritesAtMost(q[1], h))
  BY <1>1 DEF InVersionOrder
<1>3. Bounded(e, n)
  BY <1>0, <1>2 DEF InVersionOrder, Bounded, CommandBounded
<1>4. Bounded(a, n)
  BY <1>3 DEF InVersionOrder
<1>5. NotAfter(e, l) /\ NotAfter(e, h)
  BY <1>0, <1>2 DEF InVersionOrder, NotAfter, WritesAtMost
<1>6. ASSUME NEW i \in DOMAIN r, ~Moot(r, e, i)
      PROVE  ~Moot(q, d, i + 1)
  <2> SUFFICES ASSUME Moot(q, d, i + 1) PROVE FALSE
    OBVIOUS
  <2>1. /\ r[i].cmd = "create" /\ Home[r[i].turn] \in DOMAIN d
        /\ \A k \in DOMAIN q : k < i + 1 => ~Deletes(q[k], Home[r[i].turn])
    BY <1>1 DEF Moot
  <2>2. Home[r[i].turn] \in DOMAIN e
    BY <1>1, <2>1
  <2>3. \A k \in DOMAIN r : k < i => ~Deletes(r[k], Home[r[i].turn])
    BY <1>1, <2>1
  <2> QED
    BY <1>6, <2>1, <2>2, <2>3 DEF Moot
<1>7. ASSUME NEW i \in DOMAIN r, ~Moot(r, e, i)
      PROVE  WritesAtLeast(r[i], e) /\ WritesAtMost(r[i], l) /\ WritesAtMost(r[i], h)
  <2>1. ~Moot(q, d, i + 1) /\ i + 1 \in DOMAIN q
    BY <1>1, <1>6, <1>7
  <2>2. /\ WritesAtLeast(q[i + 1], d)
        /\ WritesAtMost(q[i + 1], l) /\ WritesAtMost(q[i + 1], h)
        /\ ~Moot(q, d, 1) => WritesInOrder(q[1], q[i + 1])
    BY <1>1, <2>1 DEF InVersionOrder
  <2>3. WritesAtLeast(q[i + 1], e)
    <3> SUFFICES ASSUME NEW s \in DOMAIN e, Writes(q[i + 1], s)
                 PROVE  e[s].rev <= RevOf(q[i + 1], s)
      BY DEF WritesAtLeast
    <3>1. CASE s \in DOMAIN d /\ e[s].rev = d[s].rev
      BY <2>2, <3>1 DEF WritesAtLeast
    <3>2. CASE Writes(q[1], s) /\ e[s].rev = RevOf(q[1], s) /\ ~Moot(q, d, 1)
      BY <2>2, <3>2 DEF WritesInOrder
    <3> QED
      BY <1>0, <3>1, <3>2
  <2> QED
    BY <1>1, <2>2, <2>3
<1>8. \A i \in DOMAIN r : CommandBounded(r[i], n)
  BY <1>1 DEF InVersionOrder
<1>9. ASSUME NEW i \in DOMAIN r, NEW j \in DOMAIN r, i < j, ~Moot(r, e, i)
      PROVE  WritesInOrder(r[i], r[j])
  <2>1. i + 1 \in DOMAIN q /\ j + 1 \in DOMAIN q /\ i + 1 < j + 1
    BY <1>1, <1>9
  <2> QED
    BY <1>1, <1>6, <1>9, <2>1 DEF InVersionOrder
<1> QED
  BY <1>1, <1>3, <1>4, <1>5, <1>7, <1>8, <1>9 DEF InVersionOrder, r

(* With nothing rendered and no save or deletion queued, the stored versions    *)
(* may be loaded; an empty database may be refilled from the backup.           *)
LEMMA Loading ==
  ASSUME NEW h, NEW l, NEW d, NEW b, NEW q, NEW n,
         InVersionOrder(h, l, d, b, q, n), DOMAIN l = {},
         \A i \in DOMAIN q : Early(q[i]),
         NEW e, DOMAIN d \subseteq DOMAIN e,
         \A s \in DOMAIN e : \/ s \in DOMAIN d /\ e[s].rev = d[s].rev
                             \/ s \in DOMAIN b /\ e[s].rev = b[s].rev,
         NEW a \in {b, e},
         NEW g, DOMAIN g \subseteq DOMAIN e, \A s \in DOMAIN g : g[s].rev = e[s].rev
  PROVE  InVersionOrder(g, l, e, a, q, n)
<1>1. Bounded(e, n)
  BY DEF InVersionOrder, Bounded
<1>2. Bounded(a, n) /\ Bounded(g, n)
  BY <1>1 DEF InVersionOrder, Bounded
<1>3. NotAfter(e, g) /\ NotAfter(e, l) /\ NotAfter(l, g)
  BY <1>1, <1>2 DEF NotAfter, Bounded
<1>4. ASSUME NEW i \in DOMAIN q, ~Moot(q, e, i)
      PROVE  ~Moot(q, d, i) /\ \A s \in DOMAIN e : ~Writes(q[i], s)
  <2>1. \A k \in DOMAIN q : \A s : ~Deletes(q[k], s)
    BY DEF Early, Deletes
  <2>2. q[i].cmd = "create" => Home[q[i].turn] \notin DOMAIN e
    BY <1>4, <2>1 DEF Moot
  <2> QED
    BY <2>2 DEF Early, Writes, Moot
<1>5. \A i \in DOMAIN q :
        ~Moot(q, e, i) => WritesAtLeast(q[i], e) /\ WritesAtMost(q[i], l) /\ WritesAtMost(q[i], g)
  BY <1>4 DEF WritesAtLeast, WritesAtMost
<1>6. \A i, j \in DOMAIN q : i < j /\ ~Moot(q, e, i) => WritesInOrder(q[i], q[j])
  BY <1>4 DEF InVersionOrder
<1> QED
  BY <1>1, <1>2, <1>3, <1>5, <1>6 DEF InVersionOrder

(* Nothing is shown or queued when the application has ended.                 *)
LEMMA Ends ==
  ASSUME NEW h, NEW l, NEW d, NEW b, NEW q, NEW n,
         InVersionOrder(h, l, d, b, q, n)
  PROVE  InVersionOrder(Nothing, Nothing, d, b, <<>>, n)
<1>1. DOMAIN Nothing = {} /\ DOMAIN <<>> = {}
  BY DEF Nothing
<1>2. IsSeq(<<>>)
  BY ListedSeq, EmptySeq
<1> QED
  BY <1>1, <1>2 DEF InVersionOrder, Bounded, NotAfter

(* A save of the rendered history may be queued, or one of the history while   *)
(* nothing is rendered.                                                      *)
LEMMA Saves ==
  ASSUME NEW h, NEW l, NEW d, NEW b, NEW q, NEW n,
         InVersionOrder(h, l, d, b, q, n),
         NEW p, p = l \/ (p = h /\ DOMAIN l = {}), NEW auto
  PROVE  InVersionOrder(h, l, d, b, q \o <<Saving(p, auto)>>, n)
<1> DEFINE c == Saving(p, auto)
<1>1. c.cmd = "save" /\ c.payload = p
  BY DEF Saving
<1> HIDE DEF c
<1>2. \A s : (Writes(c, s) <=> s \in DOMAIN p) /\ RevOf(c, s) = p[s].rev
  BY <1>1 DEF Writes, RevOf
<1>3. Bounded(p, n) /\ NotAfter(d, p) /\ NotAfter(p, h) /\ NotAfter(p, l)
  BY DEF InVersionOrder, Bounded, NotAfter
<1>4. CommandBounded(c, n)
  BY <1>1, <1>2, <1>3 DEF CommandBounded, Bounded
<1>5. WritesAtLeast(c, d) /\ WritesAtMost(c, l) /\ WritesAtMost(c, h)
  BY <1>2, <1>3 DEF WritesAtLeast, WritesAtMost, NotAfter
<1>6. \A i \in DOMAIN q : ~Moot(q, d, i) => WritesInOrder(q[i], c)
  BY <1>2 DEF InVersionOrder, WritesAtMost, WritesInOrder
<1> QED
  BY <1>4, <1>5, <1>6, Queues DEF c

(* So may a command that writes no version.                                   *)
LEMMA QueuesHarmless ==
  ASSUME NEW h, NEW l, NEW d, NEW b, NEW q, NEW n,
         InVersionOrder(h, l, d, b, q, n),
         NEW c, c.cmd \notin {"save", "create"}
  PROVE  InVersionOrder(h, l, d, b, q \o <<c>>, n)
<1>1. \A s : ~Writes(c, s)
  BY DEF Writes
<1>2. CommandBounded(c, n) /\ WritesAtLeast(c, d) /\ WritesAtMost(c, l) /\ WritesAtMost(c, h)
  BY <1>1 DEF CommandBounded, WritesAtLeast, WritesAtMost
<1>3. \A i \in DOMAIN q : WritesInOrder(q[i], c)
  BY <1>1 DEF WritesInOrder
<1> QED
  BY <1>2, <1>3, Queues

(* And the creation of a session that is not rendered, with the newest version. *)
LEMMA Creates ==
  ASSUME NEW h, NEW l, NEW d, NEW b, NEW q, NEW n,
         InVersionOrder(h, l, d, b, q, n),
         NEW t \in Turns, Home[t] \notin DOMAIN l, Home[t] \in DOMAIN h => h[Home[t]].rev = n
  PROVE  InVersionOrder(h, l, d, b, q \o <<Creation(t, n)>>, n)
<1> DEFINE c == Creation(t, n)
<1>1. c.cmd = "create" /\ c.turn = t /\ c.rev = n
  BY DEF Creation
<1> HIDE DEF c
<1>2. \A s : (Writes(c, s) <=> s = Home[t]) /\ RevOf(c, s) = n
  BY <1>1 DEF Writes, RevOf
<1>3. n \in Nat
  BY DEF InVersionOrder
<1>4. CommandBounded(c, n)
  BY <1>1, <1>2, <1>3, HistoryAssumption DEF CommandBounded
<1>5. WritesAtLeast(c, d)
  BY <1>2 DEF InVersionOrder, Bounded, WritesAtLeast
<1>6. WritesAtMost(c, l) /\ WritesAtMost(c, h)
  BY <1>2, <1>3 DEF WritesAtMost
<1>7. \A i \in DOMAIN q : WritesInOrder(q[i], c)
  BY <1>2 DEF InVersionOrder, CommandBounded, WritesInOrder
<1> QED
  BY <1>4, <1>5, <1>6, <1>7, Queues DEF c

-----------------------------------------------------------------------------
(* The invariant *)

Ordered == InVersionOrder(history, latest, db, backup.of, queue, clock)

LEMMA InitIInv == Init => IInv
<1> SUFFICES ASSUME Init PROVE IInv
  OBVIOUS
<1>0. IsSeq(<<>>)
  BY ListedSeq, EmptySeq
<1>1. DOMAIN Nothing = {} /\ DOMAIN <<>> = {}
  BY DEF Nothing
<1>2. Bounded(backup.of, 0)
  BY HistoryAssumption DEF Init, Bounded, Record
<1>3. Ordered
  BY <1>0, <1>1, <1>2 DEF Init, Ordered, InVersionOrder, Bounded, NotAfter
<1>4. NothingUnderWay
  BY <1>1 DEF Init, NothingUnderWay
<1> QED
  BY <1>3, <1>4 DEF IInv, Ordered

(* What loading yields has the versions of what it loads. *)
LEMMA YieldedVersions ==
  ASSUME NEW d, NEW y \in Yields(d)
  PROVE  DOMAIN y.history \subseteq DOMAIN d /\ \A s \in DOMAIN y.history : y.history[s].rev = d[s].rev
  BY DEF Yields, Exported, Item, Nothing

(* The sessions of h are merged, all or some of them, one maybe in part. *)
Merges(h) ==
  \E done \in SUBSET DOMAIN h :
    \/ db' = Merge(db, h, done)
    \/ \E s \in DOMAIN h : \E n : db' = MergePart(Merge(db, h, done), h, s, n)

LEMMA PartMerges ==
  ASSUME NEW h, MergesInPart(h)
  PROVE  Merges(h)
<1>1. PICK done \in SUBSET (DOMAIN h \ Blocked(db, h)) :
        \/ db' = Merge(db, h, done)
        \/ \E s \in DOMAIN h \ done : \E n \in Free(db, h, s) :
             db' = MergePart(Merge(db, h, done), h, s, n)
  BY DEF MergesInPart
<1>2. done \in SUBSET DOMAIN h
  OBVIOUS
<1>3. CASE db' = Merge(db, h, done)
  BY <1>2, <1>3 DEF Merges
<1>4. CASE \E s \in DOMAIN h \ done : \E n \in Free(db, h, s) :
             db' = MergePart(Merge(db, h, done), h, s, n)
  <2>1. PICK s \in DOMAIN h : \E n : db' = MergePart(Merge(db, h, done), h, s, n)
    BY <1>4
  <2> QED
    BY <1>2, <2>1 DEF Merges
<1> QED
  BY <1>1, <1>3, <1>4

LEMMA WholeMerges ==
  ASSUME NEW h, db' = Merge(db, h, DOMAIN h)
  PROVE  Merges(h)
  BY DEF Merges

LEMMA MergedVersions ==
  ASSUME NEW h, Merges(h)
  PROVE  /\ DOMAIN db \subseteq DOMAIN db' /\ DOMAIN db' \subseteq DOMAIN db \cup DOMAIN h
         /\ \A s \in DOMAIN db' : \/ s \in DOMAIN db /\ db'[s].rev = db[s].rev
                                  \/ s \in DOMAIN h /\ db'[s].rev = h[s].rev
<1>1. PICK done \in SUBSET DOMAIN h :
        \/ db' = Merge(db, h, done)
        \/ \E s \in DOMAIN h : \E n : db' = MergePart(Merge(db, h, done), h, s, n)
  BY DEF Merges
<1> DEFINE d == Merge(db, h, done)
<1>2. /\ DOMAIN d = DOMAIN db \cup done
      /\ \A s \in DOMAIN d : \/ s \in DOMAIN db /\ d[s].rev = db[s].rev
                             \/ s \in DOMAIN h /\ d[s].rev = h[s].rev
  BY DEF Merge, Record
<1>3. CASE db' = d
  <2> HIDE DEF d
  <2> QED
    BY <1>1, <1>2, <1>3
<1>4. ASSUME NEW s \in DOMAIN h, NEW n, db' = MergePart(d, h, s, n)
      PROVE  /\ DOMAIN db \subseteq DOMAIN db' /\ DOMAIN db' \subseteq DOMAIN db \cup DOMAIN h
             /\ \A x \in DOMAIN db' : \/ x \in DOMAIN db /\ db'[x].rev = db[x].rev
                                      \/ x \in DOMAIN h /\ db'[x].rev = h[x].rev
  <2>1. PICK v : v.rev = h[s].rev /\ db' = Put(d, s, v)
    BY <1>4 DEF MergePart, Record
  <2> HIDE DEF d
  <2>2. DOMAIN db' = DOMAIN d \cup {s}
        /\ \A x \in DOMAIN db' : db'[x] = IF x = s THEN v ELSE d[x]
    BY <2>1 DEF Put
  <2> QED
    BY <1>1, <1>2, <2>1, <2>2
<1> HIDE DEF d
<1> QED
  BY <1>1, <1>3, <1>4 DEF d

(* Loading adds what the backup holds, to an empty database. *)
LEMMA LoadedVersions ==
  ASSUME Loads \/ LoadStops
  PROVE  /\ DOMAIN db \subseteq DOMAIN db'
         /\ DOMAIN db = {} \/ db' = db
         /\ \A s \in DOMAIN db' : \/ s \in DOMAIN db /\ db'[s].rev = db[s].rev
                                  \/ s \in DOMAIN backup.of /\ db'[s].rev = backup.of[s].rev
         /\ (backup.of)' \in {backup.of, db'}
<1>1. CASE db' = Loaded /\ backup' \in {backup, Synced(Loaded, backup), HalfSynced(Loaded, backup)}
  <2>1. (backup.of)' \in {backup.of, db'}
    BY <1>1 DEF Synced, HalfSynced
  <2>2. db' = db \/ (DOMAIN db = {} /\ db' = backup.of)
    BY <1>1 DEF Loaded, Recovers
  <2> QED
    BY <2>1, <2>2
<1>2. CASE Recovers /\ MergesInPart(Exported(backup.of)) /\ UNCHANGED backup
  <2> DEFINE h == Exported(backup.of)
  <2>1. DOMAIN h = DOMAIN backup.of /\ \A s \in DOMAIN h : h[s].rev = backup.of[s].rev
    BY DEF Exported, Item
  <2>2. Merges(h)
    BY <1>2, PartMerges
  <2> HIDE DEF h
  <2> QED
    BY <1>2, <2>1, <2>2, MergedVersions DEF Recovers
<1> QED
  BY <1>1, <1>2 DEF Loads, LoadStops

LEMMA HydrateOrdered ==
  ASSUME Ordered, NothingUnderWay, Hydrate
  PROVE  Ordered'
<1>1. DOMAIN latest = {} /\ \A i \in DOMAIN queue : Early(queue[i])
  BY DEF Hydrate, NothingUnderWay
<1>2. Loads \/ LoadStops
  BY DEF Hydrate
<1>3. PICK y \in Yields(db') :
        /\ history' = y.history
        /\ IF y.repair /\ DOMAIN y.history # {}
             THEN Invoke(<<Saving(y.history, FALSE)>>)
             ELSE UNCHANGED queue
  BY DEF Hydrate
<1>4. InVersionOrder(history', latest, db', (backup.of)', queue, clock)
  <2> DEFINE e == db' a == (backup.of)' g == history'
  <2>1. /\ DOMAIN db \subseteq DOMAIN e /\ a \in {backup.of, e}
        /\ \A s \in DOMAIN e : \/ s \in DOMAIN db /\ e[s].rev = db[s].rev
                               \/ s \in DOMAIN backup.of /\ e[s].rev = backup.of[s].rev
    BY <1>2, LoadedVersions
  <2>2. DOMAIN g \subseteq DOMAIN e /\ \A s \in DOMAIN g : g[s].rev = e[s].rev
    BY <1>3, YieldedVersions
  <2> HIDE DEF e, a, g
  <2>3. InVersionOrder(g, latest, e, a, queue, clock)
    BY <1>1, <2>1, <2>2, Loading DEF Ordered
  <2> QED
    BY <2>3 DEF e, a, g
<1>5. InVersionOrder(history', latest, db', (backup.of)', queue', clock)
  <2>1. InVersionOrder(history', latest, db', (backup.of)', queue \o <<Saving(history', FALSE)>>, clock)
    <3> DEFINE e == db' a == (backup.of)' g == history'
    <3>1. InVersionOrder(g, latest, e, a, queue, clock)
      BY <1>4
    <3> HIDE DEF e, a, g
    <3>2. InVersionOrder(g, latest, e, a, queue \o <<Saving(g, FALSE)>>, clock)
      BY <1>1, <3>1, Saves
    <3> QED
      BY <3>2 DEF e, a, g
  <2> QED
    BY <1>3, <1>4, <2>1 DEF Invoke
<1> QED
  BY <1>5 DEF Hydrate, Ordered

LEMMA TimerFiresOrdered ==
  ASSUME Ordered, TimerFires
  PROVE  Ordered'
<1>1. queue' \in {queue, queue \o <<Saving(latest, TRUE)>>}
  BY DEF TimerFires, Flush, Invoke
<1>2. InVersionOrder(history, latest, db, backup.of, queue \o <<Saving(latest, TRUE)>>, clock)
  BY Saves DEF Ordered
<1>3. InVersionOrder(history, latest, db, backup.of, queue', clock)
  BY <1>1, <1>2 DEF Ordered
<1> QED
  BY <1>3 DEF TimerFires, Ordered, storeVars, counters

(* A change of the history is a later version of one session.                 *)
LEMMA Puts ==
  ASSUME Ordered, NEW s \in Sessions, NEW v, v.rev = clock + 1
  PROVE  InVersionOrder(Put(history, s, v), latest, db, backup.of, queue, clock + 1)
<1> DEFINE g == Put(history, s, v)
<1>1. DOMAIN g = DOMAIN history \cup {s}
      /\ \A x \in DOMAIN g : g[x] = IF x = s THEN v ELSE history[x]
  BY DEF Put
<1> HIDE DEF g
<1>2. DOMAIN history \subseteq Sessions
  BY DEF Ordered, InVersionOrder, Bounded
<1> QED
  BY <1>1, <1>2, Advances DEF Ordered, g

LEMMA WaitsOrdered ==
  ASSUME Ordered
  PROVE  InVersionOrder(history, latest, db, backup.of, queue, clock + 1)
<1>1. DOMAIN history \subseteq Sessions
  BY DEF Ordered, InVersionOrder, Bounded
<1> QED
  BY <1>1, Advances DEF Ordered

(* A message is the newest change of its session, or of none that is shown; a   *)
(* session is created only while it is not rendered.                          *)
LEMMA MessageOrdered ==
  ASSUME Ordered, NEW t \in Turns, Message(t)
  PROVE  Ordered'
<1> DEFINE s == Home[t]
<1>1. s \in Sessions /\ clock' = clock + 1
  BY HistoryAssumption DEF Message, Tick
<1>2. InVersionOrder(history', latest, db, backup.of, queue, clock + 1)
      /\ (s \in DOMAIN history' => history'[s].rev = clock + 1)
  <2>1. CASE history' = history /\ s \notin DOMAIN history
    BY <2>1, WaitsOrdered
  <2>2. CASE history' = WithTurn(history, t)
    <3> DEFINE v == Item(Append(TurnsOf(history, s), t), clock + 1, clock + 1)
    <3>1. v.rev = clock + 1 /\ history' = Put(history, s, v)
      BY <2>2 DEF WithTurn, Item
    <3>2. history'[s] = v
      BY <3>1 DEF Put
    <3> HIDE DEF v
    <3> QED
      BY <1>1, <3>1, <3>2, Puts
  <2> QED
    BY <2>1, <2>2 DEF Message
<1>3. InVersionOrder(history', latest, db, backup.of, queue', clock + 1)
  <2>1. CASE s \in DOMAIN latest
    <3>1. queue' = queue \o <<Appending(t)>>
      BY <2>1 DEF Message, Invoke
    <3> QED
      BY <1>2, <3>1, QueuesHarmless DEF Appending
  <2>2. CASE s \notin DOMAIN latest
    <3>1. queue' = queue \o <<Creation(t, clock + 1)>>
      BY <2>2 DEF Message, Invoke
    <3> QED
      BY <1>2, <2>2, <3>1, Creates
  <2> QED
    BY <2>1, <2>2
<1> QED
  BY <1>1, <1>3 DEF Message, Ordered, storeVars

LEMMA EditOrdered ==
  ASSUME Ordered, NEW s \in Sessions, Edit(s) \/ Retitle(s)
  PROVE  Ordered'
<1>1. PICK v : v.rev = clock + 1 /\ history' = Put(history, s, v)
  BY DEF Edit, Retitle, Item
<1>2. InVersionOrder(history', latest, db, backup.of, queue, clock + 1)
  BY <1>1, Puts
<1> QED
  BY <1>2 DEF Edit, Retitle, Tick, Ordered, ipcVars, storeVars

LEMMA DeleteOrdered ==
  ASSUME Ordered, NEW s \in Sessions, DeleteHistoryItem(s)
  PROVE  Ordered'
<1>1. history' = Drop(latest, s) /\ latest' = Drop(latest, s)
      /\ queue' = queue \o <<Deletion(s, latest)>>
  BY DEF DeleteHistoryItem, RemoveShown, Invoke
<1>2. InVersionOrder(history', latest', db, backup.of, queue, clock)
  BY <1>1, Drops DEF Ordered
<1>3. InVersionOrder(history', latest', db, backup.of, queue', clock)
  BY <1>1, <1>2, QueuesHarmless DEF Deletion
<1> QED
  BY <1>3 DEF DeleteHistoryItem, Ordered, storeVars, counters

LEMMA OnDeliveryOrdered ==
  ASSUME Ordered, NEW d \in Deliveries, OnDelivery(d)
  PROVE  Ordered'
<1>1. InVersionOrder(history', latest, db, backup.of, queue, clock + 1)
  <2>1. CASE history' = history
    BY <2>1, WaitsOrdered
  <2>2. CASE history' = WithTurn(history, d)
    <3>1. Home[d] \in Sessions
      BY HistoryAssumption
    <3>2. PICK v : v.rev = clock + 1 /\ history' = Put(history, Home[d], v)
      BY <2>2 DEF WithTurn, Item
    <3> QED
      BY <3>1, <3>2, Puts
  <2> QED
    BY <2>1, <2>2 DEF OnDelivery
<1> QED
  BY <1>1 DEF OnDelivery, Tick, Ordered, ipcVars, storeVars

LEMMA PollOrdered ==
  ASSUME Ordered, PollTaskDeliveries
  PROVE  Ordered'
<1> DEFINE New(s) == {d \in Undelivered : Home[d] = s /\ d \notin Listed(history[s].turns)}
           Pick(s) == CHOOSE d \in New(s) : TRUE
<1>1. DOMAIN history \subseteq Sessions
  BY DEF Ordered, InVersionOrder, Bounded
<1>2. \A s \in DOMAIN history :
        New(s) # {} => Home[Pick(s)] = s /\ WithTurn(history, Pick(s))[s].rev = clock + 1
  <2> TAKE s \in DOMAIN history
  <2> SUFFICES ASSUME New(s) # {}
               PROVE  Home[Pick(s)] = s /\ WithTurn(history, Pick(s))[s].rev = clock + 1
    OBVIOUS
  <2>1. Pick(s) \in New(s)
    OBVIOUS
  <2>2. Home[Pick(s)] = s
    BY <2>1
  <2> HIDE DEF Pick
  <2> QED
    BY <2>2 DEF WithTurn, Put, Item
<1>3. DOMAIN history' = DOMAIN history
      /\ \A s \in DOMAIN history :
           \/ history'[s].rev = history[s].rev
           \/ history'[s].rev = clock + 1
  <2>1. history' = [s \in DOMAIN history |->
                      IF New(s) = {} THEN history[s] ELSE WithTurn(history, Pick(s))[s]]
    BY DEF PollTaskDeliveries
  <2> HIDE DEF New, Pick
  <2> QED
    BY <1>2, <2>1
<1>4. InVersionOrder(history', latest, db, backup.of, queue, clock')
  <2>1. CASE history' = history
    BY <2>1 DEF PollTaskDeliveries, Ordered, counters
  <2>2. CASE history' # history
    <3>1. clock' = clock + 1
      BY <2>2 DEF PollTaskDeliveries, Tick
    <3> QED
      BY <1>1, <1>3, <3>1, Advances DEF Ordered
  <2> QED
    BY <2>1, <2>2
<1> QED
  BY <1>4 DEF PollTaskDeliveries, Ordered, ipcVars, storeVars

(* A command takes the tables to versions that it writes, if it changes any.    *)
LEMMA HeadBounded ==
  ASSUME Ordered, queue # <<>>
  PROVE  CommandBounded(Head(queue), clock)
  BY Popped DEF Ordered, InVersionOrder

(* How command c may change the tables and the backup. *)
Rewrites(c) ==
  /\ DOMAIN db' \subseteq Sessions
  /\ \A s \in DOMAIN db' :
       \/ s \in DOMAIN db /\ db'[s].rev = db[s].rev
       \/ /\ Writes(c, s) /\ db'[s].rev = RevOf(c, s)
          /\ c.cmd = "create" => s \notin DOMAIN db
  /\ \A s \in DOMAIN db \ DOMAIN db' : Deletes(c, s)
  /\ (backup.of)' \in {backup.of, db'}

LEMMA SaveVersions ==
  ASSUME Ordered, NEW c, CommandBounded(c, clock), c.cmd = "save", Merges(c.payload),
         (backup.of)' \in {backup.of, db'}
  PROVE  Rewrites(c)
<1> DEFINE h == c.payload
<1>1. DOMAIN h \subseteq Sessions /\ DOMAIN db \subseteq Sessions
  BY DEF Ordered, InVersionOrder, Bounded, CommandBounded
<1>2. \A s \in DOMAIN h : Writes(c, s) /\ RevOf(c, s) = h[s].rev
  BY DEF Writes, RevOf
<1>3. /\ DOMAIN db \subseteq DOMAIN db' /\ DOMAIN db' \subseteq DOMAIN db \cup DOMAIN h
      /\ \A s \in DOMAIN db' : \/ s \in DOMAIN db /\ db'[s].rev = db[s].rev
                               \/ s \in DOMAIN h /\ db'[s].rev = h[s].rev
  BY MergedVersions
<1> HIDE DEF h
<1> QED
  BY <1>1, <1>2, <1>3 DEF Rewrites

LEMMA StopVersions ==
  ASSUME Ordered, NEW c, CommandBounded(c, clock), Stops(c)
  PROVE  Rewrites(c)
<1>1. DOMAIN db \subseteq Sessions
  BY DEF Ordered, InVersionOrder, Bounded
<1>2. CASE UNCHANGED <<db, backup>>
  BY <1>1, <1>2 DEF Rewrites
<1>3. CASE c.cmd = "append" /\ AppendStops(c.turn)
  BY <1>1, <1>3 DEF AppendStops, Put, Record, Rewrites
<1>4. CASE c.cmd = "save" /\ SaveStops(c.payload)
  <2>1. Merges(c.payload)
    BY <1>4, PartMerges, WholeMerges DEF SaveStops
  <2>2. (backup.of)' \in {backup.of, db'}
    BY <1>4 DEF SaveStops, HalfSynced
  <2> QED
    BY <1>4, <2>1, <2>2, SaveVersions
<1>5. CASE c.cmd = "delete" /\ DeleteStops(c.session)
  <2>1. (backup.of)' \in {backup.of, db'}
    BY <1>5 DEF DeleteStops, HalfSynced
  <2>2. \A s \in DOMAIN db' : s \in DOMAIN db /\ db'[s].rev = db[s].rev
    BY <1>5 DEF DeleteStops, Put, Drop, Record
  <2>3. \A s \in DOMAIN db \ DOMAIN db' : s = c.session
    BY <1>5 DEF DeleteStops, Put, Drop
  <2> QED
    BY <1>1, <1>5, <2>1, <2>2, <2>3 DEF Rewrites, Deletes
<1> QED
  BY <1>2, <1>3, <1>4, <1>5 DEF Stops

LEMMA ExecuteVersions ==
  ASSUME Ordered, Execute
  PROVE  /\ Rewrites(Head(queue))
         /\ queue # <<>> /\ queue' = Tail(queue)
         /\ UNCHANGED <<history, latest, timer, window, clock>>
<1> DEFINE c == Head(queue)
<1>1. queue # <<>> /\ queue' = Tail(queue)
      /\ UNCHANGED <<history, latest, timer, window, clock>>
  BY DEF Execute, Refuse, ExecCreate, ExecAppend, ExecSave, ExecSaveBlocked,
         ExecDelete, Executes, windowVars, saverVars
<1>2. CommandBounded(c, clock)
  BY <1>1, HeadBounded
<1>3. DOMAIN db \subseteq Sessions
  BY DEF Ordered, InVersionOrder, Bounded
<1>4. CASE Refuse
  BY <1>1, <1>2, <1>4, StopVersions DEF Refuse
<1>5. CASE ExecCreate
  <2>1. c.cmd = "create" /\ Home[c.turn] \in Sessions
    BY <1>2, <1>5 DEF ExecCreate, Executes, CommandBounded
  <2>2. Writes(c, Home[c.turn]) /\ RevOf(c, Home[c.turn]) = c.rev
    BY <2>1 DEF Writes, RevOf
  <2>3. backup' = backup
        /\ db' = IF Home[c.turn] \in DOMAIN db THEN db
                 ELSE Put(db, Home[c.turn], Record(Nothing, c.rev, clock))
    BY <1>5 DEF ExecCreate
  <2> HIDE DEF c
  <2> QED
    BY <1>1, <1>3, <2>1, <2>2, <2>3 DEF Put, Record, Rewrites, c
<1>6. CASE ExecAppend
  BY <1>1, <1>3, <1>6 DEF ExecAppend, Put, Record, Rewrites
<1>7. CASE ExecSave \/ ExecSaveBlocked
  <2>1. c.cmd = "save"
    BY <1>7 DEF ExecSave, ExecSaveBlocked, Executes
  <2>2. Merges(c.payload)
    BY <1>7, WholeMerges DEF ExecSave, ExecSaveBlocked, Blocked, Merges
  <2>3. (backup.of)' \in {backup.of, db'}
    <3>1. backup' \in {backup, Synced(db', backup)}
      BY <1>7 DEF ExecSave, ExecSaveBlocked
    <3> QED
      BY <3>1 DEF Synced
  <2> QED
    BY <1>1, <1>2, <2>1, <2>2, <2>3, SaveVersions
<1>8. CASE ExecDelete
  <2>1. db' = Drop(db, c.session) /\ backup' = Synced(db', backup) /\ c.cmd = "delete"
    BY <1>8 DEF ExecDelete, Executes
  <2>2. (backup.of)' \in {backup.of, db'}
    BY <2>1 DEF Synced
  <2> QED
    BY <1>1, <1>3, <2>1, <2>2 DEF Drop, Rewrites, Deletes
<1> QED
  BY <1>4, <1>5, <1>6, <1>7, <1>8 DEF Execute

LEMMA RewritesOrdered ==
  ASSUME Ordered, queue # <<>>, Rewrites(Head(queue))
  PROVE  InVersionOrder(history, latest, db', (backup.of)', Tail(queue), clock)
<1> DEFINE e == db' a == (backup.of)' c == Head(queue)
<1>1. /\ DOMAIN e \subseteq Sessions
      /\ \A s \in DOMAIN e :
           \/ s \in DOMAIN db /\ e[s].rev = db[s].rev
           \/ /\ Writes(c, s) /\ e[s].rev = RevOf(c, s)
              /\ c.cmd = "create" => s \notin DOMAIN db
      /\ \A s \in DOMAIN db \ DOMAIN e : Deletes(c, s)
      /\ a \in {backup.of, e}
  BY DEF Rewrites
<1> HIDE DEF e, a
<1>2. InVersionOrder(history, latest, e, a, Tail(queue), clock)
  BY <1>1, Executed DEF Ordered
<1> QED
  BY <1>2 DEF e, a

LEMMA ExecuteOrdered ==
  ASSUME Ordered, Execute
  PROVE  Ordered'
<1>1. InVersionOrder(history, latest, db', (backup.of)', Tail(queue), clock)
  BY ExecuteVersions, RewritesOrdered
<1> QED
  BY <1>1, ExecuteVersions DEF Ordered

LEMMA HandleOrdered ==
  ASSUME Ordered, NEW a \in answers, Created(a) \/ Appended(a) \/ Saved(a)
  PROVE  Ordered'
<1>1. history' = history
  BY DEF Created, Appended, Saved
<1>2. UNCHANGED <<latest, db, backup, clock>>
  BY DEF Created, Appended, Saved, Handles, storeVars, counters
<1>3. \/ queue' = queue
      \/ queue' = queue \o <<Appending(a.of.turn)>>
      \/ queue' = queue \o <<Saving(latest, TRUE)>>
  BY DEF Created, Appended, Saved, SavedThen, Invoke
<1>4. InVersionOrder(history, latest, db, backup.of, queue \o <<Saving(latest, TRUE)>>, clock)
  BY Saves DEF Ordered
<1>5. InVersionOrder(history, latest, db, backup.of, queue \o <<Appending(a.of.turn)>>, clock)
  BY QueuesHarmless DEF Ordered, Appending
<1>6. InVersionOrder(history, latest, db, backup.of, queue', clock)
  BY <1>3, <1>4, <1>5 DEF Ordered
<1> QED
  BY <1>1, <1>2, <1>6 DEF Ordered

LEMMA CrashOrdered ==
  ASSUME Ordered, NothingUnderWay, Crash
  PROVE  Ordered'
<1>1. InVersionOrder(Nothing, Nothing, db', (backup.of)', <<>>, clock)
  <2> DEFINE e == db' a == (backup.of)'
  <2>1. \E h, l, q : InVersionOrder(h, l, e, a, q, clock)
    <3>1. CASE UNCHANGED storeVars
      BY <3>1 DEF storeVars, Ordered
    <3>2. CASE queue # <<>> /\ Stops(Head(queue))
      <4>1. Rewrites(Head(queue))
        BY <3>2, HeadBounded, StopVersions
      <4> QED
        BY <3>2, <4>1, RewritesOrdered
    <3>3. CASE window = "loading" /\ LoadStops
      <4>1. DOMAIN latest = {} /\ \A i \in DOMAIN queue : Early(queue[i])
        BY <3>3 DEF NothingUnderWay
      <4>2. /\ DOMAIN db \subseteq DOMAIN e /\ a \in {backup.of, e}
            /\ \A s \in DOMAIN e : \/ s \in DOMAIN db /\ e[s].rev = db[s].rev
                                   \/ s \in DOMAIN backup.of /\ e[s].rev = backup.of[s].rev
        BY <3>3, LoadedVersions
      <4>3. DOMAIN Nothing \subseteq DOMAIN e /\ \A s \in DOMAIN Nothing : Nothing[s].rev = e[s].rev
        BY DEF Nothing
      <4> HIDE DEF e, a
      <4>4. InVersionOrder(Nothing, latest, e, a, queue, clock)
        BY <4>1, <4>2, <4>3, Loading DEF Ordered
      <4> QED
        BY <4>4
    <3> QED
      BY <3>1, <3>2, <3>3 DEF Crash
  <2> HIDE DEF e, a
  <2>2. InVersionOrder(Nothing, Nothing, e, a, <<>>, clock)
    BY <2>1, Ends
  <2> QED
    BY <2>2 DEF e, a
<1> QED
  BY <1>1 DEF Crash, Ordered

(* Only messages of IM users come before the history is loaded. *)
LEMMA MessageUnderWay ==
  ASSUME Ordered, NothingUnderWay, NEW t \in Turns, Message(t)
  PROVE  NothingUnderWay'
<1>1. window' = window /\ UNCHANGED <<timer, latest, answers>> /\ window # "down"
  BY DEF Message, saverVars
<1>2. CASE window = "ready"
  BY <1>1, <1>2 DEF NothingUnderWay
<1>3. CASE window # "ready"
  <2>1. t \in Inbound
    BY <1>3 DEF Message
  <2>2. PICK c : queue' = queue \o <<c>> /\ Early(c)
    <3>1. queue' \in {queue \o <<Appending(t)>>, queue \o <<Creation(t, clock + 1)>>}
      BY DEF Message, Invoke
    <3>2. Early(Appending(t)) /\ Early(Creation(t, clock + 1))
      BY <2>1 DEF Appending, Creation, Early
    <3> QED
      BY <3>1, <3>2
  <2>3. \A i \in DOMAIN queue' : Early(queue'[i])
    <3> DEFINE r == queue \o <<c>>
    <3>1. DOMAIN r = DOMAIN queue \cup {Len(queue) + 1} /\ r[Len(queue) + 1] = c
          /\ \A i \in DOMAIN queue : r[i] = queue[i]
      BY Pushed DEF Ordered, InVersionOrder
    <3> HIDE DEF r
    <3>2. \A i \in DOMAIN r : Early(r[i])
      BY <1>3, <2>2, <3>1 DEF NothingUnderWay
    <3> QED
      BY <2>2, <3>2 DEF r
  <2> QED
    BY <1>1, <1>3, <2>3 DEF NothingUnderWay
<1> QED
  BY <1>2, <1>3

LEMMA ExecuteUnderWay ==
  ASSUME Ordered, NothingUnderWay, Execute
  PROVE  NothingUnderWay'
<1>1. UNCHANGED <<window, timer, latest>> /\ queue # <<>> /\ queue' = Tail(queue)
  BY ExecuteVersions
<1>2. answers' = answers \/ \E ok : answers' = answers \cup {Answer(Head(queue), ok)}
  BY DEF Execute, Refuse, ExecCreate, ExecAppend, ExecSave, ExecSaveBlocked, ExecDelete, Answers
<1>3. CASE window = "ready"
  BY <1>1, <1>3 DEF NothingUnderWay
<1>4. CASE window # "ready"
  <2>1. \A i \in DOMAIN queue : Early(queue[i])
    BY <1>4 DEF NothingUnderWay
  <2>2. Early(Head(queue)) /\ \A i \in DOMAIN Tail(queue) : Early(Tail(queue)[i])
    BY <1>1, <2>1, Popped DEF Ordered, InVersionOrder
  <2>3. \A a \in answers' : a.cmd = a.of.cmd /\ Early(a.of)
    BY <1>2, <1>4, <2>2 DEF NothingUnderWay, Answer
  <2> QED
    BY <1>1, <1>4, <2>2, <2>3 DEF NothingUnderWay
<1> QED
  BY <1>3, <1>4

LEMMA HandleUnderWay ==
  ASSUME Ordered, NothingUnderWay, NEW a \in answers, Created(a) \/ Appended(a) \/ Saved(a)
  PROVE  NothingUnderWay'
<1>1. UNCHANGED <<window, latest>> /\ answers' \subseteq answers
  BY DEF Created, Appended, Saved, Handles
<1>2. CASE window = "ready"
  BY <1>1, <1>2 DEF NothingUnderWay
<1>3. CASE window # "ready"
  <2>1. a.cmd = a.of.cmd /\ Early(a.of) /\ ~timer /\ window # "down"
    BY <1>3 DEF NothingUnderWay
  <2>2. ~timer'
    BY <2>1 DEF Created, Appended, Saved, Early, saverVars
  <2>3. queue' = queue \/ queue' = queue \o <<Appending(a.of.turn)>>
    BY <2>1 DEF Created, Appended, Saved, Early, Invoke
  <2>4. \A i \in DOMAIN queue' : Early(queue'[i])
    <3> DEFINE c == Appending(a.of.turn)
               r == queue \o <<c>>
    <3>1. Early(c)
      BY <2>1 DEF Early, Appending
    <3> HIDE DEF c
    <3>2. DOMAIN r = DOMAIN queue \cup {Len(queue) + 1} /\ r[Len(queue) + 1] = c
          /\ \A i \in DOMAIN queue : r[i] = queue[i]
      BY Pushed DEF Ordered, InVersionOrder
    <3> HIDE DEF r
    <3>3. \A i \in DOMAIN r : Early(r[i])
      BY <1>3, <3>1, <3>2 DEF NothingUnderWay
    <3> QED
      BY <1>3, <2>3, <3>3 DEF NothingUnderWay, r, c
  <2> QED
    BY <1>1, <1>3, <2>1, <2>2, <2>4 DEF NothingUnderWay
<1> QED
  BY <1>2, <1>3

LEMMA NextIInv ==
  ASSUME IInv, [Next]_vars
  PROVE  IInv'
<1> SUFFICES ASSUME ~undone' PROVE Ordered' /\ NothingUnderWay'
  BY DEF IInv, Ordered
<1> USE DEF storeVars, ipcVars, windowVars, saverVars, deliveryVars, counters
<1>1. ~undone
  BY DEF vars, mishaps, Next, Mount, Hydrate, Crash, Render, TimerFires, Edit, Retitle,
         DeleteHistoryItem, Message, Execute, Refuse, ExecCreate, ExecAppend, ExecSave,
         ExecSaveBlocked, ExecDelete, Executes, Handle, Created, Appended, Saved, NotDeleted,
         RecordDelivery, OnDelivery, PollTaskDeliveries
<1>2. Ordered /\ NothingUnderWay
  BY <1>1 DEF IInv, Ordered
<1>3. CASE UNCHANGED vars
  BY <1>2, <1>3 DEF vars, Ordered, NothingUnderWay
<1>4. CASE Mount
  BY <1>2, <1>4 DEF Mount, Ordered, NothingUnderWay
<1>5. CASE Hydrate
  BY <1>2, <1>5, HydrateOrdered DEF Hydrate, NothingUnderWay
<1>6. CASE Crash
  <2>1. DOMAIN Nothing = {} /\ DOMAIN <<>> = {}
    BY DEF Nothing
  <2>2. NothingUnderWay'
    BY <1>6, <2>1 DEF Crash, NothingUnderWay
  <2> QED
    BY <1>2, <1>6, <2>2, CrashOrdered
<1>7. CASE Render
  <2>1. InVersionOrder(history, history, db, backup.of, queue, clock)
    BY <1>2, Renders DEF Ordered
  <2> QED
    BY <1>7, <2>1 DEF Render, Ordered, NothingUnderWay
<1>8. CASE TimerFires
  BY <1>2, <1>8, TimerFiresOrdered DEF TimerFires, NothingUnderWay
<1>9. CASE \E s \in Sessions : Edit(s) \/ Retitle(s)
  BY <1>2, <1>9, EditOrdered DEF Edit, Retitle, NothingUnderWay
<1>10. CASE \E s \in Sessions : DeleteHistoryItem(s)
  BY <1>2, <1>10, DeleteOrdered DEF DeleteHistoryItem, NothingUnderWay
<1>11. CASE \E t \in Turns : Message(t)
  BY <1>2, <1>11, MessageOrdered, MessageUnderWay
<1>12. CASE Execute
  BY <1>2, <1>12, ExecuteOrdered, ExecuteUnderWay
<1>13. CASE Handle
  <2>1. PICK a \in answers : Created(a) \/ Appended(a) \/ Saved(a)
    BY <1>13 DEF Handle, NotDeleted
  <2> QED
    BY <1>2, <2>1, HandleOrdered, HandleUnderWay
<1>14. CASE \E d \in Deliveries : RecordDelivery(d)
  BY <1>2, <1>14 DEF RecordDelivery, Ordered, NothingUnderWay
<1>15. CASE \E d \in Deliveries : OnDelivery(d)
  BY <1>2, <1>15, OnDeliveryOrdered DEF OnDelivery, NothingUnderWay
<1>16. CASE PollTaskDeliveries
  BY <1>2, <1>16, PollOrdered DEF PollTaskDeliveries, NothingUnderWay
<1> QED
  BY <1>3, <1>4, <1>5, <1>6, <1>7, <1>8, <1>9, <1>10, <1>11, <1>12, <1>13, <1>14, <1>15,
     <1>16 DEF Next

(* The versions stay in order, up to a refused deletion that is undone.        *)
THEOREM VersionsInOrder == Spec => []IInv
  BY InitIInv, NextIInv, PTL DEF Spec

-----------------------------------------------------------------------------
(* No step takes from the tables what it does not replace by the same or a     *)
(* later version with all its turns, or delete.                              *)

Keeps(d, e) ==
  \A s \in DOMAIN d :
    s \in DOMAIN e /\ e[s].rev >= d[s].rev /\ DOMAIN d[s].rows \subseteq DOMAIN e[s].rows

LEMMA KeepsSame ==
  ASSUME NEW d, NEW n, Bounded(d, n)
  PROVE  Keeps(d, d)
  BY DEF Keeps, Bounded

(* A merge of what is no older keeps what is stored, also when it stops early.  *)
LEMMA MergeKeeps ==
  ASSUME NEW d, NEW n, Bounded(d, n), NEW h, NEW done \in SUBSET DOMAIN h,
         \A s \in DOMAIN h : h[s].rev \in Nat, NotAfter(d, h)
  PROVE  /\ Keeps(d, Merge(d, h, done))
         /\ \A s \in DOMAIN h : \A k : Keeps(d, MergePart(Merge(d, h, done), h, s, k))
<1> DEFINE e == Merge(d, h, done)
<1>1. \A rows, turns, k : DOMAIN rows \subseteq DOMAIN Placed(rows, turns, k)
  BY DEF Placed
<1>2. DOMAIN e = DOMAIN d \cup done
      /\ \A s \in DOMAIN e \ done : e[s] = d[s]
  BY DEF Merge
<1>3. ASSUME NEW s \in done
      PROVE  /\ e[s].rev = h[s].rev
             /\ DOMAIN Rows(d, s) \subseteq DOMAIN e[s].rows
  <2>1. e[s] = Record(Placed(Rows(d, s), h[s].turns, Len(h[s].turns)), h[s].rev, h[s].stamp)
    BY DEF Merge
  <2> QED
    BY <1>1, <2>1 DEF Record
<1>4. \A s \in DOMAIN d : Rows(d, s) = d[s].rows
  BY DEF Rows
<1>5. Keeps(d, e)
  <2> SUFFICES ASSUME NEW s \in DOMAIN d
               PROVE  /\ s \in DOMAIN e /\ e[s].rev >= d[s].rev
                      /\ DOMAIN d[s].rows \subseteq DOMAIN e[s].rows
    BY DEF Keeps
  <2> HIDE DEF e
  <2>1. CASE s \in done
    BY <1>2, <1>3, <1>4, <2>1 DEF Bounded, NotAfter
  <2>2. CASE s \notin done
    BY <1>2, <2>2 DEF Bounded
  <2> QED
    BY <2>1, <2>2
<1>6. ASSUME NEW s \in DOMAIN h, NEW k
      PROVE  Keeps(d, MergePart(e, h, s, k))
  <2>1. PICK stamp : MergePart(e, h, s, k) =
                     Put(e, s, Record(Placed(Rows(e, s), h[s].turns, k), h[s].rev, stamp))
    BY DEF MergePart
  <2> DEFINE f == MergePart(e, h, s, k)
  <2> HIDE DEF e
  <2>2. DOMAIN f = DOMAIN e \cup {s} /\ \A x \in DOMAIN f : x # s => f[x] = e[x]
    BY <2>1 DEF Put
  <2>3. f[s].rev = h[s].rev /\ DOMAIN Rows(e, s) \subseteq DOMAIN f[s].rows
    BY <1>1, <2>1 DEF Put, Record
  <2> HIDE DEF f
  <2>4. ASSUME NEW x \in DOMAIN d
        PROVE  x \in DOMAIN f /\ f[x].rev >= d[x].rev /\ DOMAIN d[x].rows \subseteq DOMAIN f[x].rows
    <3>1. x \in DOMAIN e /\ e[x].rev >= d[x].rev /\ DOMAIN d[x].rows \subseteq DOMAIN e[x].rows
      BY <1>5 DEF Keeps
    <3>2. CASE x = s
      BY <2>2, <2>3, <3>1, <3>2 DEF Rows, Bounded, NotAfter
    <3>3. CASE x # s
      BY <2>2, <3>1, <3>3
    <3> QED
      BY <3>2, <3>3
  <2> QED
    BY <2>4 DEF Keeps, f
<1> QED
  BY <1>5, <1>6

LEMMA MergesKeep ==
  ASSUME Ordered, NEW c, CommandBounded(c, clock), WritesAtLeast(c, db), c.cmd = "save",
         Merges(c.payload)
  PROVE  Keeps(db, db')
<1> DEFINE h == c.payload
<1>1. Bounded(db, clock)
  BY DEF Ordered, InVersionOrder
<1>2. \A s \in DOMAIN h : h[s].rev \in Nat
  BY DEF CommandBounded, Writes, RevOf
<1>3. NotAfter(db, h)
  BY DEF WritesAtLeast, Writes, RevOf, NotAfter
<1>4. PICK done \in SUBSET DOMAIN h :
        \/ db' = Merge(db, h, done)
        \/ \E s \in DOMAIN h : \E k : db' = MergePart(Merge(db, h, done), h, s, k)
  BY DEF Merges
<1> HIDE DEF h
<1> QED
  BY <1>1, <1>2, <1>3, <1>4, MergeKeeps

(* What is stored is kept, except that of a session which is being deleted. *)
KeepsOrDeletes ==
  \A s \in DOMAIN db :
    \/ s \in DOMAIN db' /\ db'[s].rev >= db[s].rev /\ DOMAIN db[s].rows \subseteq DOMAIN db'[s].rows
    \/ Deleting(s) /\ (s \in DOMAIN db' => db'[s].rows = Nothing)

LEMMA SaveNotMoot ==
  ASSUME Ordered, queue # <<>>, Head(queue).cmd = "save"
  PROVE  CommandBounded(Head(queue), clock) /\ WritesAtLeast(Head(queue), db)
<1>1. 1 \in DOMAIN queue /\ Head(queue) = queue[1]
  BY Popped DEF Ordered, InVersionOrder
<1>2. ~Moot(queue, db, 1)
  BY <1>1 DEF Moot
<1> QED
  BY <1>1, <1>2 DEF Ordered, InVersionOrder

LEMMA StopKeeps ==
  ASSUME Ordered, queue # <<>>, Stops(Head(queue))
  PROVE  KeepsOrDeletes
<1> DEFINE c == Head(queue)
<1>1. Bounded(db, clock) /\ Keeps(db, db)
  BY KeepsSame DEF Ordered, InVersionOrder
<1>2. CASE db' = db
  BY <1>1, <1>2 DEF Keeps, KeepsOrDeletes
<1>3. CASE c.cmd = "append" /\ AppendStops(c.turn)
  <2>1. ASSUME NEW s \in DOMAIN db
        PROVE  /\ s \in DOMAIN db' /\ db'[s].rev = db[s].rev
               /\ DOMAIN db[s].rows \subseteq DOMAIN db'[s].rows
    BY <1>3 DEF AppendStops, Put, Record
  <2> QED
    BY <1>1, <2>1 DEF Bounded, KeepsOrDeletes
<1>4. CASE c.cmd = "save" /\ SaveStops(c.payload)
  <2>1. Merges(c.payload)
    BY <1>4, PartMerges, WholeMerges DEF SaveStops
  <2>2. Keeps(db, db')
    BY <1>4, <2>1, SaveNotMoot, MergesKeep
  <2> QED
    BY <2>2 DEF Keeps, KeepsOrDeletes
<1>5. CASE c.cmd = "delete" /\ DeleteStops(c.session)
  <2>1. Deleting(c.session)
    BY <1>5 DEF Deleting
  <2>2. \A s \in DOMAIN db : s # c.session => s \in DOMAIN db' /\ db'[s] = db[s]
    BY <1>5 DEF DeleteStops, Put, Drop
  <2>3. c.session \in DOMAIN db' => db'[c.session].rows = Nothing
    BY <1>5 DEF DeleteStops, Put, Drop, Record
  <2> QED
    BY <1>1, <2>1, <2>2, <2>3 DEF Keeps, KeepsOrDeletes
<1> QED
  BY <1>2, <1>3, <1>4, <1>5 DEF Stops

LEMMA ExecuteKeeps ==
  ASSUME Ordered, Execute
  PROVE  KeepsOrDeletes
<1>1. Bounded(db, clock) /\ Keeps(db, db)
  BY KeepsSame DEF Ordered, InVersionOrder
<1>2. CASE Refuse
  BY <1>2, StopKeeps DEF Refuse
<1>3. CASE ExecCreate
  <2>1. \A s \in DOMAIN db : s \in DOMAIN db' /\ db'[s] = db[s]
    BY <1>3 DEF ExecCreate, Put
  <2> QED
    BY <1>1, <2>1 DEF Keeps, KeepsOrDeletes
<1>4. CASE ExecAppend
  <2>1. ASSUME NEW s \in DOMAIN db
        PROVE  /\ s \in DOMAIN db' /\ db'[s].rev = db[s].rev
               /\ DOMAIN db[s].rows \subseteq DOMAIN db'[s].rows
    BY <1>4 DEF ExecAppend, Put, Record
  <2> QED
    BY <1>1, <2>1 DEF Bounded, KeepsOrDeletes
<1>5. CASE ExecSave \/ ExecSaveBlocked
  <2>1. Head(queue).cmd = "save" /\ queue # <<>>
    BY <1>5 DEF ExecSave, ExecSaveBlocked, Executes
  <2>2. Merges(Head(queue).payload)
    BY <1>5, WholeMerges DEF ExecSave, ExecSaveBlocked, Blocked, Merges
  <2>3. Keeps(db, db')
    BY <2>1, <2>2, SaveNotMoot, MergesKeep
  <2> QED
    BY <2>3 DEF Keeps, KeepsOrDeletes
<1>6. CASE ExecDelete
  <2>1. db' = Drop(db, Head(queue).session) /\ Deleting(Head(queue).session)
    BY <1>6 DEF ExecDelete, Executes, Deleting
  <2> QED
    BY <1>1, <2>1 DEF Drop, Keeps, KeepsOrDeletes
<1> QED
  BY <1>2, <1>3, <1>4, <1>5, <1>6 DEF Execute

LEMMA StepKeeps ==
  ASSUME IInv, [Next]_vars
  PROVE  undone \/ KeepsOrDeletes
<1> SUFFICES ASSUME ~undone PROVE KeepsOrDeletes
  OBVIOUS
<1>1. Ordered
  BY DEF IInv, Ordered
<1>2. CASE Execute
  BY <1>1, <1>2, ExecuteKeeps
<1>3. CASE DOMAIN db = {} \/ db' = db
  <2>1. Keeps(db, db)
    BY <1>1, KeepsSame DEF Ordered, InVersionOrder
  <2> QED
    BY <1>3, <2>1 DEF Keeps, KeepsOrDeletes
<1>4. CASE Hydrate
  <2>1. DOMAIN db = {} \/ db' = db
    BY <1>4, LoadedVersions DEF Hydrate
  <2> QED
    BY <1>3, <2>1
<1>5. CASE Crash
  <2>1. CASE queue # <<>> /\ Stops(Head(queue))
    BY <1>1, <2>1, StopKeeps
  <2>2. CASE UNCHANGED storeVars \/ LoadStops
    <3>1. DOMAIN db = {} \/ db' = db
      BY <2>2, LoadedVersions DEF storeVars
    <3> QED
      BY <1>3, <3>1
  <2> QED
    BY <1>5, <2>1, <2>2 DEF Crash
<1> QED
  BY <1>2, <1>3, <1>4, <1>5
  DEF vars, storeVars, Next, Mount, Render, TimerFires, Edit, Retitle, DeleteHistoryItem,
      Message, Handle, Handles, Created, Appended, Saved, NotDeleted, RecordDelivery, OnDelivery,
      PollTaskDeliveries

(* What is stored of a session is never replaced by something older, whatever   *)
(* is saved, loaded, deleted or delivered meanwhile and wherever it stops.     *)
THEOREM NeverOlder == Spec => StoredNeverOlder
<1>1. IInv /\ [Next]_vars =>
        [\A s \in DOMAIN db :
           \/ undone
           \/ s \in DOMAIN db' /\ db'[s].rev >= db[s].rev /\ DOMAIN db[s].rows \subseteq DOMAIN db'[s].rows
           \/ Deleting(s) /\ (s \in DOMAIN db' => db'[s].rows = Nothing)]_vars
  BY StepKeeps DEF KeepsOrDeletes
<1> QED
  BY <1>1, VersionsInOrder, PTL DEF Spec, StoredNeverOlder

-----------------------------------------------------------------------------
(* A deleted session stays deleted: neither the window nor a command that is   *)
(* queued behind the deletion has it. Nothing is said of what is stranded.     *)

Doomed(s) == s \in gone \ stranded \/ \E i \in DOMAIN queue : Deletes(queue[i], s)

(* Nothing shows, stores or names the session, and nothing is about to.       *)
Untouched(s) ==
  /\ s \notin gone \cup DOMAIN history \cup DOMAIN latest \cup bots
  /\ s \notin DOMAIN db \cup DOMAIN backup.of
  /\ \A i \in DOMAIN queue : ~Writes(queue[i], s) /\ ~Deletes(queue[i], s)

UnknownIsUntouched == \A s \in Sessions : ~Known(s) => Untouched(s)

(* The session of a delivery has its id, and nothing else, until the window    *)
(* hears of it.                                                              *)
PostedIsUntouched == \A d \in posted : d \in Deliveries \cap sent /\ Untouched(Home[d])

DeletedIsHidden == \A s \in DOMAIN history \cup DOMAIN latest : ~Doomed(s)

NotWrittenAgain ==
  \A i \in DOMAIN queue : queue[i].cmd = "save" =>
    \A s \in DOMAIN queue[i].payload :
      s \notin gone \ stranded /\ \A j \in DOMAIN queue : j < i => ~Deletes(queue[j], s)

(* The backup knows its fingerprint, and is empty if deletions emptied the     *)
(* tables, or all that it holds is stranded: it puts nothing else back that was *)
(* deleted.                                                                  *)
Marked(b) == b.mark = {} \/ b.mark = {Fingerprint(b.of)}

BackupFollows ==
  /\ Marked(backup) \/ DOMAIN backup.of \subseteq stranded
  /\ DOMAIN db = {} /\ gone # {} => DOMAIN backup.of \subseteq stranded

DeletionInv ==
  /\ gone \cap DOMAIN db \subseteq stranded
  /\ UnknownIsUntouched /\ PostedIsUntouched
  /\ DeletedIsHidden /\ NotWrittenAgain /\ BackupFollows

(* Steps of the window: it may show sessions of S that nothing touched, and    *)
(* one command may be queued.                                                *)
MayQueue(c, S) ==
  /\ queue' = queue \o <<c>>
  /\ c.cmd = "save" => c.payload = latest
  /\ c.cmd = "create" => Home[c.turn] \in S
  /\ c.cmd = "delete" =>
       c.session \in DOMAIN latest /\ c.session \notin DOMAIN history' \cup DOMAIN latest'

WindowStep(S) ==
  /\ UNCHANGED <<db, backup, gone, stranded>> /\ sent \subseteq sent'
  /\ \A s \in S : Known(s)' /\ \A d \in posted' : Home[d] # s
  /\ \A d \in posted' : d \in posted \/ (d \in Deliveries \cap sent' /\ ~Known(Home[d]))
  /\ DOMAIN latest' \subseteq DOMAIN history \cup DOMAIN latest
  /\ \A s \in DOMAIN history' :
       s \in DOMAIN history \cup DOMAIN latest \/ (s \in S /\ Untouched(s))
  /\ bots' \subseteq bots \cup S
  /\ queue' = queue \/ \E c : MayQueue(c, S)

LEMMA WindowDeletes ==
  ASSUME IsSeq(queue), DeletionInv, NEW S, WindowStep(S)
  PROVE  DeletionInv'
<1>1. /\ \A d \in posted' : Home[d] \in Sessions /\ d \in Deliveries \cap sent'
      /\ \A d \in posted' : Untouched(Home[d])
  BY HistoryAssumption DEF WindowStep, DeletionInv, PostedIsUntouched, UnknownIsUntouched
<1>2. \A s : Known(s) => Known(s)'
  BY DEF WindowStep, Known
<1>3. ASSUME NEW c, MayQueue(c, S)
      PROVE  DeletionInv'
  <2> DEFINE m == Len(queue) + 1
             r == queue \o <<c>>
  <2>0. /\ DOMAIN r = DOMAIN queue \cup {m} /\ r[m] = c
        /\ \A i \in DOMAIN queue : r[i] = queue[i] /\ i \in Nat /\ i < m
        /\ Len(queue) \in Nat
    BY Pushed
  <2> USE <1>3 DEF WindowStep, MayQueue
  <2>1. /\ DOMAIN queue' = DOMAIN queue \cup {m} /\ queue'[m] = c
        /\ \A i \in DOMAIN queue : queue'[i] = queue[i] /\ i \in Nat /\ i < m
        /\ m \in Nat
    <3>1. queue' = r /\ m \in Nat
      BY <1>3, <2>0
    <3> HIDE DEF r, m
    <3> QED
      BY <2>0, <3>1
  <2> HIDE DEF m, r
  <2>2. \A s : Untouched(s) /\ s \notin S => Untouched(s)'
    BY <1>3, <2>1 DEF Untouched, Writes, Deletes
  <2>3. UnknownIsUntouched' /\ PostedIsUntouched'
    <3>1. UnknownIsUntouched'
      BY <1>2, <2>2 DEF DeletionInv, UnknownIsUntouched
    <3>2. PostedIsUntouched'
      BY <1>1, <2>2 DEF PostedIsUntouched
    <3> QED
      BY <3>1, <3>2
  <2>4. DeletedIsHidden'
    <3> SUFFICES ASSUME NEW s \in DOMAIN history' \cup DOMAIN latest'
                 PROVE  s \notin gone \ stranded /\ \A i \in DOMAIN queue' : ~Deletes(queue'[i], s)
      BY DEF DeletedIsHidden, Doomed, Deletes
    <3>1. ~Doomed(s)
      BY DEF DeletionInv, DeletedIsHidden, Untouched, Doomed
    <3> QED
      BY <1>3, <2>1, <3>1 DEF Doomed, Deletes
  <2>5. NotWrittenAgain'
    <3> SUFFICES ASSUME NEW i \in DOMAIN queue', queue'[i].cmd = "save",
                        NEW s \in DOMAIN queue'[i].payload
                 PROVE  /\ s \notin gone \ stranded
                        /\ \A j \in DOMAIN queue' : j < i => ~Deletes(queue'[j], s)
      BY DEF NotWrittenAgain, Deletes
    <3>1. CASE i \in DOMAIN queue
      BY <2>1, <3>1 DEF DeletionInv, NotWrittenAgain
    <3>2. CASE i = m
      <4>1. ~Doomed(s)
        BY <1>3, <2>1, <3>2 DEF DeletionInv, DeletedIsHidden
      <4> QED
        BY <2>1, <3>2, <4>1 DEF Doomed
    <3> QED
      BY <2>1, <3>1, <3>2
  <2>6. BackupFollows'
    BY DEF DeletionInv, BackupFollows, Marked, Fingerprint
  <2> QED
    BY <2>3, <2>4, <2>5, <2>6 DEF DeletionInv
<1>4. CASE queue' = queue
  <2> USE DEF WindowStep
  <2>2. \A s : Untouched(s) /\ s \notin S => Untouched(s)'
    BY <1>4 DEF Untouched, Writes, Deletes
  <2>3. UnknownIsUntouched'
    BY <1>2, <2>2 DEF DeletionInv, UnknownIsUntouched
  <2>4. PostedIsUntouched'
    BY <1>1, <2>2 DEF PostedIsUntouched
  <2>5. DeletedIsHidden'
    BY <1>4 DEF DeletionInv, DeletedIsHidden, Untouched, Doomed, Deletes
  <2>6. NotWrittenAgain' /\ BackupFollows'
    BY <1>4 DEF DeletionInv, NotWrittenAgain, BackupFollows, Marked, Fingerprint, Deletes
  <2> QED
    BY <2>3, <2>4, <2>5, <2>6 DEF DeletionInv
<1> QED
  BY <1>3, <1>4 DEF WindowStep

(* The steps of the window *)

LEMMA InitDeletes == Init => DeletionInv
<1> SUFFICES ASSUME Init PROVE DeletionInv
  OBVIOUS
<1>1. DOMAIN <<>> = {} /\ DOMAIN Nothing = {} /\ \A s \in DOMAIN backup.of : s \in Legacy
  BY DEF Init, Nothing
<1>2. UnknownIsUntouched
  BY <1>1 DEF Init, UnknownIsUntouched, Untouched, Known
<1> QED
  BY <1>1, <1>2 DEF Init, DeletionInv, PostedIsUntouched, DeletedIsHidden, NotWrittenAgain,
                    BackupFollows, Marked

(* What shows nothing more and queues nothing.                                *)
LEMMA QuietDeletes ==
  ASSUME IsSeq(queue), DeletionInv, UNCHANGED <<db, backup, gone, stranded, queue, sent>>,
         posted' \subseteq posted, bots' = bots,
         DOMAIN history' \subseteq DOMAIN history,
         DOMAIN latest' \subseteq DOMAIN history \cup DOMAIN latest
  PROVE  DeletionInv'
<1>1. WindowStep({})
  BY DEF WindowStep
<1> QED
  BY <1>1, WindowDeletes

LEMMA MessageDeletes ==
  ASSUME IsSeq(queue), DeletionInv, NEW t \in Turns, Message(t)
  PROVE  DeletionInv'
<1> DEFINE s == Home[t]
           S == {s}
           c == IF s \in DOMAIN latest THEN Appending(t) ELSE Creation(t, clock + 1)
<1>1. s \in Sessions /\ UNCHANGED <<db, backup, gone, stranded, posted>> /\ sent' = sent \cup {t}
      /\ latest' = latest /\ bots' \subseteq bots \cup S /\ queue' = queue \o <<c>>
  BY HistoryAssumption DEF Message, Invoke, storeVars, deliveryVars
<1>2. Known(s)'
  BY <1>1 DEF Known
<1>3. Known(s) => s \in DOMAIN latest \cup bots
  BY DEF Message
<1>4. \A d \in posted : Known(Home[d]) /\ Untouched(Home[d])
  BY DEF DeletionInv, PostedIsUntouched, Known
<1>5. ~Known(s) => Untouched(s)
  BY <1>1 DEF DeletionInv, UnknownIsUntouched
<1>6. \A d \in posted' : Home[d] # s /\ d \in posted
  BY <1>1, <1>3, <1>4 DEF Untouched
<1>7. DOMAIN history' \subseteq DOMAIN history \cup S
      /\ (Known(s) => DOMAIN history' \subseteq DOMAIN history)
  BY DEF Message, WithTurn, Put
<1>8. c.cmd # "save" /\ c.cmd # "delete" /\ (c.cmd = "create" => Home[c.turn] \in S)
  BY DEF Appending, Creation
<1> HIDE DEF s, c
<1>9. \A x \in DOMAIN history' : x \in DOMAIN history \/ (x \in S /\ Untouched(x))
  BY <1>5, <1>7
<1>10. MayQueue(c, S)
  BY <1>1, <1>8 DEF MayQueue
<1>11. WindowStep(S)
  BY <1>1, <1>2, <1>6, <1>9, <1>10 DEF WindowStep
<1> QED
  BY <1>11, WindowDeletes

LEMMA DeleteHistoryItemDeletes ==
  ASSUME IsSeq(queue), DeletionInv, NEW s \in Sessions, DeleteHistoryItem(s)
  PROVE  DeletionInv'
<1> DEFINE c == Deletion(s, latest)
<1>1. UNCHANGED <<db, backup, gone, stranded, posted, sent, bots>> /\ queue' = queue \o <<c>>
      /\ s \in DOMAIN latest
  BY DEF DeleteHistoryItem, Invoke, storeVars, deliveryVars
<1>2. DOMAIN history' = DOMAIN latest \ {s} /\ DOMAIN latest' = DOMAIN latest \ {s}
  BY DEF DeleteHistoryItem, RemoveShown, Drop
<1>3. c.cmd = "delete" /\ c.session = s
  BY DEF Deletion
<1> HIDE DEF c
<1>4. MayQueue(c, {})
  BY <1>1, <1>2, <1>3 DEF MayQueue
<1>5. WindowStep({})
  BY <1>1, <1>2, <1>4 DEF WindowStep
<1> QED
  BY <1>5, WindowDeletes

LEMMA TimerFiresDeletes ==
  ASSUME IsSeq(queue), DeletionInv, TimerFires
  PROVE  DeletionInv'
<1> DEFINE c == Saving(latest, TRUE)
<1>1. UNCHANGED <<db, backup, gone, stranded, posted, sent, bots, history, latest>>
      /\ (queue' = queue \/ queue' = queue \o <<c>>)
  BY DEF TimerFires, Flush, Invoke, storeVars, deliveryVars
<1>2. c.cmd = "save" /\ c.payload = latest
  BY DEF Saving
<1> HIDE DEF c
<1>3. queue' = queue \/ MayQueue(c, {})
  BY <1>1, <1>2 DEF MayQueue
<1>4. WindowStep({})
  BY <1>1, <1>3 DEF WindowStep
<1> QED
  BY <1>4, WindowDeletes

LEMMA HandleDeletes ==
  ASSUME IsSeq(queue), DeletionInv, NEW a \in answers, Created(a) \/ Appended(a) \/ Saved(a)
  PROVE  DeletionInv'
<1> DEFINE c == Appending(a.of.turn)
           e == Saving(latest, TRUE)
<1>1. UNCHANGED <<db, backup, gone, stranded, posted, sent, bots, history, latest>>
  BY DEF Created, Appended, Saved, Handles, storeVars, deliveryVars
<1>2. queue' = queue \/ queue' = queue \o <<c>> \/ queue' = queue \o <<e>>
  BY DEF Created, Appended, Saved, SavedThen, Invoke
<1>3. c.cmd = "append" /\ e.cmd = "save" /\ e.payload = latest
  BY DEF Appending, Saving
<1> HIDE DEF c, e
<1>4. queue' = queue \/ MayQueue(c, {}) \/ MayQueue(e, {})
  BY <1>2, <1>3 DEF MayQueue
<1>5. WindowStep({})
  BY <1>1, <1>4 DEF WindowStep
<1> QED
  BY <1>5, WindowDeletes

LEMMA RecordDeliveryDeletes ==
  ASSUME IsSeq(queue), DeletionInv, NEW d \in Deliveries, RecordDelivery(d)
  PROVE  DeletionInv'
<1>1. UNCHANGED <<db, backup, gone, stranded, queue, bots, history, latest>>
      /\ sent' = sent \cup {d} /\ posted' \subseteq posted \cup {d} /\ ~Known(Home[d])
  BY DEF RecordDelivery, windowVars, ipcVars, storeVars
<1>2. WindowStep({})
  BY <1>1 DEF WindowStep
<1> QED
  BY <1>2, WindowDeletes

LEMMA OnDeliveryDeletes ==
  ASSUME IsSeq(queue), DeletionInv, NEW d \in Deliveries, OnDelivery(d)
  PROVE  DeletionInv'
<1> DEFINE s == Home[d]
           S == {s}
<1>1. UNCHANGED <<db, backup, gone, stranded, queue, bots, latest, sent>>
      /\ d \in posted /\ posted' = posted \ {d}
  BY DEF OnDelivery, ipcVars, storeVars
<1>2. Untouched(s) /\ d \in sent /\ \A e \in posted' : e \in Deliveries
  BY <1>1 DEF DeletionInv, PostedIsUntouched
<1>3. Known(s)'
  BY <1>1, <1>2 DEF Known
<1>4. \A e \in posted' : Home[e] # s
  BY <1>1, <1>2, HistoryAssumption
<1>5. DOMAIN history' \subseteq DOMAIN history \cup S
  BY DEF OnDelivery, WithTurn, Put
<1> HIDE DEF s
<1>6. WindowStep(S)
  BY <1>1, <1>2, <1>3, <1>4, <1>5 DEF WindowStep
<1> QED
  BY <1>6, WindowDeletes

LEMMA WindowKeepsDeleted ==
  ASSUME IsSeq(queue), DeletionInv, ~undone',
         \/ UNCHANGED vars \/ Mount \/ Render \/ TimerFires
         \/ \E s \in Sessions : Edit(s) \/ Retitle(s) \/ DeleteHistoryItem(s)
         \/ \E t \in Turns : Message(t)
         \/ Handle
         \/ \E d \in Deliveries : RecordDelivery(d) \/ OnDelivery(d)
         \/ PollTaskDeliveries
  PROVE  DeletionInv'
<1> USE DEF storeVars, ipcVars, windowVars, saverVars, deliveryVars
<1>1. CASE UNCHANGED vars
  BY <1>1, QuietDeletes DEF vars
<1>2. CASE Mount
  BY <1>2, QuietDeletes DEF Mount
<1>3. CASE Render
  BY <1>3, QuietDeletes DEF Render
<1>4. CASE \E s \in Sessions : Edit(s) \/ Retitle(s)
  <2>1. UNCHANGED <<db, backup, gone, stranded, queue, sent, posted, bots, latest>>
    BY <1>4 DEF Edit, Retitle
  <2>2. DOMAIN history' = DOMAIN history
    BY <1>4 DEF Edit, Retitle, Put
  <2> QED
    BY <2>1, <2>2, QuietDeletes
<1>5. CASE PollTaskDeliveries
  <2>1. UNCHANGED <<db, backup, gone, stranded, queue, sent, posted, bots, latest>>
    BY <1>5 DEF PollTaskDeliveries
  <2>2. DOMAIN history' = DOMAIN history
    BY <1>5 DEF PollTaskDeliveries
  <2> QED
    BY <2>1, <2>2, QuietDeletes
<1>6. CASE Handle
  <2>1. PICK a \in answers : Created(a) \/ Appended(a) \/ Saved(a)
    BY <1>6 DEF Handle, NotDeleted
  <2> QED
    BY <2>1, HandleDeletes
<1> QED
  BY <1>1, <1>2, <1>3, <1>4, <1>5, <1>6, TimerFiresDeletes, DeleteHistoryItemDeletes,
     MessageDeletes, RecordDeliveryDeletes, OnDeliveryDeletes

(* The copy of the tables *)

(* A copy that has no session left where the tables have none.                 *)
LEMMA SyncedFollows ==
  ASSUME NEW d, NEW b, NEW S, Marked(b) \/ DOMAIN b.of \subseteq S, DOMAIN b.of \subseteq Sessions
  PROVE  /\ Marked(Synced(d, b)) \/ DOMAIN Synced(d, b).of \subseteq S
         /\ DOMAIN d = {} => DOMAIN Synced(d, b).of \subseteq S
<1>1. CASE Fingerprint(d) \notin b.mark
  BY <1>1 DEF Synced, Marked
<1>2. CASE Fingerprint(d) \in b.mark /\ Marked(b)
  <2>1. Synced(d, b) = b
    BY <1>2 DEF Synced
  <2>2. Cardinality(DOMAIN d) = Cardinality(DOMAIN b.of)
    <3>1. Fingerprint(d) = Fingerprint(b.of)
      BY <1>2 DEF Marked
    <3>2. /\ Fingerprint(d).sessions = Cardinality(DOMAIN d)
          /\ Fingerprint(b.of).sessions = Cardinality(DOMAIN b.of)
      BY DEF Fingerprint
    <3> QED
      BY <3>1, <3>2
  <2>3. IsFiniteSet(DOMAIN b.of)
    BY HistoryAssumption, FS_Subset
  <2>4. DOMAIN d = {} => DOMAIN b.of = {}
    BY <2>2, <2>3, FS_EmptySet
  <2> QED
    BY <1>2, <2>1, <2>4
<1>3. CASE Fingerprint(d) \in b.mark /\ DOMAIN b.of \subseteq S
  BY <1>3 DEF Synced
<1> QED
  BY <1>1, <1>2, <1>3

(* A copy that is rewritten whole follows the tables.                          *)
LEMMA SyncFollows ==
  ASSUME Ordered, DeletionInv, backup' = Synced(db', backup), stranded' = stranded
  PROVE  BackupFollows'
<1>1. DOMAIN backup.of \subseteq Sessions /\ (Marked(backup) \/ DOMAIN backup.of \subseteq stranded)
  BY DEF DeletionInv, BackupFollows, Ordered, InVersionOrder, Bounded
<1>2. PICK d : d = db'
  OBVIOUS
<1>3. PICK b : b = Synced(d, backup)
  OBVIOUS
<1>4. /\ Marked(b) \/ DOMAIN b.of \subseteq stranded
      /\ DOMAIN d = {} => DOMAIN b.of \subseteq stranded
  BY <1>1, <1>3, SyncedFollows
<1>5. backup' = b /\ db' = d
  BY <1>2, <1>3
<1> QED
  BY <1>4, <1>5 DEF BackupFollows, Marked, Fingerprint

(* What is stranded need not follow.                                          *)
LEMMA StrandFollows ==
  ASSUME DeletionInv, Strand
  PROVE  stranded \subseteq stranded' /\ BackupFollows'
<1>1. stranded \subseteq stranded'
  BY DEF Strand
<1>2. CASE backup' # backup \/ (DOMAIN db' = {} /\ gone' # {})
  <2>1. DOMAIN (backup.of)' \subseteq stranded'
    BY <1>2 DEF Strand
  <2> QED
    BY <1>1, <2>1 DEF BackupFollows
<1>3. CASE backup' = backup /\ ~(DOMAIN db' = {} /\ gone' # {})
  BY <1>1, <1>3 DEF DeletionInv, BackupFollows, Marked, Fingerprint
<1> QED
  BY <1>2, <1>3, <1>1

(* A save has no session that was deleted before it.                           *)
LEMMA SaveDeletes ==
  ASSUME Ordered, DeletionInv, queue # <<>>, Head(queue).cmd = "save",
         Merges(Head(queue).payload)
  PROVE  gone \cap DOMAIN db' \subseteq stranded /\ DOMAIN db \subseteq DOMAIN db'
<1> DEFINE h == Head(queue).payload
<1>1. 1 \in DOMAIN queue /\ Head(queue) = queue[1]
  BY Popped DEF Ordered, InVersionOrder
<1>2. gone \cap DOMAIN h \subseteq stranded
  BY <1>1 DEF DeletionInv, NotWrittenAgain
<1>3. DOMAIN db \subseteq DOMAIN db' /\ DOMAIN db' \subseteq DOMAIN db \cup DOMAIN h
  BY MergedVersions
<1> HIDE DEF h
<1> QED
  BY <1>2, <1>3 DEF DeletionInv

LEMMA StopDeletes ==
  ASSUME Ordered, DeletionInv, queue # <<>>, Stops(Head(queue))
  PROVE  /\ \A s \in gone' : s \in gone \/ Deletes(Head(queue), s)
         /\ gone' \cap DOMAIN db' \subseteq stranded'
         /\ stranded \subseteq stranded' /\ BackupFollows'
<1> DEFINE c == Head(queue)
<1>1. stranded \subseteq stranded' /\ BackupFollows'
  BY StrandFollows DEF Stops
<1>2. gone \cap DOMAIN db \subseteq stranded
  BY DEF DeletionInv
<1>3. CASE UNCHANGED <<db, backup, gone>>
  BY <1>1, <1>2, <1>3
<1>4. CASE c.cmd = "append" /\ AppendStops(c.turn)
  <2>1. gone' = gone /\ DOMAIN db' = DOMAIN db
    BY <1>4 DEF AppendStops, Put
  <2> QED
    BY <1>1, <1>2, <2>1
<1>5. CASE c.cmd = "save" /\ SaveStops(c.payload)
  <2>1. Merges(c.payload) /\ gone' = gone
    BY <1>5, PartMerges, WholeMerges DEF SaveStops
  <2>2. gone \cap DOMAIN db' \subseteq stranded
    BY <1>5, <2>1, SaveDeletes
  <2> QED
    BY <1>1, <2>1, <2>2
<1>6. CASE c.cmd = "delete" /\ DeleteStops(c.session)
  <2>1. \/ gone' = gone /\ DOMAIN db' = DOMAIN db
        \/ gone' = gone \cup {c.session} /\ DOMAIN db' = DOMAIN db \ {c.session}
    BY <1>6 DEF DeleteStops, Put, Drop
  <2>2. \A s \in gone' : s \in gone \/ Deletes(c, s)
    BY <1>6, <2>1 DEF Deletes
  <2> HIDE DEF c
  <2>3. gone' \cap DOMAIN db' \subseteq stranded'
    BY <1>1, <1>2, <2>1
  <2> QED
    BY <1>1, <2>2, <2>3 DEF c
<1> QED
  BY <1>3, <1>4, <1>5, <1>6 DEF Stops

(* An emptied database is refilled only with what is stranded.                 *)
LEMMA LoadDeletes ==
  ASSUME Ordered, DeletionInv, Loads \/ LoadStops
  PROVE  /\ gone' = gone /\ stranded \subseteq stranded'
         /\ gone' \cap DOMAIN db' \subseteq stranded'
         /\ BackupFollows'
<1>1. gone' = gone /\ stranded \subseteq stranded'
  BY DEF Loads, LoadStops, Strand
<1>2. gone \cap DOMAIN db' \subseteq stranded
  <2>1. CASE DOMAIN db = {} /\ gone # {}
    <3>1. \A s \in DOMAIN db' : s \in DOMAIN backup.of
      BY <2>1, LoadedVersions
    <3> QED
      BY <2>1, <3>1 DEF DeletionInv, BackupFollows
  <2>2. CASE db' = db
    BY <2>2 DEF DeletionInv
  <2> QED
    BY <2>1, <2>2, LoadedVersions
<1>3. BackupFollows'
  <2>1. CASE Loads
    BY <2>1, SyncFollows DEF Loads
  <2>2. CASE LoadStops
    BY <2>2, StrandFollows DEF LoadStops
  <2> QED
    BY <2>1, <2>2
<1> QED
  BY <1>1, <1>2, <1>3

LEMMA CrashKeepsDeleted ==
  ASSUME Ordered, DeletionInv, Crash
  PROVE  DeletionInv'
<1>1. /\ DOMAIN history' = {} /\ DOMAIN latest' = {} /\ bots' = {} /\ posted' = {}
      /\ DOMAIN queue' = {} /\ sent' = sent
  BY DEF Crash, Nothing
<1>2. \A s : Untouched(s) => s \notin gone' \cup DOMAIN db' \cup DOMAIN (backup.of)'
  <2>1. CASE UNCHANGED storeVars
    BY <2>1 DEF storeVars, Untouched
  <2>2. CASE LoadStops
    <3>1. /\ \A s \in DOMAIN db' : s \in DOMAIN db \cup DOMAIN backup.of
          /\ (backup.of)' \in {backup.of, db'}
      BY <2>2, LoadedVersions
    <3>2. gone' = gone
      BY <2>2 DEF LoadStops
    <3> QED
      BY <3>1, <3>2 DEF Untouched
  <2>3. CASE queue # <<>> /\ Stops(Head(queue))
    <3>1. Rewrites(Head(queue))
      BY <2>3, HeadBounded, StopVersions
    <3>2. \A s \in gone' : s \in gone \/ Deletes(Head(queue), s)
      BY <2>3 DEF Stops, AppendStops, SaveStops, DeleteStops, Deletes
    <3>3. 1 \in DOMAIN queue /\ Head(queue) = queue[1]
      BY <2>3, Popped DEF Ordered, InVersionOrder
    <3> QED
      BY <3>1, <3>2, <3>3 DEF Untouched, Rewrites
  <2> QED
    BY <2>1, <2>2, <2>3 DEF Crash
<1>3. UnknownIsUntouched'
  BY <1>1, <1>2 DEF DeletionInv, UnknownIsUntouched, Untouched, Known
<1>4. gone' \cap DOMAIN db' \subseteq stranded' /\ BackupFollows'
  BY StopDeletes, LoadDeletes DEF Crash, DeletionInv, BackupFollows, Marked, Fingerprint, storeVars
<1> QED
  BY <1>1, <1>3, <1>4 DEF DeletionInv, PostedIsUntouched, DeletedIsHidden, NotWrittenAgain

(* What is loaded when the application starts has no deleted session.          *)
LEMMA HydrateKeepsDeleted ==
  ASSUME Ordered, NothingUnderWay, DeletionInv, Hydrate
  PROVE  DeletionInv'
<1>0. Loads \/ LoadStops
  BY DEF Hydrate
<1>1. /\ \A i \in DOMAIN queue : Early(queue[i])
      /\ DOMAIN latest = {} /\ UNCHANGED <<latest, posted, sent>>
  BY DEF Hydrate, NothingUnderWay, deliveryVars
<1>2. PICK y \in Yields(db') :
        /\ history' = y.history
        /\ bots' \subseteq DOMAIN y.history
        /\ IF y.repair /\ DOMAIN y.history # {}
             THEN Invoke(<<Saving(y.history, FALSE)>>)
             ELSE UNCHANGED queue
  BY DEF Hydrate
<1>3. DOMAIN history' \subseteq DOMAIN db' /\ bots' \subseteq DOMAIN db'
  BY <1>2, YieldedVersions
<1>4. /\ gone' = gone /\ stranded \subseteq stranded'
      /\ gone' \cap DOMAIN db' \subseteq stranded' /\ BackupFollows'
  BY <1>0, LoadDeletes
<1>5. /\ \A s \in DOMAIN db' : s \in DOMAIN db \cup DOMAIN backup.of
      /\ (backup.of)' \in {backup.of, db'}
  BY <1>0, LoadedVersions
<1>6. \A i \in DOMAIN queue' :
        \/ Early(queue'[i]) /\ i \in DOMAIN queue /\ queue'[i] = queue[i]
        \/ queue'[i].cmd = "save" /\ DOMAIN queue'[i].payload \subseteq DOMAIN db'
  <2> DEFINE c == Saving(history', FALSE)
             r == queue \o <<c>>
  <2>1. c.cmd = "save" /\ DOMAIN c.payload \subseteq DOMAIN db'
    BY <1>3 DEF Saving
  <2>2. queue' = queue \/ queue' = r
    BY <1>2 DEF Invoke
  <2> HIDE DEF c
  <2>3. DOMAIN r = DOMAIN queue \cup {Len(queue) + 1} /\ r[Len(queue) + 1] = c
        /\ \A i \in DOMAIN queue : r[i] = queue[i]
    BY Pushed DEF Ordered, InVersionOrder
  <2> HIDE DEF r
  <2> QED
    BY <1>1, <2>1, <2>2, <2>3
<1>7. \A i \in DOMAIN queue' : \A s : ~Deletes(queue'[i], s)
  BY <1>6 DEF Early, Deletes
<1>8. ASSUME NEW s, Untouched(s)
      PROVE  Untouched(s)'
  <2>1. s \notin DOMAIN db' \cup DOMAIN (backup.of)'
    BY <1>5, <1>8 DEF Untouched
  <2>2. s \notin gone' \cup DOMAIN history' \cup DOMAIN latest' \cup bots'
    BY <1>1, <1>3, <1>4, <1>8, <2>1 DEF Untouched
  <2>3. \A i \in DOMAIN queue' : ~Writes(queue'[i], s)
    BY <1>6, <1>8, <2>1 DEF Untouched, Writes
  <2> QED
    BY <1>7, <2>1, <2>2, <2>3 DEF Untouched, Writes, Deletes
<1>9. UnknownIsUntouched' /\ PostedIsUntouched'
  BY <1>1, <1>8 DEF DeletionInv, UnknownIsUntouched, PostedIsUntouched, Known
<1>10. DeletedIsHidden'
  BY <1>1, <1>3, <1>4, <1>7 DEF DeletedIsHidden, Doomed, Deletes
<1>11. NotWrittenAgain'
  BY <1>4, <1>6, <1>7 DEF NotWrittenAgain, Early, Deletes
<1> QED
  BY <1>4, <1>9, <1>10, <1>11 DEF DeletionInv

(* A command deletes what it is to delete, and writes nothing that is deleted. *)
LEMMA ExecuteDeletes ==
  ASSUME Ordered, DeletionInv, Execute
  PROVE  /\ \A s \in gone' : s \in gone \/ Deletes(Head(queue), s)
         /\ gone' \cap DOMAIN db' \subseteq stranded'
         /\ stranded \subseteq stranded' /\ BackupFollows'
<1> DEFINE c == Head(queue)
<1>1. queue # <<>>
  BY ExecuteVersions
<1>2. gone \cap DOMAIN db \subseteq stranded /\ BackupFollows
  BY DEF DeletionInv
<1>3. CASE Refuse
  BY <1>3, StopDeletes DEF Refuse
<1>4. CASE ExecCreate
  <2> DEFINE s == Home[c.turn]
  <2>1. gone' = gone \ {s} /\ DOMAIN db' = DOMAIN db \cup {s}
        /\ backup' = backup /\ stranded' = stranded
    BY <1>4 DEF ExecCreate, Executes, Put
  <2> HIDE DEF c, s
  <2> QED
    BY <1>2, <2>1 DEF BackupFollows, Marked, Fingerprint
<1>5. CASE ExecAppend
  <2>1. gone' = gone /\ DOMAIN db' = DOMAIN db /\ backup' = backup /\ stranded' = stranded
    BY <1>5 DEF ExecAppend, Executes, Put
  <2> QED
    BY <1>2, <2>1 DEF BackupFollows, Marked, Fingerprint
<1>6. CASE ExecSave \/ ExecSaveBlocked
  <2>1. c.cmd = "save" /\ gone' = gone /\ stranded' = stranded
    BY <1>6 DEF ExecSave, ExecSaveBlocked, Executes
  <2>2. Merges(c.payload)
    BY <1>6, WholeMerges DEF ExecSave, ExecSaveBlocked, Blocked, Merges
  <2>3. gone \cap DOMAIN db' \subseteq stranded /\ DOMAIN db \subseteq DOMAIN db'
    BY <1>1, <2>1, <2>2, SaveDeletes
  <2>4. BackupFollows'
    <3>1. CASE backup' = backup
      BY <1>2, <2>1, <2>3, <3>1 DEF BackupFollows, Marked, Fingerprint
    <3>2. CASE backup' = Synced(db', backup)
      BY <2>1, <3>2, SyncFollows
    <3> QED
      BY <1>6, <3>1, <3>2 DEF ExecSave, ExecSaveBlocked
  <2> QED
    BY <2>1, <2>3, <2>4
<1>7. CASE ExecDelete
  <2>1. c.cmd = "delete" /\ gone' = gone \cup {c.session} /\ stranded' = stranded
        /\ DOMAIN db' = DOMAIN db \ {c.session} /\ backup' = Synced(db', backup)
    BY <1>7 DEF ExecDelete, Executes, Drop
  <2>2. BackupFollows'
    BY <2>1, SyncFollows
  <2>3. \A s \in gone' : s \in gone \/ Deletes(c, s)
    BY <2>1 DEF Deletes
  <2> HIDE DEF c
  <2>4. gone' \cap DOMAIN db' \subseteq stranded'
    BY <1>2, <2>1
  <2> QED
    BY <2>1, <2>2, <2>3, <2>4 DEF c
<1> QED
  BY <1>3, <1>4, <1>5, <1>6, <1>7 DEF Execute

LEMMA ExecuteKeepsDeleted ==
  ASSUME Ordered, DeletionInv, Execute
  PROVE  DeletionInv'
<1> DEFINE c == Head(queue)
           r == Tail(queue)
<1>1. UNCHANGED <<history, latest, bots, posted, sent>>
  BY DEF Execute, Refuse, ExecCreate, ExecAppend, ExecSave, ExecSaveBlocked,
         ExecDelete, Executes, windowVars, deliveryVars
<1>2. /\ \A s \in DOMAIN db' : s \in DOMAIN db \/ Writes(c, s)
      /\ (backup.of)' \in {backup.of, db'} /\ queue # <<>> /\ queue' = r
  BY ExecuteVersions DEF Rewrites
<1>3. /\ \A s \in gone' : s \in gone \/ Deletes(c, s)
      /\ gone' \cap DOMAIN db' \subseteq stranded'
      /\ stranded \subseteq stranded' /\ BackupFollows'
  BY ExecuteDeletes
<1>4. /\ 1 \in DOMAIN queue /\ c = queue[1]
      /\ \A i \in DOMAIN r : i \in Nat /\ i + 1 \in DOMAIN queue /\ 1 < i + 1 /\ r[i] = queue[i + 1]
  BY <1>2, Popped DEF Ordered, InVersionOrder
<1> HIDE DEF c, r
<1>5. \A s : Untouched(s) => Untouched(s)'
  <2> SUFFICES ASSUME NEW s, Untouched(s)
               PROVE  /\ s \notin gone' \cup DOMAIN history' \cup DOMAIN latest' \cup bots'
                      /\ s \notin DOMAIN db' \cup DOMAIN (backup.of)'
                      /\ \A i \in DOMAIN queue' : ~Writes(queue'[i], s) /\ ~Deletes(queue'[i], s)
    BY DEF Untouched, Writes, Deletes
  <2>1. ~Writes(c, s) /\ ~Deletes(c, s)
    BY <1>4 DEF Untouched
  <2> QED
    BY <1>1, <1>2, <1>3, <1>4, <2>1 DEF Untouched
<1>6. UnknownIsUntouched' /\ PostedIsUntouched'
  BY <1>1, <1>5 DEF DeletionInv, UnknownIsUntouched, PostedIsUntouched, Known
<1>7. DeletedIsHidden'
  <2> SUFFICES ASSUME NEW s \in DOMAIN history \cup DOMAIN latest
               PROVE  s \notin gone' \ stranded' /\ \A i \in DOMAIN queue' : ~Deletes(queue'[i], s)
    BY <1>1 DEF DeletedIsHidden, Doomed, Deletes
  <2>1. s \notin gone \ stranded /\ \A i \in DOMAIN queue : ~Deletes(queue[i], s)
    BY DEF DeletionInv, DeletedIsHidden, Doomed
  <2> QED
    BY <1>2, <1>3, <1>4, <2>1
<1>8. NotWrittenAgain'
  <2> SUFFICES ASSUME NEW i \in DOMAIN r, r[i].cmd = "save", NEW s \in DOMAIN r[i].payload
               PROVE  s \notin gone' \ stranded' /\ \A j \in DOMAIN r : j < i => ~Deletes(r[j], s)
    BY <1>2 DEF NotWrittenAgain, Deletes
  <2>1. s \notin gone \ stranded /\ \A j \in DOMAIN queue : j < i + 1 => ~Deletes(queue[j], s)
    BY <1>4 DEF DeletionInv, NotWrittenAgain
  <2>2. s \notin gone' \ stranded'
    BY <1>3, <1>4, <2>1
  <2>3. ASSUME NEW j \in DOMAIN r, j < i
        PROVE  ~Deletes(r[j], s)
    <3>1. j + 1 \in DOMAIN queue /\ j + 1 < i + 1 /\ r[j] = queue[j + 1]
      BY <1>4, <2>3
    <3> QED
      BY <2>1, <3>1
  <2> QED
    BY <2>2, <2>3
<1> QED
  BY <1>3, <1>6, <1>7, <1>8 DEF DeletionInv

-----------------------------------------------------------------------------
(* Up to a refused deletion that is undone, nothing deleted is about to come   *)
(* back.                                                                     *)
DeletedInv == undone \/ (Ordered /\ NothingUnderWay /\ DeletionInv)

LEMMA NextDeletedInv ==
  ASSUME DeletedInv, [Next]_vars
  PROVE  DeletedInv'
<1> SUFFICES ASSUME ~undone' PROVE (Ordered /\ NothingUnderWay /\ DeletionInv)'
  BY DEF DeletedInv
<1>1. ~undone
  BY DEF vars, mishaps, Next, Mount, Hydrate, Crash, Render, TimerFires, Edit, Retitle,
         DeleteHistoryItem, Message, Execute, Refuse, ExecCreate, ExecAppend, ExecSave,
         ExecSaveBlocked, ExecDelete, Executes, Handle, Created, Appended, Saved, NotDeleted,
         RecordDelivery, OnDelivery, PollTaskDeliveries
<1>2. Ordered /\ NothingUnderWay /\ DeletionInv /\ IsSeq(queue)
  BY <1>1 DEF DeletedInv, Ordered, InVersionOrder
<1>3. (Ordered /\ NothingUnderWay)'
  BY <1>2, NextIInv DEF IInv, Ordered
<1>4. DeletionInv'
  BY <1>2, WindowKeepsDeleted, CrashKeepsDeleted, HydrateKeepsDeleted, ExecuteKeepsDeleted
  DEF Next
<1> QED
  BY <1>3, <1>4

(* A deleted session does not come back: not by a save of what was shown        *)
(* before, not by the refilled copy, not after a restart.                     *)
THEOREM NothingComesBack == Spec => []DeletedStaysDeleted
<1>1. Init => DeletedInv
  BY InitIInv, InitDeletes DEF IInv, Ordered, DeletedInv, Init
<1>2. DeletedInv /\ [Next]_vars => DeletedInv'
  BY NextDeletedInv
<1>3. DeletedInv => DeletedStaysDeleted
  BY DEF DeletedInv, DeletionInv, DeletedStaysDeleted
<1> QED
  BY <1>1, <1>2, <1>3, PTL DEF Spec

-----------------------------------------------------------------------------
(* Types: what the tables may hold                                          *)

(* The turns of a session, each at a place of its own; there are finitely many. *)
IsRows(rows, s) ==
  /\ DOMAIN rows \subseteq Turns /\ IsFiniteSet(DOMAIN rows)
  /\ \A t \in DOMAIN rows : rows[t] \in Nat /\ Home[t] = s
  /\ \A t, u \in DOMAIN rows : rows[t] = rows[u] => t = u

TypedStore(d) ==
  /\ DOMAIN d \subseteq Sessions
  /\ \A s \in DOMAIN d : d[s].rev \in Nat /\ d[s].stamp \in Nat /\ IsRows(d[s].rows, s)

(* Turns in a row, all of one session. *)
Own(turns, s) == turns \in Seq(Turns) /\ \A i \in DOMAIN turns : Home[turns[i]] = s

TypedItem(item, s) ==
  item \in [turns : Seq(Turns), rev : Nat, stamp : Nat] /\ Own(item.turns, s)

TypedHistory(h) == DOMAIN h \subseteq Sessions /\ \A s \in DOMAIN h : TypedItem(h[s], s)

(* A finite set of numbers has a largest one: of the sets of those above each, *)
(* one is minimal, and it is empty.                                          *)
LEMMA LargestIsLargest ==
  ASSUME NEW S \in SUBSET Nat, IsFiniteSet(S)
  PROVE  Largest(S) \in S \cup {0} /\ \A k \in S : k <= Largest(S)
<1>1. \E n \in S \cup {0} : \A k \in S : k <= n
  <2>1. CASE S = {}
    BY <2>1
  <2>2. CASE S # {}
    <3> DEFINE Above(k) == {x \in S : k < x}
               F == {Above(k) : k \in S}
               R == StrictSubsetOrdering(S)
    <3>1. \A k \in S : Above(k) \in FiniteSubsetsOf(S)
      BY FS_Subset DEF FiniteSubsetsOf
    <3>2. IsWellFoundedOn(R, FiniteSubsetsOf(S))
      BY FS_StrictSubsetOrderingWellFounded
    <3>3. F \subseteq FiniteSubsetsOf(S) /\ F # {}
      BY <2>2, <3>1
    <3>4. PICK T \in F : \A U \in F : <<U, T>> \notin R
      <4> HIDE DEF F, R
      <4> QED
        BY <3>2, <3>3, WFMin
    <3>5. PICK n \in S : T = Above(n)
      BY <3>4
    <3>6. ASSUME NEW k \in S, n < k
          PROVE  FALSE
      <4>1. Above(k) \subseteq Above(n) /\ k \in Above(n) /\ k \notin Above(k)
        <5>1. k \in Nat /\ n \in Nat /\ \A x \in S : x \in Nat
          OBVIOUS
        <5>2. ~(k < k) /\ \A x \in Nat : k < x => n < x
          BY <3>6, <5>1
        <5> QED
          BY <3>6, <5>1, <5>2
      <4>2. Above(k) \in F /\ Above(n) \in SUBSET S /\ Above(k) \in SUBSET S
        OBVIOUS
      <4>3. <<Above(k), Above(n)>> \in R
        <5> HIDE DEF Above
        <5> QED
          BY <4>1, <4>2 DEF StrictSubsetOrdering
      <4> QED
        BY <3>4, <3>5, <4>2, <4>3
    <3>7. \A k \in S : k <= n
      BY <3>6
    <3> QED
      BY <3>7
  <2> QED
    BY <2>1, <2>2
<1> QED
  BY <1>1 DEF Largest

(* A turn that is appended gets a place that none has.                         *)
LEMMA AppendedRows ==
  ASSUME NEW rows, NEW s, IsRows(rows, s), NEW t \in Turns, Home[t] = s, t \notin DOMAIN rows
  PROVE  IsRows(Put(rows, t, NextPlace(rows)), s)
<1> DEFINE P == {rows[u] : u \in DOMAIN rows}
           n == NextPlace(rows)
           new == Put(rows, t, n)
<1>1. P \in SUBSET Nat /\ IsFiniteSet(P)
  <2> DEFINE f == [u \in DOMAIN rows |-> rows[u]]
  <2>1. f \in Surjection(DOMAIN rows, P)
    BY DEF Surjection
  <2>2. IsFiniteSet(DOMAIN rows) /\ P \in SUBSET Nat
    BY DEF IsRows
  <2> HIDE DEF f, P
  <2> QED
    BY <2>1, <2>2, FS_Surjection
<1>2. n \in Nat /\ \A u \in DOMAIN rows : rows[u] < n
  <2>1. Largest(P) \in Nat /\ \A k \in P : k <= Largest(P)
    BY <1>1, LargestIsLargest
  <2>2. CASE DOMAIN rows = {}
    BY <2>2 DEF NextPlace
  <2>3. CASE DOMAIN rows # {}
    <3>1. n = Largest(P) + 1
      BY <2>3 DEF NextPlace
    <3>2. \A u \in DOMAIN rows : rows[u] \in P /\ rows[u] \in Nat
      BY DEF IsRows
    <3> HIDE DEF n, P
    <3> QED
      BY <2>1, <3>1, <3>2
  <2> QED
    BY <2>2, <2>3
<1> HIDE DEF n
<1>3. DOMAIN new = DOMAIN rows \cup {t} /\ new[t] = n /\ \A u \in DOMAIN rows : new[u] = rows[u]
  BY DEF Put
<1>4. IsFiniteSet(DOMAIN rows \cup {t})
  BY FS_AddElement DEF IsRows
<1> HIDE DEF new
<1> QED
  BY <1>2, <1>3, <1>4 DEF IsRows, new, n

(* The first turns of a payload, up to the first conflict, are put where no     *)
(* other turn is.                                                            *)
LEMMA PlacedRows ==
  ASSUME NEW rows, NEW s, IsRows(rows, s), NEW turns, Own(turns, s),
         NEW n \in 0..Len(turns), \A i \in Conflicts(rows, turns) : n < i
  PROVE  IsRows(Placed(rows, turns, n), s)
<1> DEFINE T == {turns[i] : i \in 1..n}
           new == Placed(rows, turns, n)
<1>1. Len(turns) \in Nat /\ DOMAIN turns = 1..Len(turns) /\ n \in Nat
      /\ \A i \in 1..n : i \in DOMAIN turns /\ turns[i] \in Turns /\ Home[turns[i]] = s
  BY DEF Own
<1>2. DOMAIN new = DOMAIN rows \cup T
  BY DEF Placed
<1>3. \A t \in T : \E i \in 1..n : turns[i] = t /\ new[t] = i - 1
  BY DEF Placed
<1>4. \A t \in DOMAIN rows \ T : new[t] = rows[t]
  BY DEF Placed
<1> HIDE DEF new
<1>5. IsFiniteSet(DOMAIN rows \cup T)
  <2> DEFINE N == 1..n
             f == [i \in N |-> turns[i]]
  <2>1. IsFiniteSet(N)
    <3>1. 1 \in Int /\ n \in Int
      BY <1>1
    <3> QED
      BY <3>1, FS_Interval
  <2>2. IsFiniteSet(T)
    <3>1. f \in Surjection(N, T)
      BY DEF Surjection
    <3> HIDE DEF f, N, T
    <3> QED
      BY <2>1, <3>1, FS_Surjection
  <2> QED
    BY <2>2, FS_Union DEF IsRows
<1>6. DOMAIN new \subseteq Turns /\ \A t \in DOMAIN new : new[t] \in Nat /\ Home[t] = s
  BY <1>1, <1>2, <1>3, <1>4 DEF IsRows
<1>7. ASSUME NEW t \in T, NEW u \in DOMAIN rows \ T
      PROVE  new[t] # new[u]
  <2>1. PICK i \in 1..n : turns[i] = t /\ new[t] = i - 1
    BY <1>3
  <2>2. \A j \in 1..i : turns[j] # u
    BY <1>1
  <2>3. i \notin Conflicts(rows, turns)
    BY <1>1
  <2>4. rows[u] + 1 # i
    BY <1>1, <2>2, <2>3 DEF Conflicts
  <2>5. rows[u] \in Nat
    BY DEF IsRows
  <2> QED
    BY <1>1, <1>4, <2>1, <2>4, <2>5
<1>8. \A t, u \in DOMAIN new : new[t] = new[u] => t = u
  <2> SUFFICES ASSUME NEW t \in DOMAIN new, NEW u \in DOMAIN new, new[t] = new[u]
               PROVE  t = u
    OBVIOUS
  <2>1. CASE t \in T /\ u \in T
    <3>1. PICK i \in 1..n : turns[i] = t /\ new[t] = i - 1
      BY <1>3, <2>1
    <3>2. PICK j \in 1..n : turns[j] = u /\ new[u] = j - 1
      BY <1>3, <2>1
    <3>3. i \in Int /\ j \in Int
      OBVIOUS
    <3>4. i - 1 = j - 1
      BY <3>1, <3>2
    <3>5. i = j
      BY <3>3, <3>4
    <3> QED
      BY <3>1, <3>2, <3>5
  <2>2. CASE t \notin T /\ u \notin T
    BY <1>2, <1>4, <2>2 DEF IsRows
  <2> QED
    BY <1>2, <1>7, <2>1, <2>2
<1> QED
  BY <1>2, <1>5, <1>6, <1>8 DEF IsRows, new

(* The turns of a session can be put in the order of their places: the rank of *)
(* a turn is the number of turns up to its place.                            *)
LEMMA OrderExists ==
  ASSUME NEW rows, NEW s, IsRows(rows, s)
  PROVE  \E seq \in [1..Cardinality(DOMAIN rows) -> DOMAIN rows] :
           \A i, j \in DOMAIN seq : i < j => rows[seq[i]] < rows[seq[j]]
<1> DEFINE D == DOMAIN rows
           N == Cardinality(D)
           UpTo(t) == {u \in D : rows[u] <= rows[t]}
           rank == [t \in D |-> Cardinality(UpTo(t))]
<1>1. IsFiniteSet(D) /\ N \in Nat
  BY FS_CardinalityType DEF IsRows
<1>2. \A t \in D : rows[t] \in Nat
  BY DEF IsRows
<1>3. \A t \in D : UpTo(t) \in SUBSET D /\ t \in UpTo(t) /\ IsFiniteSet(UpTo(t))
  <2> TAKE t \in D
  <2>1. UpTo(t) \in SUBSET D /\ t \in UpTo(t)
    BY <1>2
  <2> HIDE DEF UpTo, D
  <2> QED
    BY <1>1, <2>1, FS_Subset
<1>4. \A t \in D : rank[t] \in 1..N
  <2> TAKE t \in D
  <2>1. Cardinality(UpTo(t)) \in Nat /\ Cardinality(UpTo(t)) <= N
    <3> HIDE DEF UpTo, D
    <3> QED
      BY <1>1, <1>3, FS_Subset, FS_CardinalityType DEF N
  <2>2. Cardinality(UpTo(t)) # 0
    <3> HIDE DEF UpTo, D
    <3> QED
      BY <1>3, FS_EmptySet
  <2>3. rank[t] = Cardinality(UpTo(t))
    OBVIOUS
  <2> HIDE DEF rank, UpTo, N, D
  <2> QED
    BY <1>1, <2>1, <2>2, <2>3
<1>5. ASSUME NEW t \in D, NEW u \in D, rows[t] < rows[u]
      PROVE  rank[t] < rank[u]
  <2>1. UpTo(t) \in SUBSET UpTo(u) /\ u \notin UpTo(t) /\ u \in UpTo(u)
    <3>1. rows[t] \in Nat /\ rows[u] \in Nat /\ \A v \in D : rows[v] \in Nat
      BY <1>2
    <3>2. \A v \in D : rows[v] <= rows[t] => rows[v] <= rows[u]
      BY <1>5, <3>1
    <3>3. ~(rows[u] <= rows[t]) /\ rows[u] <= rows[u]
      BY <1>5, <3>1
    <3> QED
      BY <3>2, <3>3
  <2>2. UpTo(t) # UpTo(u)
    BY <2>1
  <2>3. /\ Cardinality(UpTo(t)) <= Cardinality(UpTo(u))
        /\ Cardinality(UpTo(t)) # Cardinality(UpTo(u))
        /\ Cardinality(UpTo(t)) \in Nat /\ Cardinality(UpTo(u)) \in Nat
    <3>1. IsFiniteSet(UpTo(t)) /\ IsFiniteSet(UpTo(u))
      BY <1>3
    <3> HIDE DEF UpTo
    <3> QED
      BY <2>1, <2>2, <3>1, FS_Subset, FS_CardinalityType
  <2>4. rank[t] = Cardinality(UpTo(t)) /\ rank[u] = Cardinality(UpTo(u))
    OBVIOUS
  <2> HIDE DEF rank, UpTo
  <2> QED
    BY <2>3, <2>4
<1>6. rank \in Injection(D, 1..N)
  <2>1. rank \in [D -> 1..N]
    BY <1>4
  <2>2. ASSUME NEW t \in D, NEW u \in D, t # u
        PROVE  rank[t] # rank[u]
    <3>1. rows[t] \in Nat /\ rows[u] \in Nat /\ rows[t] # rows[u]
      BY <2>2 DEF IsRows
    <3>2. rows[t] < rows[u] \/ rows[u] < rows[t]
      BY <3>1
    <3>3. rank[t] < rank[u] \/ rank[u] < rank[t]
      BY <1>5, <3>2
    <3>4. rank[t] \in Int /\ rank[u] \in Int
      BY <1>4
    <3> HIDE DEF rank
    <3> QED
      BY <3>3, <3>4
  <2> HIDE DEF rank, N
  <2> QED
    BY <2>1, <2>2 DEF Injection, IsInjective
<1>7. rank \in Surjection(D, 1..N)
  <2> DEFINE R == 1..N
  <2>1. IsFiniteSet(R) /\ Cardinality(R) = N
    <3>1. 1 \in Int /\ N \in Int
      BY <1>1
    <3> HIDE DEF N
    <3>2. IsFiniteSet(1..N) /\ Cardinality(1..N) = IF 1 > N THEN 0 ELSE N - 1 + 1
      BY <3>1, FS_Interval
    <3> QED
      BY <1>1, <3>2
  <2>2. rank \in Injection(D, R)
    BY <1>6
  <2> HIDE DEF R, rank
  <2> QED
    BY <2>1, <2>2, FS_Injection DEF R
<1>8. \A i \in 1..N : \E t \in D : rank[t] = i
  <2> HIDE DEF rank
  <2> QED
    BY <1>7 DEF Surjection
<1> DEFINE seq == [i \in 1..N |-> CHOOSE t \in D : rank[t] = i]
<1>9. \A i \in 1..N : seq[i] \in D /\ rank[seq[i]] = i
  <2> HIDE DEF rank, D
  <2> QED
    BY <1>8
<1>10. seq \in [1..N -> D] /\ DOMAIN seq = 1..N
  <2> HIDE DEF rank
  <2> QED
    BY <1>9
<1>11. ASSUME NEW i \in 1..N, NEW j \in 1..N, i < j
       PROVE  rows[seq[i]] < rows[seq[j]]
  <2>1. seq[i] \in D /\ seq[j] \in D /\ rank[seq[i]] = i /\ rank[seq[j]] = j
    BY <1>9
  <2>2. rows[seq[i]] \in Nat /\ rows[seq[j]] \in Nat
    BY <1>2, <2>1
  <2>3. rows[seq[i]] # rows[seq[j]]
    <3>1. seq[i] # seq[j]
      <4>1. i \in Int /\ j \in Int
        OBVIOUS
      <4>2. i # j
        BY <1>11, <4>1
      <4> HIDE DEF seq, rank
      <4> QED
        BY <2>1, <4>2
    <3> HIDE DEF seq
    <3> QED
      BY <2>1, <3>1 DEF IsRows
  <2>4. ~(rows[seq[j]] < rows[seq[i]])
    <3> SUFFICES ASSUME rows[seq[j]] < rows[seq[i]] PROVE FALSE
      OBVIOUS
    <3>1. rank[seq[j]] < rank[seq[i]]
      <4> HIDE DEF seq, rank
      <4> QED
        BY <1>5, <2>1
    <3>2. j < i
      BY <2>1, <3>1
    <3> QED
      BY <1>11, <3>2
  <2> HIDE DEF seq
  <2> QED
    BY <2>2, <2>3, <2>4
<1> HIDE DEF seq
<1> QED
  BY <1>10, <1>11

LEMMA OrderedTurns ==
  ASSUME NEW rows, NEW s, IsRows(rows, s)
  PROVE  Own(InOrder(rows), s)
<1> DEFINE n == Cardinality(DOMAIN rows)
           seq == InOrder(rows)
<1>1. seq \in [1..n -> DOMAIN rows]
  BY OrderExists DEF InOrder
<1>2. n \in Nat
  BY FS_CardinalityType DEF IsRows
<1> HIDE DEF seq, n
<1>3. seq \in [1..n -> Turns] /\ DOMAIN seq = 1..n /\ \A i \in 1..n : Home[seq[i]] = s
  BY <1>1 DEF IsRows
<1>4. seq \in Seq(Turns)
  BY <1>2, <1>3, SeqDef
<1> QED
  BY <1>3, <1>4 DEF Own, seq

-----------------------------------------------------------------------------
(* Types: what the operators on the tables make of them                      *)

LEMMA NoRows ==
  ASSUME NEW s
  PROVE  IsRows(Nothing, s)
<1>1. DOMAIN Nothing = {}
  BY DEF Nothing
<1> QED
  BY <1>1, FS_EmptySet DEF IsRows

LEMMA RowsTyped ==
  ASSUME NEW d, TypedStore(d), NEW s
  PROVE  IsRows(Rows(d, s), s)
  BY NoRows DEF Rows, TypedStore

LEMMA TypedStoreIsStore ==
  ASSUME NEW d, TypedStore(d)
  PROVE  IsStore(d)
  BY DEF TypedStore, IsStore, IsRows

LEMMA TypedHistoryIsHistory ==
  ASSUME NEW h, TypedHistory(h)
  PROVE  IsHistory(h)
  BY DEF TypedHistory, TypedItem, IsHistory

LEMMA NothingTyped == TypedStore(Nothing) /\ TypedHistory(Nothing)
<1>1. DOMAIN Nothing = {}
  BY DEF Nothing
<1> QED
  BY <1>1 DEF TypedStore, TypedHistory

LEMMA PutStore ==
  ASSUME NEW d, TypedStore(d), NEW s \in Sessions,
         NEW rows, IsRows(rows, s), NEW rev \in Nat, NEW stamp \in Nat
  PROVE  TypedStore(Put(d, s, Record(rows, rev, stamp)))
<1> DEFINE r == Record(rows, rev, stamp)
           e == Put(d, s, r)
<1>1. r.rows = rows /\ r.rev = rev /\ r.stamp = stamp
  BY DEF Record
<1> HIDE DEF r
<1>2. DOMAIN e = DOMAIN d \cup {s} /\ e[s] = r /\ \A x \in DOMAIN d : x # s => e[x] = d[x]
  BY DEF Put
<1> HIDE DEF e
<1> QED
  BY <1>1, <1>2 DEF TypedStore, e, r

(* A history with one session more or changed.                               *)
LEMMA PutHistory ==
  ASSUME NEW h, TypedHistory(h), NEW s \in Sessions,
         NEW turns, Own(turns, s), NEW rev \in Nat, NEW stamp \in Nat
  PROVE  TypedHistory(Put(h, s, Item(turns, rev, stamp)))
<1> DEFINE r == Item(turns, rev, stamp)
           g == Put(h, s, r)
<1>1. TypedItem(r, s)
  BY DEF Item, TypedItem, Own
<1> HIDE DEF r
<1>2. DOMAIN g = DOMAIN h \cup {s} /\ g[s] = r /\ \A x \in DOMAIN h : x # s => g[x] = h[x]
  BY DEF Put
<1> HIDE DEF g
<1> QED
  BY <1>1, <1>2 DEF TypedHistory, g, r

LEMMA DropHistory ==
  ASSUME NEW h, TypedHistory(h), NEW s
  PROVE  TypedHistory(Drop(h, s))
  BY DEF TypedHistory, Drop

LEMMA DropStore ==
  ASSUME NEW d, TypedStore(d), NEW s
  PROVE  TypedStore(Drop(d, s))
  BY DEF TypedStore, Drop

LEMMA EmptyTurns ==
  ASSUME NEW s
  PROVE  Own(<<>>, s)
<1>1. <<>> \in Seq(Turns) /\ DOMAIN <<>> = {}
  BY EmptySeq
<1> QED
  BY <1>1 DEF Own

LEMMA TurnsOfOwn ==
  ASSUME NEW h, TypedHistory(h), NEW s
  PROVE  Own(TurnsOf(h, s), s)
  BY EmptyTurns DEF TypedHistory, TypedItem, TurnsOf

LEMMA WithTurnTyped ==
  ASSUME NEW h, TypedHistory(h), NEW t \in Turns, clock \in Nat
  PROVE  TypedHistory(WithTurn(h, t))
<1> DEFINE s == Home[t]
           q == TurnsOf(h, s)
           r == Append(q, t)
<1>1. s \in Sessions
  BY HistoryAssumption
<1>2. Own(q, s)
  BY TurnsOfOwn
<1>3. /\ r \in Seq(Turns) /\ DOMAIN q = 1..Len(q) /\ Len(q) \in Nat
      /\ DOMAIN r = 1..(Len(q) + 1) /\ r[Len(q) + 1] = t
      /\ \A i \in 1..Len(q) : r[i] = q[i]
  <2>1. q \in Seq(Turns)
    BY <1>2 DEF Own
  <2> HIDE DEF q, s
  <2>2. r \in Seq(Turns) /\ Len(r) = Len(q) + 1
    BY <2>1, AppendProperties
  <2> QED
    BY <2>1, <2>2, AppendProperties, LenProperties
<1> HIDE DEF r, q
<1>4. \A i \in DOMAIN r : i \in 1..Len(q) \/ i = Len(q) + 1
  BY <1>3
<1>5. Own(r, s)
  BY <1>2, <1>3, <1>4 DEF Own
<1>6. clock + 1 \in Nat
  OBVIOUS
<1>7. TypedHistory(Put(h, s, Item(r, clock + 1, clock + 1)))
  BY <1>1, <1>5, <1>6, PutHistory
<1> QED
  BY <1>7 DEF WithTurn, r, q

(* Sessions that are merged have no conflict.                                 *)
LEMMA MergeTyped ==
  ASSUME NEW d, TypedStore(d), NEW h, TypedHistory(h),
         NEW S, S \subseteq DOMAIN h \ Blocked(d, h)
  PROVE  TypedStore(Merge(d, h, S))
<1> DEFINE e == Merge(d, h, S)
           New(s) == Placed(Rows(d, s), h[s].turns, Len(h[s].turns))
<1>1. DOMAIN e = DOMAIN d \cup S /\ \A s \in DOMAIN e \ S : e[s] = d[s]
  BY DEF Merge
<1>2. \A s \in S : e[s] = Record(New(s), h[s].rev, h[s].stamp)
  BY DEF Merge
<1>3. ASSUME NEW s \in S
      PROVE  IsRows(New(s), s) /\ h[s].rev \in Nat /\ h[s].stamp \in Nat
  <2>1. s \in DOMAIN h /\ Conflicts(Rows(d, s), h[s].turns) = {}
    BY DEF Blocked
  <2>2. Own(h[s].turns, s) /\ h[s].rev \in Nat /\ h[s].stamp \in Nat
    BY <2>1 DEF TypedHistory, TypedItem
  <2>3. Len(h[s].turns) \in 0..Len(h[s].turns)
    <3>1. Len(h[s].turns) \in Nat
      BY <2>2, LenProperties DEF Own
    <3> QED
      BY <3>1
  <2>4. IsRows(Rows(d, s), s)
    BY RowsTyped
  <2> QED
    BY <2>1, <2>2, <2>3, <2>4, PlacedRows
<1> HIDE DEF e, New
<1>4. \A s \in S : e[s].rows = New(s) /\ e[s].rev = h[s].rev /\ e[s].stamp = h[s].stamp
  <2> TAKE s \in S
  <2> DEFINE new == New(s)
             rev == h[s].rev
             stamp == h[s].stamp
  <2>1. e[s] = Record(new, rev, stamp)
    BY <1>2
  <2> HIDE DEF new, rev, stamp
  <2>2. e[s].rows = new /\ e[s].rev = rev /\ e[s].stamp = stamp
    BY <2>1 DEF Record
  <2> QED
    BY <2>2 DEF new, rev, stamp
<1> QED
  BY <1>1, <1>3, <1>4 DEF TypedStore, TypedHistory, e

(* Of one more a first part is merged, up to a conflict.                       *)
LEMMA MergePartTyped ==
  ASSUME NEW d, TypedStore(d), NEW h, TypedHistory(h),
         NEW S, S \subseteq DOMAIN h \ Blocked(d, h),
         NEW s \in DOMAIN h \ S, NEW n \in Free(d, h, s), clock \in Nat
  PROVE  TypedStore(MergePart(Merge(d, h, S), h, s, n))
<1> DEFINE e == Merge(d, h, S)
           new == Placed(Rows(e, s), h[s].turns, n)
           appended == \E i \in 1..n : h[s].turns[i] \notin DOMAIN Rows(e, s)
           stamp == IF appended THEN clock ELSE h[s].stamp
<1>1. TypedStore(e)
  BY MergeTyped
<1>2. Rows(e, s) = Rows(d, s)
  BY DEF Merge, Rows
<1>3. Own(h[s].turns, s) /\ h[s].rev \in Nat /\ h[s].stamp \in Nat /\ s \in Sessions
  BY DEF TypedHistory, TypedItem
<1>4. n \in 0..Len(h[s].turns) /\ \A i \in Conflicts(Rows(d, s), h[s].turns) : n < i
  BY DEF Free
<1>5. IsRows(Rows(d, s), s)
  BY RowsTyped
<1>6. IsRows(new, s)
  BY <1>2, <1>3, <1>4, <1>5, PlacedRows
<1>7. stamp \in Nat
  <2> HIDE DEF appended
  <2> QED
    BY <1>3
<1> HIDE DEF e, new, stamp
<1>8. TypedStore(Put(e, s, Record(new, h[s].rev, stamp)))
  BY <1>1, <1>3, <1>6, <1>7, PutStore
<1> QED
  BY <1>8 DEF MergePart, e, new, stamp

(* The turns up to the first conflict have a place.                            *)
LEMMA SomeAreFree ==
  ASSUME NEW d, NEW h, TypedHistory(h), NEW s \in DOMAIN h
  PROVE  Largest(Free(d, h, s)) \in Free(d, h, s)
<1> DEFINE turns == h[s].turns
           F == Free(d, h, s)
           C == Conflicts(Rows(d, s), turns)
<1>1. turns \in Seq(Turns)
  BY DEF TypedHistory, TypedItem, Own
<1>2. Len(turns) \in Nat /\ DOMAIN turns = 1..Len(turns)
  BY <1>1, LenProperties
<1>3. C \subseteq 1..Len(turns)
  BY <1>2 DEF Conflicts
<1>4. F = {n \in 0..Len(turns) : \A i \in C : n < i}
  BY DEF Free
<1> HIDE DEF F, C, turns
<1>5. 0 \in F
  <2>1. \A i \in C : 0 < i
    BY <1>2, <1>3
  <2>2. 0 \in 0..Len(turns)
    BY <1>2
  <2> QED
    BY <1>4, <2>1, <2>2
<1>6. F \in SUBSET Nat /\ IsFiniteSet(F)
  <2>1. F \in SUBSET Nat /\ \A n \in F : n <= Len(turns)
    BY <1>2, <1>4
  <2> QED
    BY <1>2, <2>1, FS_BoundedSetOfNaturals
<1>7. Largest(F) \in F
  BY <1>5, <1>6, LargestIsLargest
<1> QED
  BY <1>7 DEF F

LEMMA SyncedTyped ==
  ASSUME NEW d, TypedStore(d), NEW b, TypedStore(b.of)
  PROVE  TypedStore(Synced(d, b).of) /\ TypedStore(HalfSynced(d, b).of)
  BY DEF Synced, HalfSynced

(* What is exported is a history.                                              *)
LEMMA ExportedTyped ==
  ASSUME NEW d, TypedStore(d)
  PROVE  TypedHistory(Exported(d))
<1>1. \A s \in DOMAIN d : Own(InOrder(d[s].rows), s) /\ d[s].rev \in Nat /\ d[s].stamp \in Nat
  BY OrderedTurns DEF TypedStore
<1>2. \A s \in DOMAIN d : TypedItem(Item(InOrder(d[s].rows), d[s].rev, d[s].stamp), s)
  BY <1>1 DEF TypedItem, Item, Own
<1> QED
  BY <1>2 DEF Exported, TypedHistory, TypedStore

(* Whatever loading yields is a history.                                       *)
LEMMA YieldsTyped ==
  ASSUME NEW d, TypedStore(d), NEW y \in Yields(d)
  PROVE  TypedHistory(y.history)
<1> DEFINE bare == [s \in DOMAIN d |-> Item(<<>>, d[s].rev, d[s].stamp)]
<1>1. y.history \in {Exported(d), bare, Nothing}
  BY DEF Yields
<1>2. TypedHistory(Exported(d))
  BY ExportedTyped
<1>3. TypedHistory(bare)
  <2>1. \A s \in DOMAIN d : TypedItem(Item(<<>>, d[s].rev, d[s].stamp), s)
    BY EmptyTurns DEF TypedItem, Item, Own, TypedStore
  <2> QED
    BY <2>1 DEF TypedHistory, TypedStore
<1> QED
  BY <1>1, <1>2, <1>3, NothingTyped

-----------------------------------------------------------------------------
(* Types: the invariant                                                     *)

TypedCommand(c) ==
  \/ c.cmd = "create" /\ c.turn \in Turns /\ c.rev \in Nat
  \/ c.cmd = "append" /\ c.turn \in Turns
  \/ c.cmd = "save" /\ TypedHistory(c.payload)
  \/ c.cmd = "delete" /\ c.session \in Sessions /\ TypedHistory(c.before)

TypedAnswer(a) == a.cmd = a.of.cmd /\ TypedCommand(a.of)

WindowTyped ==
  /\ window \in {"down", "loading", "ready"}
  /\ TypedHistory(history) /\ TypedHistory(latest)
  /\ timer \in BOOLEAN /\ saving \in BOOLEAN /\ again \in BOOLEAN
  /\ bots \subseteq Sessions
  /\ sent \subseteq Turns /\ clock \in Nat

CommandsTyped(q, as) ==
  /\ IsSeq(q)
  /\ \A i \in DOMAIN q : TypedCommand(q[i])
  /\ \A a \in as : TypedAnswer(a)

StoreTyped ==
  /\ TypedStore(db) /\ TypedStore(backup.of)
  /\ recovered \in BOOLEAN /\ gone \subseteq Sessions /\ stranded \subseteq Sessions

DeliveriesTyped == row \in [Deliveries -> {"none", "new", "seen"}] /\ posted \subseteq Deliveries

MishapsTyped == undone \in BOOLEAN /\ missed \in BOOLEAN /\ muddled \in BOOLEAN

TypeInv ==
  WindowTyped /\ CommandsTyped(queue, answers) /\ StoreTyped /\ DeliveriesTyped /\ MishapsTyped

LEMMA TypeInvImpliesTypeOK == TypeInv => TypeOK
<1> SUFFICES ASSUME TypeInv PROVE TypeOK
  OBVIOUS
<1>1. IsHistory(history) /\ IsHistory(latest) /\ IsStore(db) /\ IsStore(backup.of)
  BY TypedHistoryIsHistory, TypedStoreIsStore DEF TypeInv, WindowTyped, StoreTyped
<1>2. \A c \in Listed(queue) \cup answers : c.cmd \in {"create", "append", "save", "delete"}
  <2>1. \A i \in DOMAIN queue : queue[i].cmd \in {"create", "append", "save", "delete"}
    BY DEF TypeInv, CommandsTyped, TypedCommand
  <2>2. \A a \in answers : a.cmd \in {"create", "append", "save", "delete"}
    BY DEF TypeInv, CommandsTyped, TypedAnswer, TypedCommand
  <2> QED
    BY <2>1, <2>2 DEF Listed
<1> QED
  BY <1>1, <1>2 DEF TypeInv, WindowTyped, StoreTyped, DeliveriesTyped, MishapsTyped, TypeOK

LEMMA InitTyped == Init => TypeInv
<1> SUFFICES ASSUME Init PROVE TypeInv
  OBVIOUS
<1>1. TypedStore(Nothing) /\ TypedHistory(Nothing)
  BY NothingTyped
<1>2. TypedStore(backup.of)
  <2>1. PICK L \in SUBSET Legacy :
          backup = [of |-> [s \in L |-> Record(Nothing, 0, 0)], mark |-> {}]
    BY DEF Init
  <2> DEFINE d == [s \in L |-> Record(Nothing, 0, 0)]
  <2>2. \A s \in L : d[s].rows = Nothing /\ d[s].rev = 0 /\ d[s].stamp = 0
    BY DEF Record
  <2>3. DOMAIN d = L /\ L \subseteq Sessions /\ backup.of = d
    BY <2>1, HistoryAssumption
  <2>4. \A s : IsRows(Nothing, s)
    BY NoRows
  <2> HIDE DEF d
  <2> QED
    BY <2>2, <2>3, <2>4 DEF TypedStore
<1>3. CommandsTyped(<<>>, {})
  <2>1. IsSeq(<<>>)
    BY ListedSeq, EmptySeq
  <2>2. DOMAIN <<>> = {}
    OBVIOUS
  <2> QED
    BY <2>1, <2>2 DEF CommandsTyped
<1> QED
  BY <1>1, <1>2, <1>3 DEF Init, TypeInv, WindowTyped, StoreTyped, DeliveriesTyped, MishapsTyped

(* A command is put in the queue.                                            *)
LEMMA CommandsPushed ==
  ASSUME NEW q, NEW as, CommandsTyped(q, as), NEW c, TypedCommand(c)
  PROVE  CommandsTyped(q \o <<c>>, as)
<1> DEFINE r == q \o <<c>>
           m == Len(q) + 1
<1>1. IsSeq(q)
  BY DEF CommandsTyped
<1>2. /\ IsSeq(r) /\ DOMAIN r = DOMAIN q \cup {m} /\ r[m] = c /\ Len(q) \in Nat
      /\ \A i \in DOMAIN q : r[i] = q[i] /\ i \in Nat /\ i < m
  BY <1>1, Pushed
<1> HIDE DEF r
<1> QED
  BY <1>2 DEF CommandsTyped, r

(* The first one is executed, and answered or not.                            *)
LEMMA CommandsPopped ==
  ASSUME NEW q, NEW as, CommandsTyped(q, as), q # <<>>, NEW ok
  PROVE  /\ TypedCommand(Head(q))
         /\ CommandsTyped(Tail(q), as)
         /\ CommandsTyped(Tail(q), as \cup {Answer(Head(q), ok)})
<1> DEFINE c == Head(q)
           r == Tail(q)
           a == Answer(c, ok)
<1>1. IsSeq(q)
  BY DEF CommandsTyped
<1>2. /\ IsSeq(r) /\ 1 \in DOMAIN q /\ c = q[1]
      /\ \A i \in DOMAIN r : i + 1 \in DOMAIN q /\ r[i] = q[i + 1]
  BY <1>1, Popped
<1> HIDE DEF c, r
<1>3. TypedCommand(c) /\ \A i \in DOMAIN r : TypedCommand(r[i])
  BY <1>2 DEF CommandsTyped
<1>4. TypedAnswer(a)
  BY <1>3 DEF TypedAnswer, Answer
<1> HIDE DEF a
<1> QED
  BY <1>2, <1>3, <1>4 DEF CommandsTyped, a, c, r

LEMMA CommandsFewer ==
  ASSUME NEW q, NEW as, CommandsTyped(q, as), NEW bs, bs \subseteq as
  PROVE  CommandsTyped(q, bs)
  BY DEF CommandsTyped

-----------------------------------------------------------------------------
(* Types: the steps                                                         *)

(* What is left of the tables when a command is executed, or stops.           *)
DataTyped ==
  /\ TypedStore(db') /\ TypedStore((backup.of)')
  /\ gone' \subseteq Sessions /\ recovered' \in BOOLEAN

LEMMA MergesTyped ==
  ASSUME TypeInv, NEW h, TypedHistory(h), MergesInPart(h)
  PROVE  TypedStore(db')
<1>1. TypedStore(db) /\ clock \in Nat
  BY DEF TypeInv, StoreTyped, WindowTyped
<1>2. PICK done \in SUBSET (DOMAIN h \ Blocked(db, h)) :
        \/ db' = Merge(db, h, done)
        \/ \E s \in DOMAIN h \ done : \E n \in Free(db, h, s) :
             db' = MergePart(Merge(db, h, done), h, s, n)
  BY DEF MergesInPart
<1> QED
  BY <1>1, <1>2, MergeTyped, MergePartTyped

LEMMA BackupTyped ==
  ASSUME TypeInv, TypedStore(db'), backup' \in {backup, Synced(db', backup), HalfSynced(db', backup)}
  PROVE  TypedStore((backup.of)')
<1> DEFINE e == db'
<1>1. TypedStore(backup.of) /\ TypedStore(e)
  BY DEF TypeInv, StoreTyped
<1>2. backup' \in {backup, Synced(e, backup), HalfSynced(e, backup)}
  OBVIOUS
<1> HIDE DEF e
<1>3. TypedStore(Synced(e, backup).of) /\ TypedStore(HalfSynced(e, backup).of)
  BY <1>1, SyncedTyped
<1> QED
  BY <1>1, <1>2, <1>3

(* A turn is appended, whatever becomes of updatedAt.                          *)
LEMMA AppendTyped ==
  ASSUME TypeInv, NEW t \in Turns, Home[t] \in DOMAIN db, t \notin DOMAIN db[Home[t]].rows,
         NEW stamp \in Nat
  PROVE  TypedStore(Put(db, Home[t],
           Record(Put(db[Home[t]].rows, t, NextPlace(db[Home[t]].rows)), db[Home[t]].rev, stamp)))
<1> DEFINE s == Home[t]
           new == Put(db[s].rows, t, NextPlace(db[s].rows))
<1>1. TypedStore(db)
  BY DEF TypeInv, StoreTyped
<1>2. IsRows(db[s].rows, s) /\ db[s].rev \in Nat /\ s \in Sessions
  BY <1>1 DEF TypedStore
<1>3. IsRows(new, s)
  BY <1>2, AppendedRows
<1> HIDE DEF new
<1> QED
  BY <1>1, <1>2, <1>3, PutStore DEF new

LEMMA DroppedTyped ==
  ASSUME TypeInv, NEW s \in Sessions
  PROVE  /\ TypedStore(Drop(db, s))
         /\ s \in DOMAIN db => TypedStore(Put(db, s, Record(Nothing, db[s].rev, db[s].stamp)))
<1>1. TypedStore(db)
  BY DEF TypeInv, StoreTyped
<1>2. ASSUME s \in DOMAIN db
      PROVE  db[s].rev \in Nat /\ db[s].stamp \in Nat
  BY <1>1, <1>2 DEF TypedStore
<1> QED
  BY <1>1, <1>2, NoRows, PutStore, DropStore

LEMMA StopsTyped ==
  ASSUME TypeInv, NEW c, TypedCommand(c), Stops(c)
  PROVE  DataTyped
<1>1. /\ TypedStore(db) /\ TypedStore(backup.of) /\ clock \in Nat
      /\ gone \subseteq Sessions /\ recovered' \in BOOLEAN
  BY DEF TypeInv, StoreTyped, WindowTyped, Stops
<1>2. CASE UNCHANGED <<db, backup, gone>>
  BY <1>1, <1>2 DEF DataTyped
<1>3. CASE c.cmd = "append" /\ AppendStops(c.turn)
  <2> DEFINE t == c.turn
             r == db[Home[t]]
  <2>1. /\ t \in Turns /\ Home[t] \in DOMAIN db /\ t \notin DOMAIN r.rows
        /\ db' = Put(db, Home[t], Record(Put(r.rows, t, NextPlace(r.rows)), r.rev, r.stamp))
        /\ backup' = backup /\ gone' = gone
    BY <1>3 DEF AppendStops, TypedCommand
  <2>2. r.stamp \in Nat
    BY <1>1, <2>1 DEF TypedStore
  <2> HIDE DEF t
  <2>3. TypedStore(db')
    BY <2>1, <2>2, AppendTyped
  <2> QED
    BY <1>1, <2>1, <2>3 DEF DataTyped
<1>4. CASE c.cmd = "save" /\ SaveStops(c.payload)
  <2> DEFINE h == c.payload
  <2>1. TypedHistory(h) /\ SaveStops(h)
    BY <1>4 DEF TypedCommand
  <2> HIDE DEF h
  <2>2. TypedStore(db')
    <3>1. CASE MergesInPart(h)
      BY <2>1, <3>1, MergesTyped
    <3>2. CASE Blocked(db, h) = {} /\ db' = Merge(db, h, DOMAIN h)
      BY <1>1, <2>1, <3>2, MergeTyped
    <3> QED
      BY <2>1, <3>1, <3>2 DEF SaveStops
  <2>3. gone' = gone /\ backup' \in {backup, HalfSynced(db', backup)}
    BY <2>1 DEF SaveStops
  <2>4. TypedStore((backup.of)')
    BY <2>2, <2>3, BackupTyped
  <2> QED
    BY <1>1, <2>2, <2>3, <2>4 DEF DataTyped
<1>5. CASE c.cmd = "delete" /\ DeleteStops(c.session)
  <2> DEFINE s == c.session
  <2>1. s \in Sessions /\ DeleteStops(s)
    BY <1>5 DEF TypedCommand
  <2> HIDE DEF s
  <2>2. TypedStore(db')
    BY <2>1, DroppedTyped DEF DeleteStops
  <2>3. gone' \subseteq Sessions /\ backup' \in {backup, HalfSynced(db', backup)}
    BY <1>1, <2>1 DEF DeleteStops
  <2>4. TypedStore((backup.of)')
    BY <2>2, <2>3, BackupTyped
  <2> QED
    BY <1>1, <2>2, <2>3, <2>4 DEF DataTyped
<1> QED
  BY <1>2, <1>3, <1>4, <1>5 DEF Stops

LEMMA LoadTyped ==
  ASSUME TypeInv, Loads \/ LoadStops
  PROVE  DataTyped
<1>1. TypedStore(backup.of) /\ TypedStore(Loaded) /\ gone \subseteq Sessions /\ recovered \in BOOLEAN
  BY DEF TypeInv, StoreTyped, Loaded
<1>2. gone' = gone /\ recovered' \in BOOLEAN
  BY <1>1 DEF Loads, LoadStops, Recovers
<1>3. TypedStore(db')
  <2>1. CASE db' = Loaded
    BY <1>1, <2>1
  <2>2. CASE MergesInPart(Exported(backup.of))
    <3>1. TypedHistory(Exported(backup.of))
      BY <1>1, ExportedTyped
    <3> QED
      BY <2>2, <3>1, MergesTyped
  <2> QED
    BY <2>1, <2>2 DEF Loads, LoadStops
<1>4. backup' \in {backup, Synced(db', backup), HalfSynced(db', backup)}
  BY DEF Loads, LoadStops
<1>5. TypedStore((backup.of)')
  BY <1>3, <1>4, BackupTyped
<1> QED
  BY <1>1, <1>2, <1>3, <1>5 DEF DataTyped

LEMMA StrandTyped ==
  ASSUME TypeInv, DataTyped, stranded' = stranded \/ Strand
  PROVE  StoreTyped'
<1>1. DOMAIN backup'.of \subseteq Sessions
  BY DEF DataTyped, TypedStore
<1>2. stranded' \subseteq Sessions
  BY <1>1 DEF Strand, TypeInv, StoreTyped
<1> QED
  BY <1>2 DEF DataTyped, StoreTyped

(* A command that is executed leaves tables of the same kind.                  *)
LEMMA ExecuteTyped ==
  ASSUME TypeInv, Execute
  PROVE  TypeInv'
<1> DEFINE c == Head(queue)
<1>1. queue # <<>> /\ queue' = Tail(queue)
      /\ UNCHANGED <<windowVars, deliveryVars, sent, undone, muddled, clock>>
  BY DEF Execute, Refuse, ExecCreate, ExecAppend, ExecSave, ExecSaveBlocked, ExecDelete, Executes, mishaps
<1>2. \E ok : answers' \in {answers, answers \cup {Answer(c, ok)}}
  BY DEF Execute, Refuse, ExecCreate, ExecAppend, ExecSave, ExecSaveBlocked, ExecDelete, Answers
<1>3. CommandsTyped(queue', answers') /\ TypedCommand(c)
  BY <1>1, <1>2, CommandsPopped DEF TypeInv
<1>4. WindowTyped' /\ DeliveriesTyped'
  BY <1>1 DEF TypeInv, WindowTyped, DeliveriesTyped, windowVars, saverVars, deliveryVars
<1>5. /\ TypedStore(db) /\ TypedStore(backup.of) /\ clock \in Nat
      /\ gone \subseteq Sessions /\ recovered \in BOOLEAN
  BY DEF TypeInv, StoreTyped, WindowTyped
<1>6. MishapsTyped'
  <2>1. missed' \in BOOLEAN
    BY DEF Execute, Refuse, ExecCreate, ExecAppend, ExecSave, ExecSaveBlocked, ExecDelete, mishaps,
           TypeInv, MishapsTyped
  <2> QED
    BY <1>1, <2>1 DEF TypeInv, MishapsTyped
<1>7. stranded' = stranded \/ Strand
  BY DEF Execute, Refuse, ExecCreate, ExecAppend, ExecSave, ExecSaveBlocked, ExecDelete, Executes, Stops
<1>8. ~Refuse => recovered' = recovered
  BY DEF Execute, ExecCreate, ExecAppend, ExecSave, ExecSaveBlocked, ExecDelete, Executes
<1> HIDE DEF c
<1>9. CASE Refuse
  <2>1. Stops(c)
    BY <1>9 DEF Refuse, c
  <2>2. DataTyped
    BY <1>3, <2>1, StopsTyped
  <2> QED
    BY <1>3, <1>4, <1>6, <1>7, <2>2, StrandTyped DEF TypeInv
<1>10. ASSUME ~Refuse
       PROVE  TypedStore(db') /\ gone' \subseteq Sessions
              /\ backup' \in {backup, Synced(db', backup), HalfSynced(db', backup)}
  <2>2. CASE ExecCreate
    <3> DEFINE s == Home[c.turn]
    <3>1. c.cmd = "create" /\ backup' = backup /\ gone' = gone \ {s}
          /\ db' = IF s \in DOMAIN db THEN db ELSE Put(db, s, Record(Nothing, c.rev, clock))
      BY <2>2 DEF ExecCreate, Executes, c
    <3>2. c.turn \in Turns /\ c.rev \in Nat
      BY <1>3, <3>1 DEF TypedCommand
    <3>3. s \in Sessions
      BY <3>2, HistoryAssumption
    <3> HIDE DEF s
    <3>4. TypedStore(Put(db, s, Record(Nothing, c.rev, clock)))
      BY <1>5, <3>2, <3>3, NoRows, PutStore
    <3> QED
      BY <1>5, <3>1, <3>4
  <2>3. CASE ExecAppend
    <3> DEFINE t == c.turn
               s == Home[t]
               new == Put(db[s].rows, t, NextPlace(db[s].rows))
    <3>1. c.cmd = "append" /\ backup' = backup /\ gone' = gone
          /\ db' = IF s \in DOMAIN db /\ t \notin DOMAIN db[s].rows
                     THEN Put(db, s, Record(new, db[s].rev, clock))
                     ELSE db
      BY <2>3 DEF ExecAppend, Executes, c
    <3>2. t \in Turns
      BY <1>3, <3>1 DEF TypedCommand
    <3>3. ASSUME s \in DOMAIN db, t \notin DOMAIN db[s].rows
          PROVE  TypedStore(Put(db, s, Record(new, db[s].rev, clock)))
      <4> HIDE DEF t
      <4> QED
        BY <1>5, <3>2, <3>3, AppendTyped
    <3> HIDE DEF new, s, t
    <3> QED
      BY <1>5, <3>1, <3>3
  <2>4. CASE ExecSave \/ ExecSaveBlocked
    <3> DEFINE h == c.payload
    <3>1. c.cmd = "save" /\ gone' = gone /\ (backup' = backup \/ backup' = Synced(db', backup))
      BY <2>4 DEF ExecSave, ExecSaveBlocked, Executes, c
    <3>2. TypedHistory(h)
      BY <1>3, <3>1 DEF TypedCommand
    <3>3. TypedStore(db')
      <4>1. CASE ExecSave
        <5>1. Blocked(db, h) = {} /\ db' = Merge(db, h, DOMAIN h)
          BY <4>1 DEF ExecSave, c
        <5> HIDE DEF h
        <5> QED
          BY <1>5, <3>2, <5>1, MergeTyped
      <4>2. CASE ExecSaveBlocked
        <5>1. PICK s \in Blocked(db, h), done \in SUBSET (DOMAIN h \ Blocked(db, h)) :
                db' = MergePart(Merge(db, h, done), h, s, Largest(Free(db, h, s)))
          BY <4>2 DEF ExecSaveBlocked, c
        <5>2. s \in DOMAIN h
          BY DEF Blocked
        <5> HIDE DEF h
        <5>3. Largest(Free(db, h, s)) \in Free(db, h, s)
          BY <3>2, <5>2, SomeAreFree
        <5> QED
          BY <1>5, <3>2, <5>1, <5>2, <5>3, MergePartTyped
      <4> QED
        BY <2>4, <4>1, <4>2
    <3> QED
      BY <1>5, <3>1, <3>3
  <2>5. CASE ExecDelete
    <3>1. c.cmd = "delete" /\ db' = Drop(db, c.session) /\ gone' = gone \cup {c.session}
          /\ backup' = Synced(db', backup)
      BY <2>5 DEF ExecDelete, Executes, c
    <3>2. c.session \in Sessions
      BY <1>3, <3>1 DEF TypedCommand
    <3> QED
      BY <1>5, <3>1, <3>2, DropStore
  <2> QED
    BY <1>10, <2>2, <2>3, <2>4, <2>5 DEF Execute
<1>11. ASSUME ~Refuse
       PROVE  DataTyped
  BY <1>5, <1>8, <1>10, <1>11, BackupTyped DEF DataTyped
<1> QED
  BY <1>3, <1>4, <1>6, <1>7, <1>9, <1>11, StrandTyped DEF TypeInv

(* Loading shows what is stored, in order; the end of the application leaves it. *)
LEMMA StartAndEndTyped ==
  ASSUME TypeInv, Mount \/ Hydrate \/ Crash
  PROVE  TypeInv'
<1> USE DEF windowVars, saverVars, ipcVars, storeVars, deliveryVars, mishaps, counters
<1>1. CASE Mount
  BY <1>1 DEF Mount, TypeInv, WindowTyped, StoreTyped, DeliveriesTyped, MishapsTyped
<1>2. CASE Hydrate
  <2>0. Loads \/ LoadStops
    BY <1>2 DEF Hydrate
  <2>1. PICK y \in Yields(db') :
          /\ history' = y.history
          /\ bots' \subseteq DOMAIN y.history
          /\ IF y.repair /\ DOMAIN y.history # {}
               THEN Invoke(<<Saving(y.history, FALSE)>>)
               ELSE UNCHANGED queue
    BY <1>2 DEF Hydrate
  <2>2. DataTyped
    BY <2>0, LoadTyped
  <2> DEFINE e == db'
  <2>3. TypedHistory(y.history)
    <3>1. TypedStore(e) /\ y \in Yields(e)
      BY <2>1, <2>2 DEF DataTyped
    <3> HIDE DEF e
    <3> QED
      BY <3>1, YieldsTyped
  <2>4. DOMAIN y.history \subseteq Sessions
    BY <2>3 DEF TypedHistory
  <2>5. WindowTyped' /\ DeliveriesTyped' /\ MishapsTyped'
    BY <1>2, <2>1, <2>3, <2>4 DEF Hydrate, TypeInv, WindowTyped, DeliveriesTyped, MishapsTyped
  <2>6. stranded' = stranded \/ Strand
    BY <2>0 DEF Loads, LoadStops
  <2>7. StoreTyped'
    BY <2>2, <2>6, StrandTyped
  <2>8. CommandsTyped(queue', answers')
    <3> DEFINE c == Saving(y.history, FALSE)
    <3>1. TypedCommand(c)
      BY <2>3 DEF Saving, TypedCommand
    <3>2. answers' = answers /\ (queue' = queue \/ queue' = queue \o <<c>>)
      BY <1>2, <2>1 DEF Hydrate, Invoke
    <3> HIDE DEF c
    <3> QED
      BY <3>1, <3>2, CommandsPushed DEF TypeInv
  <2> QED
    BY <2>5, <2>7, <2>8 DEF TypeInv
<1>3. CASE Crash
  <2>1. CommandsTyped(<<>>, {})
    <3>1. IsSeq(<<>>)
      BY ListedSeq, EmptySeq
    <3>2. DOMAIN <<>> = {}
      OBVIOUS
    <3> QED
      BY <3>1, <3>2 DEF CommandsTyped
  <2>2. WindowTyped' /\ DeliveriesTyped'
    BY <1>3, NothingTyped DEF Crash, TypeInv, WindowTyped, DeliveriesTyped
  <2>3. CommandsTyped(queue', answers')
    BY <1>3, <2>1 DEF Crash
  <2>4. MishapsTyped'
    BY <1>3 DEF Crash, Torn, TypeInv, MishapsTyped
  <2>5. StoreTyped'
    <3>1. CASE UNCHANGED storeVars
      BY <3>1 DEF TypeInv, StoreTyped
    <3>2. CASE queue # <<>> /\ Stops(Head(queue))
      <4>1. TypedCommand(Head(queue))
        BY <3>2, CommandsPopped DEF TypeInv
      <4> QED
        BY <3>2, <4>1, StopsTyped, StrandTyped DEF Stops
    <3>3. CASE LoadStops
      BY <3>3, LoadTyped, StrandTyped DEF LoadStops
    <3> QED
      BY <1>3, <3>1, <3>2, <3>3 DEF Crash
  <2> QED
    BY <2>2, <2>3, <2>4, <2>5 DEF TypeInv
<1> QED
  BY <1>1, <1>2, <1>3

LEMMA WindowStepsTyped ==
  ASSUME TypeInv,
         \/ Render \/ TimerFires
         \/ \E s \in Sessions : Edit(s) \/ Retitle(s) \/ DeleteHistoryItem(s)
         \/ \E t \in Turns : Message(t)
  PROVE  TypeInv'
<1> USE DEF windowVars, saverVars, ipcVars, storeVars, deliveryVars, mishaps, counters
<1>0. MishapsTyped'
  BY DEF Render, TimerFires, Edit, Retitle, DeleteHistoryItem, Message, Muddle, Calm, TypeInv, MishapsTyped
<1>1. StoreTyped' /\ DeliveriesTyped' /\ answers' = answers /\ MishapsTyped'
  BY <1>0 DEF Render, TimerFires, Edit, Retitle, DeleteHistoryItem, Message, TypeInv, StoreTyped, DeliveriesTyped
<1>2. /\ TypedHistory(history) /\ TypedHistory(latest) /\ clock \in Nat
      /\ CommandsTyped(queue, answers)
  BY DEF TypeInv, WindowTyped
<1>3. CASE Render
  BY <1>1, <1>2, <1>3 DEF Render, TypeInv, WindowTyped
<1>4. CASE TimerFires
  <2> DEFINE c == Saving(latest, TRUE)
  <2>1. TypedCommand(c)
    BY <1>2 DEF Saving, TypedCommand
  <2>2. queue' = queue \/ queue' = queue \o <<c>>
    BY <1>4 DEF TimerFires, Flush, Invoke
  <2> HIDE DEF c
  <2>3. CommandsTyped(queue', answers')
    BY <1>1, <1>2, <2>1, <2>2, CommandsPushed
  <2>4. WindowTyped'
    BY <1>4 DEF TimerFires, Flush, TypeInv, WindowTyped
  <2> QED
    BY <1>1, <2>3, <2>4 DEF TypeInv
<1>5. ASSUME NEW s \in Sessions, Edit(s) \/ Retitle(s)
      PROVE  TypeInv'
  <2>1. PICK stamp \in Nat : s \in DOMAIN history /\ history' = Put(history, s, Item(history[s].turns, clock + 1, stamp))
    <3>1. CASE Edit(s)
      BY <1>2, <3>1 DEF Edit
    <3>2. CASE Retitle(s)
      <4>1. s \in DOMAIN history => history[s].stamp \in Nat
        BY <1>2 DEF TypedHistory, TypedItem
      <4> QED
        BY <3>2, <4>1 DEF Retitle
    <3> QED
      BY <1>5, <3>1, <3>2
  <2>2. Own(history[s].turns, s)
    BY <1>2, <2>1 DEF TypedHistory, TypedItem
  <2>3. clock + 1 \in Nat
    BY <1>2
  <2>4. TypedHistory(history')
    BY <1>2, <2>1, <2>2, <2>3, PutHistory
  <2>5. clock' = clock + 1 /\ UNCHANGED <<window, latest, saverVars, bots, queue, sent>>
    BY <1>5 DEF Edit, Retitle, Tick
  <2>6. WindowTyped'
    BY <2>3, <2>4, <2>5 DEF TypeInv, WindowTyped
  <2> QED
    BY <1>1, <1>2, <2>5, <2>6 DEF TypeInv
<1>6. ASSUME NEW s \in Sessions, DeleteHistoryItem(s)
      PROVE  TypeInv'
  <2> DEFINE c == Deletion(s, latest)
  <2>1. TypedCommand(c)
    BY <1>2 DEF Deletion, TypedCommand
  <2>2. queue' = queue \o <<c>>
    BY <1>6 DEF DeleteHistoryItem, Invoke
  <2> HIDE DEF c
  <2>3. CommandsTyped(queue', answers')
    BY <1>1, <1>2, <2>1, <2>2, CommandsPushed
  <2>4. history' = Drop(latest, s) /\ latest' = Drop(latest, s)
        /\ timer' = TRUE /\ UNCHANGED <<window, saving, again, bots, sent, clock>>
    BY <1>6 DEF DeleteHistoryItem, RemoveShown
  <2>5. TypedHistory(Drop(latest, s))
    BY <1>2, DropHistory
  <2>6. WindowTyped'
    BY <2>4, <2>5 DEF TypeInv, WindowTyped
  <2> QED
    BY <1>1, <2>3, <2>6 DEF TypeInv
<1>7. ASSUME NEW t \in Turns, Message(t)
      PROVE  TypeInv'
  <2> DEFINE c == IF Home[t] \in DOMAIN latest THEN Appending(t) ELSE Creation(t, clock + 1)
  <2>1. clock + 1 \in Nat /\ Home[t] \in Sessions
    BY <1>2, HistoryAssumption
  <2>2. TypedCommand(c)
    BY <2>1 DEF Appending, Creation, TypedCommand
  <2>3. queue' = queue \o <<c>>
    BY <1>7 DEF Message, Invoke
  <2> HIDE DEF c
  <2>4. CommandsTyped(queue', answers')
    BY <1>1, <1>2, <2>2, <2>3, CommandsPushed
  <2>5. history' = history \/ history' = WithTurn(history, t)
    BY <1>7 DEF Message
  <2>6. TypedHistory(history')
    BY <1>2, <2>5, WithTurnTyped
  <2>7. /\ sent' = sent \cup {t} /\ bots' \subseteq bots \cup {Home[t]} /\ clock' = clock + 1
        /\ UNCHANGED <<window, latest, saverVars>>
    BY <1>7 DEF Message, Tick
  <2>8. WindowTyped'
    BY <2>1, <2>6, <2>7 DEF TypeInv, WindowTyped
  <2> QED
    BY <1>1, <2>4, <2>8 DEF TypeInv
<1> QED
  BY <1>3, <1>4, <1>5, <1>6, <1>7

LEMMA HandleTyped ==
  ASSUME TypeInv, Handle
  PROVE  TypeInv'
<1> USE DEF windowVars, saverVars, storeVars, deliveryVars, mishaps, counters
<1>1. PICK a \in answers : Created(a) \/ Appended(a) \/ Saved(a) \/ NotDeleted(a)
  BY DEF Handle
<1>2. TypedAnswer(a) /\ TypedHistory(history) /\ TypedHistory(latest)
      /\ CommandsTyped(queue, answers)
  BY DEF TypeInv, WindowTyped, CommandsTyped
<1>3. answers' \subseteq answers /\ UNCHANGED <<window, latest, bots, storeVars, deliveryVars, sent, counters>>
  BY <1>1 DEF Created, Appended, Saved, NotDeleted, Handles
<1>4. MishapsTyped'
  BY <1>1 DEF Created, Appended, Saved, NotDeleted, Handles, TypeInv, MishapsTyped
<1>5. \E c : TypedCommand(c) /\ queue' \in {queue, queue \o <<c>>}
  <2>1. TypedCommand(Saving(latest, TRUE))
    BY <1>2 DEF Saving, TypedCommand
  <2>2. CASE Created(a)
    <3>1. a.of.cmd = "create"
      BY <1>2, <2>2 DEF Created, TypedAnswer
    <3>2. TypedCommand(Appending(a.of.turn))
      BY <1>2, <3>1 DEF TypedAnswer, TypedCommand, Appending
    <3> QED
      BY <2>1, <2>2, <3>2 DEF Created, Invoke
  <2>3. CASE Appended(a) \/ NotDeleted(a)
    BY <2>1, <2>3 DEF Appended, NotDeleted
  <2>4. CASE Saved(a)
    BY <2>1, <2>4 DEF Saved, SavedThen, Invoke
  <2> QED
    BY <1>1, <2>2, <2>3, <2>4
<1>6. CommandsTyped(queue', answers')
  <2>1. PICK c : TypedCommand(c) /\ queue' \in {queue, queue \o <<c>>}
    BY <1>5
  <2>2. CommandsTyped(queue', answers)
    BY <1>2, <2>1, CommandsPushed
  <2> QED
    BY <1>3, <2>2, CommandsFewer
<1>7. TypedHistory(history')
  <2>1. CASE Created(a) \/ Appended(a) \/ Saved(a)
    BY <1>2, <2>1 DEF Created, Appended, Saved
  <2>2. CASE NotDeleted(a)
    <3>1. a.of.cmd = "delete" /\ history' = a.of.before
      BY <1>2, <2>2 DEF NotDeleted, TypedAnswer
    <3> QED
      BY <1>2, <3>1 DEF TypedAnswer, TypedCommand
  <2> QED
    BY <1>1, <2>1, <2>2
<1>8. timer' \in BOOLEAN /\ saving' \in BOOLEAN /\ again' \in BOOLEAN
  BY <1>1 DEF Created, Appended, Saved, SavedThen, NotDeleted, TypeInv, WindowTyped
<1>9. WindowTyped' /\ StoreTyped' /\ DeliveriesTyped'
  BY <1>3, <1>7, <1>8 DEF TypeInv, WindowTyped, StoreTyped, DeliveriesTyped
<1> QED
  BY <1>4, <1>6, <1>9 DEF TypeInv

LEMMA DeliveryStepsTyped ==
  ASSUME TypeInv,
         \/ \E d \in Deliveries : RecordDelivery(d) \/ OnDelivery(d)
         \/ PollTaskDeliveries
  PROVE  TypeInv'
<1> USE DEF windowVars, saverVars, ipcVars, storeVars, mishaps, counters
<1>1. StoreTyped' /\ CommandsTyped(queue', answers') /\ MishapsTyped'
  BY DEF RecordDelivery, OnDelivery, PollTaskDeliveries, TypeInv, StoreTyped, MishapsTyped
<1>2. TypedHistory(history) /\ clock \in Nat /\ Deliveries \subseteq Turns
  BY HistoryAssumption DEF TypeInv, WindowTyped
<1>3. ASSUME NEW d \in Deliveries, RecordDelivery(d)
      PROVE  TypeInv'
  <2>1. WindowTyped'
    BY <1>2, <1>3 DEF RecordDelivery, TypeInv, WindowTyped
  <2>2. DeliveriesTyped'
    BY <1>3 DEF RecordDelivery, TypeInv, DeliveriesTyped
  <2> QED
    BY <1>1, <2>1, <2>2 DEF TypeInv
<1>4. ASSUME NEW d \in Deliveries, OnDelivery(d)
      PROVE  TypeInv'
  <2>1. history' = history \/ history' = WithTurn(history, d)
    BY <1>4 DEF OnDelivery
  <2>2. TypedHistory(history')
    BY <1>2, <2>1, WithTurnTyped
  <2>3. clock' \in Nat /\ posted' \subseteq posted /\ UNCHANGED <<window, latest, saverVars, bots, row, sent>>
    BY <1>2, <1>4 DEF OnDelivery, Tick
  <2>4. WindowTyped' /\ DeliveriesTyped'
    BY <2>2, <2>3 DEF TypeInv, WindowTyped, DeliveriesTyped
  <2> QED
    BY <1>1, <2>4 DEF TypeInv
<1>5. CASE PollTaskDeliveries
  <2> DEFINE new(s) == {d \in Undelivered : Home[d] = s /\ d \notin Listed(history[s].turns)}
             shown(s) == IF new(s) = {} THEN history[s]
                         ELSE WithTurn(history, CHOOSE d \in new(s) : TRUE)[s]
  <2>1. history' = [s \in DOMAIN history |-> shown(s)]
    BY <1>5 DEF PollTaskDeliveries
  <2>2. ASSUME NEW s \in DOMAIN history
        PROVE  TypedItem(shown(s), s)
    <3>1. CASE new(s) = {}
      BY <1>2, <3>1 DEF TypedHistory
    <3>2. CASE new(s) # {}
      <4>1. PICK d \in new(s) : d = CHOOSE e \in new(s) : TRUE
        BY <3>2
      <4>2. d \in Turns /\ Home[d] = s
        BY <1>2, <4>1 DEF Undelivered
      <4>3. TypedHistory(WithTurn(history, d))
        BY <1>2, <4>2, WithTurnTyped
      <4>4. s \in DOMAIN WithTurn(history, d)
        BY <4>2 DEF WithTurn, Put
      <4>5. shown(s) = WithTurn(history, d)[s]
        BY <3>2, <4>1
      <4> HIDE DEF shown, new
      <4> QED
        BY <4>3, <4>4, <4>5 DEF TypedHistory
    <3> QED
      BY <3>1, <3>2
  <2> HIDE DEF shown, new
  <2>3. TypedHistory(history')
    BY <1>2, <2>1, <2>2 DEF TypedHistory
  <2>4. clock' \in Nat /\ UNCHANGED <<window, latest, saverVars, bots, posted, sent>>
    BY <1>2, <1>5 DEF PollTaskDeliveries, Tick
  <2>5. row' \in [Deliveries -> {"none", "new", "seen"}]
    BY <1>5 DEF PollTaskDeliveries, TypeInv, DeliveriesTyped
  <2>6. WindowTyped' /\ DeliveriesTyped'
    BY <2>3, <2>4, <2>5 DEF TypeInv, WindowTyped, DeliveriesTyped
  <2> QED
    BY <1>1, <2>6 DEF TypeInv
<1> QED
  BY <1>3, <1>4, <1>5

LEMMA NextTyped ==
  ASSUME TypeInv, [Next]_vars
  PROVE  TypeInv'
<1>1. CASE UNCHANGED vars
  BY <1>1 DEF vars, windowVars, saverVars, ipcVars, storeVars, deliveryVars, mishaps, counters,
              TypeInv, WindowTyped, StoreTyped, DeliveriesTyped, MishapsTyped
<1> QED
  BY <1>1, StartAndEndTyped, WindowStepsTyped, ExecuteTyped, HandleTyped, DeliveryStepsTyped
  DEF Next

(* The tables keep to their constraint whatever is merged into them, in part or *)
(* whole, appended, refilled or deleted: no two turns of a session ever have the *)
(* same place, and the window shows each turn in its own session.             *)
THEOREM TypeCorrect == Spec => []TypeOK
<1>1. TypeInv /\ [Next]_vars => TypeInv'
  BY NextTyped
<1> QED
  BY <1>1, InitTyped, TypeInvImpliesTypeOK, PTL DEF Spec

-----------------------------------------------------------------------------
(* Nothing shown is forgotten: what is shown, what will be saved and what is   *)
(* stored of a session are beginnings of one another.                        *)

Distinct(turns) == \A i, j \in DOMAIN turns : turns[i] = turns[j] => i = j
Begins(p, v) == DOMAIN p \subseteq DOMAIN v /\ \A i \in DOMAIN p : p[i] = v[i]

(* Rows that are the first turns of a sequence, each at its place in it. *)
OnPlaces(rows, v) ==
  /\ \A t \in DOMAIN rows : rows[t] + 1 \in DOMAIN v /\ v[rows[t] + 1] = t
  /\ \A t \in DOMAIN rows : \A i \in DOMAIN v : i <= rows[t] => v[i] \in DOMAIN rows

Gapless(rows) == \A t \in DOMAIN rows : \A k \in 0..rows[t] : \E u \in DOMAIN rows : rows[u] = k

(* The commands that store a message: under way, in Q or answered in A, until  *)
(* the append is answered.                                                   *)
IsWrite(c) == c.cmd \in {"create", "append"}
Written(Q, A, t) ==
  \/ \E c \in Q : IsWrite(c) /\ c.turn = t
  \/ \E a \in A : IsWrite(a) /\ a.of.turn = t

IsSave(c, s) == c.cmd = "save" /\ s \in DOMAIN c.payload

(* What is shown of session s, and what was shown when it was deleted, while    *)
(* the deletion is queued.                                                   *)
Views(h, Q, s) ==
  {h[x].turns : x \in DOMAIN h \cap {s}}
    \cup {e.before[s].turns : e \in {c \in Q : Deletes(c, s) /\ s \in DOMAIN c.before}}

(* A view has each turn once, and what is stored is a beginning of it.         *)
ViewsFit(h, Q, x, d) ==
  \A s \in Sessions : \A v \in Views(h, Q, s) :
    Distinct(v) /\ Listed(v) \subseteq x /\ (s \in DOMAIN d => OnPlaces(d[s].rows, v))

(* So is what a queued save has of it, ...                                    *)
SavesFit(h, Q) ==
  \A s \in Sessions : \A c \in Q :
    IsSave(c, s) => /\ Views(h, Q, s) # {}
                    /\ \A v \in Views(h, Q, s) : Begins(c.payload[s].turns, v)

(* ... and what is rendered.                                                 *)
RenderedFits(h, l) == \A s \in DOMAIN l : s \in DOMAIN h /\ Begins(l[s].turns, h[s].turns)

(* Every turn that is shown is being stored, or it is stored, or its session is *)
(* not and whatever will store it has the turn.                              *)
Held(h, l, Q, A, d) ==
  \A s \in DOMAIN h : \A t \in Listed(h[s].turns) :
    \/ Written(Q, A, t)
    \/ s \in DOMAIN d /\ t \in DOMAIN d[s].rows
    \/ /\ s \notin DOMAIN d
       /\ s \in DOMAIN l => t \in Listed(l[s].turns)
       /\ \A c \in Q : IsSave(c, s) => t \in Listed(c.payload[s].turns)

(* The turn being stored is the last one of its session, and the only one if   *)
(* the session is to be created.                                             *)
WritesFit(h, Q, A, x, d) ==
  /\ \A t : Written(Q, A, t) =>
       /\ t \in x \ Deliveries
       /\ Home[t] \in DOMAIN h =>
            LET v == h[Home[t]].turns IN v # <<>> /\ v[Len(v)] = t
  /\ \A c \in Q : c.cmd = "create" /\ Home[c.turn] \in DOMAIN h => Len(h[Home[c.turn]].turns) = 1
  /\ \A a \in A : a.cmd = "append" /\ Home[a.of.turn] \in DOMAIN h =>
       Home[a.of.turn] \in DOMAIN d /\ a.of.turn \in DOMAIN d[Home[a.of.turn]].rows

(* One message is stored at a time, after the deletions asked for before.      *)
OneWrite(q, A) ==
  /\ \A i, j \in DOMAIN q : IsWrite(q[i]) /\ q[j].cmd # "save" => j <= i
  /\ \A a \in A : IsWrite(a) => \A i \in DOMAIN q : q[i].cmd = "save"
  /\ \A a, b \in A : IsWrite(a) /\ IsWrite(b) => a = b

AllGranted(A) == \A a \in A : a.ok /\ a.cmd # "delete"

(* The session of a delivery has it wherever it is, and is nobody else's.      *)
DeliveriesFit(h, l, Q, x, d, b, bs) ==
  \A r \in Deliveries \cap x :
    LET s == Home[r] IN
    /\ s \in DOMAIN h => r \in Listed(h[s].turns)
    /\ s \in DOMAIN l => r \in Listed(l[s].turns)
    /\ s \in DOMAIN d => r \in DOMAIN d[s].rows
    /\ s \in DOMAIN b => r \in DOMAIN b[s].rows
    /\ \A c \in Q : IsSave(c, s) => r \in Listed(c.payload[s].turns)
    /\ \A c \in Q : c.cmd = "create" => Home[c.turn] # s
    /\ s \notin bs /\ \A t \in Inbound \cap x : Home[t] # s

PostedFits(p, x, r) ==
  /\ \A d \in p : \A t \in x : Home[t] = Home[d] => t = d
  /\ \A d \in Deliveries : r[d] # "none" => d \in x

StoreFits(d, x) == \A s \in DOMAIN d : Gapless(d[s].rows) /\ DOMAIN d[s].rows \subseteq x

(* What is rendered is stored, or a save of it is queued or due.              *)
SaveIsDue(l, Q, d, due) ==
  \/ due
  \/ \A s \in DOMAIN l : s \in DOMAIN d /\ d[s].rev = l[s].rev
  \/ \E c \in Q : c.cmd = "save" /\ c.payload = l

Commands == Listed(queue)

NothingForgotten ==
  /\ ~undone /\ OneWrite(queue, answers) /\ AllGranted(answers)
  /\ ViewsFit(history, Commands, sent, db) /\ SavesFit(history, Commands)
  /\ RenderedFits(history, latest)
  /\ Held(history, latest, Commands, answers, db)
  /\ WritesFit(history, Commands, answers, sent, db)
  /\ DeliveriesFit(history, latest, Commands, sent, db, backup.of, bots)
  /\ PostedFits(posted, sent, row)
  /\ StoreFits(db, sent) /\ StoreFits(backup.of, sent)
  /\ (again => saving) /\ SaveIsDue(latest, Commands, db, timer \/ again)

(* Nothing was refused and nothing came in a burst so far. *)
Undisturbed == failures = 0 /\ ~missed /\ ~muddled

SavedInv == failures \in Nat /\ (Undisturbed => NothingForgotten)

(* Without a message that comes while the history loads, nothing is under way   *)
(* until it has been loaded.                                                 *)
StartsQuiet == ~muddled /\ window # "ready" => queue = <<>> /\ answers = {} /\ ~timer

-----------------------------------------------------------------------------
(* Rows on the places of a view                                             *)

LEMMA OwnTurns ==
  ASSUME NEW v, NEW s, Own(v, s)
  PROVE  Len(v) \in Nat /\ DOMAIN v = 1..Len(v) /\ \A i \in DOMAIN v : i \in Nat /\ i >= 1
BY DEF Own

(* What begins a view does not conflict with rows on the places of the view.   *)
LEMMA BeginningFits ==
  ASSUME NEW rows, NEW p, NEW v, NEW s, Own(p, s), OnPlaces(rows, v), Begins(p, v)
  PROVE  Conflicts(rows, p) = {}
<1> SUFFICES ASSUME NEW i \in DOMAIN p, NEW u \in DOMAIN rows,
                    rows[u] + 1 = i, \A j \in 1..i : p[j] # u
             PROVE  FALSE
  BY DEF Conflicts
<1>1. p[i] = u
  BY DEF OnPlaces, Begins
<1>2. i \in 1..i
  <2>1. i \in Nat /\ i >= 1
    BY OwnTurns
  <2> QED
    BY <2>1
<1> QED
  BY <1>1, <1>2

(* Merging it, or its first n turns, leaves them there, these turns among them. *)
LEMMA PlacedOnPlaces ==
  ASSUME NEW rows, NEW p, NEW v, NEW s, Own(p, s), Own(v, s),
         OnPlaces(rows, v), Begins(p, v), NEW n \in 0..Len(p)
  PROVE  /\ OnPlaces(Placed(rows, p, n), v)
         /\ DOMAIN Placed(rows, p, n) = DOMAIN rows \cup {p[i] : i \in 1..n}
<1> DEFINE new == Placed(rows, p, n)
           first == {p[i] : i \in 1..n}
<1>1. DOMAIN p = 1..Len(p) /\ Len(p) \in Nat /\ n \in Nat /\ n <= Len(p)
  BY OwnTurns
<1>2. DOMAIN new = DOMAIN rows \cup first
  BY DEF Placed
<1>3. \A t \in first : \E i \in 1..n : p[i] = t /\ new[t] = i - 1
  BY DEF Placed
<1>4. \A t \in DOMAIN rows \ first : new[t] = rows[t]
  BY DEF Placed
<1> HIDE DEF new
<1>5. ASSUME NEW t \in DOMAIN new
      PROVE  /\ new[t] + 1 \in DOMAIN v /\ v[new[t] + 1] = t
             /\ \A i \in DOMAIN v : i <= new[t] => v[i] \in DOMAIN new
  <2>1. CASE t \in first
    <3>1. PICK k \in 1..n : p[k] = t /\ new[t] = k - 1
      BY <1>3, <2>1
    <3>2. k \in Nat /\ new[t] + 1 = k /\ k \in DOMAIN p /\ k <= n
      BY <1>1, <3>1
    <3>3. ASSUME NEW i \in DOMAIN v, i <= new[t]
          PROVE  v[i] \in DOMAIN new
      <4>1. i \in Nat /\ i >= 1
        BY OwnTurns
      <4>2. i \in 1..n /\ i \in DOMAIN p
        BY <1>1, <3>1, <3>2, <3>3, <4>1
      <4> QED
        BY <1>2, <4>2 DEF Begins
    <3> QED
      BY <3>1, <3>2, <3>3 DEF Begins
  <2>2. CASE t \notin first
    BY <1>2, <1>4, <2>2 DEF OnPlaces
  <2> QED
    BY <2>1, <2>2
<1> QED
  BY <1>2, <1>5 DEF OnPlaces, new

(* Rows on the places of a view have no gap.                                  *)
LEMMA OnPlacesGapless ==
  ASSUME NEW rows, NEW v, NEW s, Own(v, s), IsRows(rows, s), OnPlaces(rows, v), Distinct(v)
  PROVE  Gapless(rows)
<1> SUFFICES ASSUME NEW t \in DOMAIN rows, NEW k \in 0..rows[t]
             PROVE  \E u \in DOMAIN rows : rows[u] = k
  BY DEF Gapless
<1>1. rows[t] \in Nat /\ k \in Nat /\ k <= rows[t]
  BY DEF IsRows
<1>2. CASE k = rows[t]
  BY <1>2
<1>3. CASE k < rows[t]
  <2>1. k + 1 \in DOMAIN v
    <3>1. rows[t] + 1 \in 1..Len(v) /\ Len(v) \in Nat
      BY OwnTurns DEF OnPlaces
    <3> QED
      BY <1>1, <1>3, <3>1, OwnTurns
  <2>2. v[k + 1] \in DOMAIN rows
    BY <1>1, <1>3, <2>1 DEF OnPlaces
  <2>3. PICK u \in DOMAIN rows : u = v[k + 1]
    BY <2>2
  <2>4. rows[u] + 1 \in DOMAIN v /\ v[rows[u] + 1] = v[k + 1] /\ rows[u] \in Nat
    BY <2>3 DEF OnPlaces, IsRows
  <2>5. rows[u] + 1 = k + 1
    BY <2>1, <2>4 DEF Distinct
  <2> QED
    BY <1>1, <2>4, <2>5
<1> QED
  BY <1>1, <1>2, <1>3

(* The place of an appended turn.                                            *)
LEMMA NextPlaceIs ==
  ASSUME NEW rows, NEW s, IsRows(rows, s)
  PROVE  /\ NextPlace(rows) \in Nat
         /\ \A u \in DOMAIN rows : rows[u] < NextPlace(rows)
         /\ NextPlace(rows) = 0 \/ \E u \in DOMAIN rows : rows[u] + 1 = NextPlace(rows)
<1> DEFINE P == {rows[u] : u \in DOMAIN rows}
           n == NextPlace(rows)
<1>1. P \in SUBSET Nat /\ IsFiniteSet(P)
  <2> DEFINE f == [u \in DOMAIN rows |-> rows[u]]
  <2>1. f \in Surjection(DOMAIN rows, P)
    BY DEF Surjection
  <2>2. IsFiniteSet(DOMAIN rows) /\ P \in SUBSET Nat
    BY DEF IsRows
  <2> HIDE DEF f, P
  <2> QED
    BY <2>1, <2>2, FS_Surjection
<1>2. Largest(P) \in P \cup {0} /\ Largest(P) \in Nat /\ \A k \in P : k <= Largest(P)
  <2> HIDE DEF P
  <2>1. Largest(P) \in P \cup {0} /\ \A k \in P : k <= Largest(P)
    BY <1>1, LargestIsLargest
  <2>2. P \subseteq Nat /\ 0 \in Nat
    BY <1>1
  <2>3. Largest(P) \in Nat
    BY <2>1, <2>2
  <2> QED
    BY <2>1, <2>3
<1>3. CASE DOMAIN rows = {}
  BY <1>3 DEF NextPlace
<1>4. CASE DOMAIN rows # {}
  <2>1. n = Largest(P) + 1
    BY <1>4 DEF NextPlace
  <2>2. \A u \in DOMAIN rows : rows[u] \in P /\ rows[u] \in Nat
    BY DEF IsRows
  <2>3. \A k \in P : \E u \in DOMAIN rows : k = rows[u]
    OBVIOUS
  <2>4. P # {}
    BY <1>4
  <2> HIDE DEF n, P
  <2>5. \E u \in DOMAIN rows : rows[u] = Largest(P)
    <3>1. Largest(P) \in P
      BY <1>2, <2>2, <2>3, <2>4
    <3> QED
      BY <2>3, <3>1
  <2>6. n \in Nat /\ \A u \in DOMAIN rows : rows[u] < n
    BY <1>2, <2>1, <2>2
  <2>7. \E u \in DOMAIN rows : rows[u] + 1 = n
    BY <2>1, <2>5
  <2> QED
    BY <2>6, <2>7 DEF n
<1> QED
  BY <1>3, <1>4

LEMMA AppendedGapless ==
  ASSUME NEW rows, NEW s, IsRows(rows, s), Gapless(rows), NEW t, t \notin DOMAIN rows
  PROVE  Gapless(Put(rows, t, NextPlace(rows)))
<1> DEFINE n == NextPlace(rows)
           new == Put(rows, t, n)
<1>1. DOMAIN new = DOMAIN rows \cup {t} /\ new[t] = n /\ \A u \in DOMAIN rows : new[u] = rows[u]
  BY DEF Put
<1>2. n \in Nat /\ (n = 0 \/ \E u \in DOMAIN rows : rows[u] + 1 = n)
  BY NextPlaceIs
<1> HIDE DEF n, new
<1>3. ASSUME NEW k \in 0..n
      PROVE  \E u \in DOMAIN new : new[u] = k
  <2>1. CASE k = n
    BY <1>1, <2>1
  <2>2. CASE k < n
    <3>1. PICK u \in DOMAIN rows : rows[u] + 1 = n
      BY <1>2, <2>2
    <3>2. rows[u] \in Nat
      BY DEF IsRows
    <3>3. k \in 0..rows[u]
      BY <1>2, <2>2, <3>1, <3>2
    <3>4. PICK w \in DOMAIN rows : rows[w] = k
      BY <3>3 DEF Gapless
    <3> QED
      BY <1>1, <3>4
  <2> QED
    BY <1>2, <2>1, <2>2
<1>4. ASSUME NEW u \in DOMAIN rows, NEW k \in 0..rows[u]
      PROVE  \E w \in DOMAIN new : new[w] = k
  <2>1. PICK w \in DOMAIN rows : rows[w] = k
    BY DEF Gapless
  <2> QED
    BY <1>1, <2>1
<1> QED
  BY <1>1, <1>3, <1>4 DEF Gapless, new, n

(* The last turn of a view is put at its place if all others are stored.       *)
LEMMA AppendedOnPlaces ==
  ASSUME NEW rows, NEW s, IsRows(rows, s), NEW v, Own(v, s), v # <<>>, Distinct(v),
         OnPlaces(rows, v), NEW t, t = v[Len(v)], t \notin DOMAIN rows,
         \A i \in DOMAIN v : v[i] = t \/ v[i] \in DOMAIN rows
  PROVE  OnPlaces(Put(rows, t, NextPlace(rows)), v)
<1> DEFINE n == NextPlace(rows)
           new == Put(rows, t, n)
           m == Len(v)
<1>1. DOMAIN new = DOMAIN rows \cup {t} /\ new[t] = n /\ \A u \in DOMAIN rows : new[u] = rows[u]
  BY DEF Put
<1>2. /\ n \in Nat /\ \A u \in DOMAIN rows : rows[u] < n
      /\ n = 0 \/ \E u \in DOMAIN rows : rows[u] + 1 = n
  BY NextPlaceIs
<1>3. m \in Nat /\ m >= 1 /\ DOMAIN v = 1..m /\ v[m] = t
  BY EmptySeq DEF Own
<1> HIDE DEF n, new, m
<1>4. ASSUME NEW u \in DOMAIN rows
      PROVE  rows[u] \in Nat /\ rows[u] + 1 \in 1..m - 1 /\ v[rows[u] + 1] = u
  <2>1. rows[u] \in Nat /\ rows[u] + 1 \in 1..m /\ v[rows[u] + 1] = u
    BY <1>3 DEF OnPlaces, IsRows
  <2>2. rows[u] + 1 # m
    BY <1>3, <2>1
  <2> QED
    BY <1>3, <2>1, <2>2
<1>5. n + 1 = m
  <2>1. CASE m = 1
    <3>1. \A u \in DOMAIN rows : FALSE
      BY <1>4, <2>1
    <3> QED
      BY <1>2, <2>1, <3>1
  <2>2. CASE m > 1
    <3>1. m - 1 \in DOMAIN v /\ m \in DOMAIN v /\ m - 1 # m
      BY <1>3, <2>2
    <3>2. v[m - 1] # t
      BY <1>3, <3>1 DEF Distinct
    <3>3. PICK u \in DOMAIN rows : u = v[m - 1]
      BY <3>1, <3>2
    <3>4. rows[u] + 1 = m - 1
      <4>1. rows[u] + 1 \in DOMAIN v /\ v[rows[u] + 1] = v[m - 1]
        BY <3>3 DEF OnPlaces
      <4> QED
        BY <3>1, <4>1 DEF Distinct
    <3>5. rows[u] \in Nat /\ rows[u] < n
      BY <1>2, <1>4
    <3>6. PICK w \in DOMAIN rows : rows[w] + 1 = n
      BY <1>2, <3>5
    <3> QED
      BY <1>2, <1>3, <1>4, <3>4, <3>5, <3>6
  <2> QED
    BY <1>3, <2>1, <2>2
<1>6. \A i \in DOMAIN v : v[i] \in DOMAIN new
  BY <1>1
<1>7. ASSUME NEW u \in DOMAIN new
      PROVE  new[u] + 1 \in DOMAIN v /\ v[new[u] + 1] = u
  BY <1>1, <1>3, <1>5, <1>7 DEF OnPlaces
<1> QED
  BY <1>6, <1>7 DEF OnPlaces, new, n

(* What is exported of gapless rows is a view that they are on the places of.   *)
LEMMA ExportOnPlaces ==
  ASSUME NEW rows, NEW s, IsRows(rows, s), Gapless(rows)
  PROVE  /\ Distinct(InOrder(rows)) /\ OnPlaces(rows, InOrder(rows))
         /\ Listed(InOrder(rows)) = DOMAIN rows
<1> DEFINE n == Cardinality(DOMAIN rows)
           v == InOrder(rows)
<1>1. v \in [1..n -> DOMAIN rows] /\ \A i, j \in DOMAIN v : i < j => rows[v[i]] < rows[v[j]]
  BY OrderExists DEF InOrder
<1>2. n \in Nat /\ IsFiniteSet(DOMAIN rows)
  BY FS_CardinalityType DEF IsRows
<1> HIDE DEF v
<1>3. DOMAIN v = 1..n /\ \A i \in 1..n : v[i] \in DOMAIN rows /\ rows[v[i]] \in Nat
  BY <1>1 DEF IsRows
<1>4. \A i, j \in 1..n : v[i] = v[j] => i = j
  <2> SUFFICES ASSUME NEW i \in 1..n, NEW j \in 1..n, v[i] = v[j], i # j
               PROVE  FALSE
    OBVIOUS
  <2>1. rows[v[i]] \in Nat /\ ~(rows[v[i]] < rows[v[i]])
    BY <1>3
  <2>2. i \in Int /\ j \in Int
    OBVIOUS
  <2>3. i < j \/ j < i
    BY <2>2
  <2> QED
    BY <1>1, <1>3, <2>1, <2>3
<1>5. Listed(v) = DOMAIN rows
  <2> DEFINE N == 1..n
             L == Listed(v)
  <2>1. IsFiniteSet(N) /\ Cardinality(N) = n
    <3>1. 1 \in Int /\ n \in Int
      BY <1>2
    <3>2. IsFiniteSet(1..n) /\ Cardinality(1..n) = IF 1 > n THEN 0 ELSE n - 1 + 1
      BY <3>1, FS_Interval
    <3> QED
      BY <1>2, <3>2
  <2>2. v \in Surjection(N, L) /\ v \in Injection(N, L)
    <3>1. v \in [N -> L]
      BY <1>1, <1>3 DEF Listed
    <3>2. \A t \in L : \E i \in N : v[i] = t
      BY <1>3 DEF Listed
    <3>3. \A i, j \in DOMAIN v : v[i] = v[j] => i = j
      BY <1>3, <1>4
    <3> HIDE DEF N, L
    <3> QED
      BY <3>1, <3>2, <3>3 DEF Surjection, Injection, IsInjective
  <2>3. L \in SUBSET DOMAIN rows
    BY <1>3 DEF Listed
  <2> HIDE DEF N, L
  <2>4. Cardinality(L) = n
    BY <2>1, <2>2, FS_Surjection
  <2>5. DOMAIN rows = L
    BY <1>2, <2>3, <2>4, FS_Subset
  <2> QED
    BY <2>5 DEF L
<1>6. \A i \in 1..n : rows[v[i]] = i - 1
  <2> DEFINE Bad == {i \in 1..n : rows[v[i]] # i - 1}
  <2>1. SUFFICES ASSUME Bad # {}
                 PROVE  FALSE
    OBVIOUS
  <2>2. Bad \subseteq Nat
    OBVIOUS
  <2>3. PICK i \in Bad : \A j \in Bad : <<j, i>> \notin OpToRel(<, Nat)
    <3> HIDE DEF Bad
    <3> QED
      BY <2>1, <2>2, NatLessThanWellFounded, WFMin
  <2>4. i \in 1..n /\ i \in Nat /\ n \in Nat /\ rows[v[i]] # i - 1
    BY <1>2
  <2>5. ASSUME NEW j \in 1..n, j < i
        PROVE  rows[v[j]] = j - 1
    <3>1. j \in Nat /\ i \in Nat
      OBVIOUS
    <3>2. <<j, i>> \in OpToRel(<, Nat)
      BY <2>5, <3>1 DEF OpToRel
    <3> QED
      BY <2>3, <3>2
  <2>6. rows[v[i]] \in Nat /\ rows[v[i]] >= i - 1
    <3>1. CASE i = 1
      BY <1>3, <2>4, <3>1
    <3>2. CASE i > 1
      <4>1. i - 1 \in 1..n /\ i - 1 < i
        BY <2>4, <3>2
      <4>2. rows[v[i - 1]] = i - 1 - 1
        BY <2>5, <4>1
      <4>3. rows[v[i - 1]] < rows[v[i]]
        BY <1>1, <1>3, <2>4, <4>1
      <4> QED
        BY <1>3, <2>4, <4>2, <4>3
    <3> QED
      BY <2>4, <3>1, <3>2
  <2>7. i - 1 \in 0..rows[v[i]] /\ v[i] \in DOMAIN rows
    BY <1>3, <2>4, <2>6
  <2>8. PICK u \in DOMAIN rows : rows[u] = i - 1
    BY <2>7 DEF Gapless
  <2>9. PICK k \in 1..n : v[k] = u
    BY <1>3, <1>5 DEF Listed
  <2>10. k \in Nat /\ (k < i \/ k = i \/ i < k)
    BY <2>4
  <2>11. CASE k < i
    <3>1. rows[v[k]] = k - 1
      BY <2>5, <2>11
    <3> QED
      BY <2>4, <2>8, <2>9, <2>10, <2>11, <3>1
  <2>12. CASE k = i
    BY <2>4, <2>8, <2>9, <2>12
  <2>13. CASE i < k
    <3>1. rows[v[i]] < rows[v[k]]
      BY <1>1, <1>3, <2>4, <2>13
    <3> QED
      BY <2>4, <2>6, <2>8, <2>9, <3>1
  <2> QED
    BY <2>10, <2>11, <2>12, <2>13
<1>7. ASSUME NEW t \in DOMAIN rows
      PROVE  /\ rows[t] + 1 \in DOMAIN v /\ v[rows[t] + 1] = t
             /\ \A i \in DOMAIN v : v[i] \in DOMAIN rows
  <2>1. PICK k \in 1..n : v[k] = t
    BY <1>3, <1>5 DEF Listed
  <2>2. k \in Nat /\ rows[t] = k - 1
    BY <1>6, <2>1
  <2> QED
    BY <1>3, <2>1, <2>2
<1> QED
  BY <1>3, <1>4, <1>5, <1>7 DEF Distinct, OnPlaces, v

-----------------------------------------------------------------------------
(* Steps that show nothing new                                              *)

LEMMA ViewIs ==
  ASSUME NEW h, NEW Q, NEW s, NEW v
  PROVE  v \in Views(h, Q, s) <=>
           \/ s \in DOMAIN h /\ v = h[s].turns
           \/ \E e \in Q : Deletes(e, s) /\ s \in DOMAIN e.before /\ v = e.before[s].turns
BY DEF Views

LEMMA ViewsTyped ==
  ASSUME TypeInv, NEW s, NEW v \in Views(history, Commands, s)
  PROVE  Own(v, s)
<1>1. CASE s \in DOMAIN history /\ v = history[s].turns
  BY <1>1 DEF TypeInv, WindowTyped, TypedHistory, TypedItem
<1>2. ASSUME NEW e \in Commands, Deletes(e, s) /\ s \in DOMAIN e.before /\ v = e.before[s].turns
      PROVE  Own(v, s)
  <2>1. PICK i \in DOMAIN queue : e = queue[i]
    BY DEF Commands, Listed
  <2>2. TypedHistory(e.before)
    BY <1>2, <2>1 DEF TypeInv, CommandsTyped, TypedCommand, Deletes
  <2> QED
    BY <1>2, <2>2 DEF TypedHistory, TypedItem
<1> QED
  BY <1>1, <1>2, ViewIs

(* No deletion of a session that is shown or rendered is under way.           *)
LEMMA ShownIsNotDeleted ==
  ASSUME DeletionInv, NEW s \in DOMAIN history \cup DOMAIN latest, NEW e \in Commands
  PROVE  ~Deletes(e, s)
<1>1. PICK i \in DOMAIN queue : e = queue[i]
  BY DEF Commands, Listed
<1> QED
  BY <1>1 DEF DeletionInv, DeletedIsHidden, Doomed

LEMMA ShownView ==
  ASSUME DeletionInv, NEW s \in DOMAIN history, NEW v
  PROVE  v \in Views(history, Commands, s) <=> v = history[s].turns
BY ViewIs, ShownIsNotDeleted

(* The window shows turns that it showed before. What it does not show any     *)
(* more is about to be deleted; a command that is added saves what is         *)
(* rendered, deletes a session that is shown or appends what was created.     *)
Kept ==
  /\ UNCHANGED <<db, backup, bots, undone>> /\ sent \subseteq sent'
  /\ \A s \in DOMAIN history' : s \in DOMAIN history /\ history'[s].turns = history[s].turns
  /\ \A s \in DOMAIN latest' :
       /\ s \in DOMAIN history'
       /\ \/ latest'[s].turns = history[s].turns
          \/ s \in DOMAIN latest /\ latest'[s].turns = latest[s].turns
  /\ \A s \in DOMAIN history \ DOMAIN history' :
       \E e \in Commands' : Deletes(e, s) /\ s \in DOMAIN e.before
  /\ Commands \subseteq Commands' /\ answers' \subseteq answers
  /\ \A c \in Commands' \ Commands :
       \/ c.cmd = "save" /\ c.payload = latest /\ latest' = latest
       \/ c.cmd = "delete" /\ c.before = latest /\ latest = history
       \/ c.cmd = "append" /\ Written(Commands, answers, c.turn)
  /\ \A a \in answers \ answers' :
       IsWrite(a) => a.cmd = "append" \/ \E c \in Commands' : IsWrite(c) /\ c.turn = a.of.turn

LEMMA KeptViews ==
  ASSUME Kept, NEW s
  PROVE  /\ Views(history', Commands', s) \subseteq Views(history, Commands, s)
         /\ Views(history, Commands, s) # {} => Views(history', Commands', s) # {}
<1>1. ASSUME NEW v \in Views(history', Commands', s)
      PROVE  v \in Views(history, Commands, s)
  <2>1. CASE s \in DOMAIN history' /\ v = history'[s].turns
    BY <2>1, ViewIs DEF Kept
  <2>2. ASSUME NEW e \in Commands', Deletes(e, s) /\ s \in DOMAIN e.before /\ v = e.before[s].turns
        PROVE  v \in Views(history, Commands, s)
    <3>1. CASE e \in Commands
      BY <2>2, <3>1, ViewIs
    <3>2. CASE e \notin Commands
      <4>1. e.before = history
        BY <2>2, <3>2 DEF Kept, Deletes
      <4> QED
        BY <2>2, <4>1, ViewIs
    <3> QED
      BY <3>1, <3>2
  <2> QED
    BY <2>1, <2>2, ViewIs
<1>2. ASSUME NEW v \in Views(history, Commands, s)
      PROVE  \E w : w \in Views(history', Commands', s)
  <2>1. CASE s \in DOMAIN history /\ s \in DOMAIN history'
    <3>1. history'[s].turns \in Views(history', Commands', s)
      BY <2>1, ViewIs
    <3> QED
      BY <3>1
  <2>2. ASSUME NEW e \in Commands', Deletes(e, s) /\ s \in DOMAIN e.before
        PROVE  \E w : w \in Views(history', Commands', s)
    <3>1. e.before[s].turns \in Views(history', Commands', s)
      BY <2>2, ViewIs
    <3> QED
      BY <3>1
  <2>3. CASE s \in DOMAIN history /\ s \notin DOMAIN history'
    BY <2>2, <2>3 DEF Kept
  <2>4. CASE s \notin DOMAIN history
    <3>1. PICK e \in Commands : Deletes(e, s) /\ s \in DOMAIN e.before
      BY <2>4, ViewIs
    <3> QED
      BY <2>2, <3>1 DEF Kept
  <2> QED
    BY <2>1, <2>3, <2>4
<1> QED
  BY <1>1, <1>2

LEMMA KeptWritten ==
  ASSUME Kept, NEW t
  PROVE  /\ Written(Commands', answers', t) => Written(Commands, answers, t)
         /\ Written(Commands, answers, t) =>
              \/ Written(Commands', answers', t)
              \/ \E a \in answers : a.cmd = "append" /\ a.of.turn = t
<1>1. ASSUME NEW c \in Commands', IsWrite(c), c.turn = t
      PROVE  Written(Commands, answers, t)
  BY <1>1 DEF Kept, Written, IsWrite
<1>2. ASSUME NEW a \in answers', IsWrite(a), a.of.turn = t
      PROVE  Written(Commands, answers, t)
  BY <1>2 DEF Kept, Written
<1>3. ASSUME NEW a \in answers, IsWrite(a), a.of.turn = t
      PROVE  \/ Written(Commands', answers', t)
             \/ \E b \in answers : b.cmd = "append" /\ b.of.turn = t
  BY <1>3 DEF Kept, Written
<1>4. ASSUME NEW c \in Commands, IsWrite(c), c.turn = t
      PROVE  Written(Commands', answers', t)
  BY <1>4 DEF Kept, Written
<1> QED
  BY <1>1, <1>2, <1>3, <1>4 DEF Written

LEMMA KeptViewsFit ==
  ASSUME NothingForgotten, DeletionInv, Kept, TypeInv
  PROVE  /\ ViewsFit(history', Commands', sent', db') /\ SavesFit(history', Commands')
         /\ RenderedFits(history', latest')
<1>1. ViewsFit(history', Commands', sent', db')
  <2>1. ViewsFit(history, Commands, sent, db) /\ db' = db /\ sent \subseteq sent'
    BY DEF NothingForgotten, Kept
  <2> QED
    BY <2>1, KeptViews DEF ViewsFit
<1>2. RenderedFits(history', latest')
  BY DEF NothingForgotten, Kept, RenderedFits, Begins
<1>3. SavesFit(history', Commands')
  <2> SUFFICES ASSUME NEW s \in Sessions, NEW c \in Commands', IsSave(c, s)
               PROVE  /\ Views(history', Commands', s) # {}
                      /\ \A v \in Views(history', Commands', s) : Begins(c.payload[s].turns, v)
    BY DEF SavesFit
  <2>1. CASE c \in Commands
    BY <2>1, KeptViews DEF NothingForgotten, SavesFit
  <2>2. CASE c \notin Commands
    <3>1. c.payload = latest /\ s \in DOMAIN latest
      BY <2>2 DEF Kept, IsSave
    <3>2. s \in DOMAIN history /\ Begins(latest[s].turns, history[s].turns)
      BY <3>1 DEF NothingForgotten, RenderedFits
    <3>3. history[s].turns \in Views(history, Commands, s)
      BY <3>2, ViewIs
    <3>4. \A v \in Views(history, Commands, s) : v = history[s].turns
      BY <3>2, ShownView
    <3> QED
      BY <3>1, <3>2, <3>3, <3>4, KeptViews
  <2> QED
    BY <2>1, <2>2
<1> QED
  BY <1>1, <1>2, <1>3

LEMMA KeptHeld ==
  ASSUME NothingForgotten, Kept, TypeInv
  PROVE  /\ Held(history', latest', Commands', answers', db')
         /\ WritesFit(history', Commands', answers', sent', db')
<1>1. db' = db /\ sent \subseteq sent'
      /\ \A s \in DOMAIN history' : s \in DOMAIN history /\ history'[s].turns = history[s].turns
  BY DEF Kept
<1>2. Held(history', latest', Commands', answers', db')
  <2> SUFFICES ASSUME NEW s \in DOMAIN history', NEW t \in Listed(history'[s].turns)
               PROVE  \/ Written(Commands', answers', t)
                      \/ s \in DOMAIN db /\ t \in DOMAIN db[s].rows
                      \/ /\ s \notin DOMAIN db
                         /\ s \in DOMAIN latest' => t \in Listed(latest'[s].turns)
                         /\ \A c \in Commands' : IsSave(c, s) => t \in Listed(c.payload[s].turns)
    BY <1>1 DEF Held
  <2>1. s \in DOMAIN history /\ t \in Listed(history[s].turns)
    BY <1>1
  <2>2. CASE Written(Commands, answers, t)
    <3>1. CASE \E a \in answers : a.cmd = "append" /\ a.of.turn = t
      <4>1. Home[t] = s
        BY <2>1 DEF TypeInv, WindowTyped, TypedHistory, TypedItem, Own, Listed
      <4> QED
        BY <2>1, <3>1, <4>1 DEF NothingForgotten, WritesFit
    <3> QED
      BY <2>2, <3>1, KeptWritten
  <2>3. CASE /\ s \notin DOMAIN db
             /\ s \in DOMAIN latest => t \in Listed(latest[s].turns)
             /\ \A c \in Commands : IsSave(c, s) => t \in Listed(c.payload[s].turns)
    <3>1. s \in DOMAIN latest' => t \in Listed(latest'[s].turns)
      BY <2>1, <2>3 DEF Kept
    <3>2. ASSUME NEW c \in Commands', IsSave(c, s)
          PROVE  t \in Listed(c.payload[s].turns)
      BY <2>3, <3>2 DEF Kept, IsSave
    <3> QED
      BY <2>3, <3>1, <3>2
  <2>4. \/ Written(Commands, answers, t)
        \/ s \in DOMAIN db /\ t \in DOMAIN db[s].rows
        \/ /\ s \notin DOMAIN db
           /\ s \in DOMAIN latest => t \in Listed(latest[s].turns)
           /\ \A c \in Commands : IsSave(c, s) => t \in Listed(c.payload[s].turns)
    BY <2>1 DEF NothingForgotten, Held
  <2> QED
    BY <2>2, <2>3, <2>4
<1>3. WritesFit(history', Commands', answers', sent', db')
  <2>1. WritesFit(history, Commands, answers, sent, db)
    BY DEF NothingForgotten
  <2>2. \A c \in Commands' : c.cmd = "create" => c \in Commands
    BY DEF Kept
  <2>3. answers' \subseteq answers
    BY DEF Kept
  <2> QED
    BY <1>1, <2>1, <2>2, <2>3, KeptWritten DEF WritesFit
<1> QED
  BY <1>2, <1>3

LEMMA KeptFits ==
  ASSUME TypeInv, DeletionInv, NothingForgotten, Kept,
         OneWrite(queue', answers'), again' => saving',
         SaveIsDue(latest', Commands', db', timer' \/ again'),
         DeliveriesFit(history', latest', Commands', sent', db', (backup.of)', bots'),
         PostedFits(posted', sent', row')
  PROVE  NothingForgotten'
<1>1. StoreFits(db', sent') /\ StoreFits((backup.of)', sent')
  BY DEF NothingForgotten, Kept, StoreFits
<1>2. AllGranted(answers') /\ ~undone'
  BY DEF NothingForgotten, Kept, AllGranted
<1> QED
  BY <1>1, <1>2, KeptViewsFit, KeptHeld DEF NothingForgotten

(* As long as no turn is added a delivery stays wherever it is.               *)
LEMMA KeptDeliveries ==
  ASSUME NothingForgotten, Kept, sent' = sent
  PROVE  DeliveriesFit(history', latest', Commands', sent', db', (backup.of)', bots')
<1> SUFFICES ASSUME NEW r \in Deliveries \cap sent, NEW s, s = Home[r]
             PROVE  /\ s \in DOMAIN history' => r \in Listed(history'[s].turns)
                    /\ s \in DOMAIN latest' => r \in Listed(latest'[s].turns)
                    /\ s \in DOMAIN db' => r \in DOMAIN db'[s].rows
                    /\ s \in DOMAIN (backup.of)' => r \in DOMAIN (backup.of)'[s].rows
                    /\ \A c \in Commands' : IsSave(c, s) => r \in Listed(c.payload[s].turns)
                    /\ \A c \in Commands' : c.cmd = "create" => Home[c.turn] # s
                    /\ s \notin bots' /\ \A t \in Inbound \cap sent : Home[t] # s
  BY DEF DeliveriesFit
<1>1. /\ s \in DOMAIN history => r \in Listed(history[s].turns)
      /\ s \in DOMAIN latest => r \in Listed(latest[s].turns)
      /\ s \in DOMAIN db => r \in DOMAIN db[s].rows
      /\ s \in DOMAIN backup.of => r \in DOMAIN backup.of[s].rows
      /\ \A c \in Commands : IsSave(c, s) => r \in Listed(c.payload[s].turns)
      /\ \A c \in Commands : c.cmd = "create" => Home[c.turn] # s
      /\ s \notin bots /\ \A t \in Inbound \cap sent : Home[t] # s
  BY DEF NothingForgotten, DeliveriesFit
<1>2. UNCHANGED <<db, backup, bots>>
  BY DEF Kept
<1>3. s \in DOMAIN history' => r \in Listed(history'[s].turns)
  BY <1>1 DEF Kept
<1>4. s \in DOMAIN latest' => r \in Listed(latest'[s].turns)
  BY <1>1 DEF Kept
<1>5. ASSUME NEW c \in Commands'
      PROVE  /\ IsSave(c, s) => r \in Listed(c.payload[s].turns)
             /\ c.cmd = "create" => Home[c.turn] # s
  BY <1>1 DEF Kept, IsSave
<1> QED
  BY <1>1, <1>2, <1>3, <1>4, <1>5

-----------------------------------------------------------------------------
(* The steps of the window                                                  *)

LEMMA PushedCommands ==
  ASSUME NEW q, IsSeq(q), NEW c
  PROVE  Listed(q \o <<c>>) = Listed(q) \cup {c}
<1> DEFINE r == q \o <<c>>
<1>1. /\ DOMAIN r = DOMAIN q \cup {Len(q) + 1} /\ r[Len(q) + 1] = c
      /\ \A i \in DOMAIN q : r[i] = q[i]
  BY Pushed
<1> HIDE DEF r
<1>2. Listed(r) = Listed(q) \cup {c}
  BY <1>1 DEF Listed
<1> QED
  BY <1>2 DEF r

LEMMA OneWritePushed ==
  ASSUME NEW q, IsSeq(q), NEW A, OneWrite(q, A), NEW B, B \subseteq A, NEW c,
         \/ c.cmd = "save"
         \/ (\A i \in DOMAIN q : ~IsWrite(q[i])) /\ (\A a \in B : ~IsWrite(a))
  PROVE  OneWrite(q, B) /\ OneWrite(q \o <<c>>, B)
<1> DEFINE r == q \o <<c>>
           m == Len(q) + 1
<1>1. /\ DOMAIN r = DOMAIN q \cup {m} /\ r[m] = c /\ m \in Nat
      /\ \A i \in DOMAIN q : r[i] = q[i] /\ i \in Nat /\ i < m
  BY Pushed
<1> HIDE DEF r, m
<1>2. ASSUME NEW i \in DOMAIN r, NEW j \in DOMAIN r, IsWrite(r[i]), r[j].cmd # "save"
      PROVE  j <= i
  <2>1. CASE i = m
    BY <1>1, <2>1
  <2>2. CASE i # m /\ j = m
    BY <1>1, <1>2, <2>2
  <2>3. CASE i # m /\ j # m
    BY <1>1, <1>2, <2>3 DEF OneWrite
  <2> QED
    BY <2>1, <2>2, <2>3
<1>3. ASSUME NEW a \in B, IsWrite(a), NEW i \in DOMAIN r
      PROVE  r[i].cmd = "save"
  BY <1>1, <1>3 DEF OneWrite
<1> QED
  BY <1>2, <1>3 DEF OneWrite, r

(* A step that queues nothing and shows what is shown.                        *)
LEMMA QuietKeeps ==
  ASSUME TypeInv, DeletionInv, NothingForgotten,
         UNCHANGED <<db, backup, bots, undone, queue, answers, sent, again, saving>>,
         posted' \subseteq posted, \A d \in Deliveries : row'[d] # "none" => row[d] # "none",
         DOMAIN history' = DOMAIN history,
         \A s \in DOMAIN history : history'[s].turns = history[s].turns,
         (latest' = latest /\ (timer => timer')) \/ (latest' = history /\ timer')
  PROVE  NothingForgotten'
<1>1. Commands' = Commands
  BY DEF Commands
<1>2. \A s \in DOMAIN latest : s \in DOMAIN history
  BY DEF NothingForgotten, RenderedFits
<1>3. Kept
  BY <1>1, <1>2 DEF Kept
<1>4. OneWrite(queue', answers') /\ (again' => saving')
  BY DEF NothingForgotten
<1>5. SaveIsDue(latest', Commands', db', timer' \/ again')
  BY <1>1 DEF NothingForgotten, SaveIsDue
<1>6. PostedFits(posted', sent', row')
  BY DEF NothingForgotten, PostedFits
<1> QED
  BY <1>3, <1>4, <1>5, <1>6, KeptDeliveries, KeptFits

(* A save of what is rendered is queued, or what is needed of it remains due.  *)
LEMMA SavingKeeps ==
  ASSUME TypeInv, DeletionInv, NothingForgotten,
         UNCHANGED <<history, latest, db, backup, bots, undone, sent, posted, row>>,
         answers' \subseteq answers, \A a \in answers \ answers' : ~IsWrite(a),
         again' => saving',
         \/ UNCHANGED queue /\ (timer \/ again => timer' \/ again')
         \/ \E auto : queue' = queue \o <<Saving(latest, auto)>>
  PROVE  NothingForgotten'
<1>1. IsSeq(queue)
  BY DEF TypeInv, CommandsTyped
<1>2. \A s \in DOMAIN latest : s \in DOMAIN history
  BY DEF NothingForgotten, RenderedFits
<1>3. PostedFits(posted', sent', row')
  BY DEF NothingForgotten
<1>4. CASE UNCHANGED queue /\ (timer \/ again => timer' \/ again')
  <2>1. Commands' = Commands
    BY <1>4 DEF Commands
  <2>2. Kept
    BY <1>2, <2>1 DEF Kept
  <2>3. OneWrite(queue', answers')
    BY <1>4 DEF NothingForgotten, OneWrite
  <2>4. SaveIsDue(latest', Commands', db', timer' \/ again')
    BY <1>4, <2>1 DEF NothingForgotten, SaveIsDue
  <2> QED
    BY <1>3, <2>2, <2>3, <2>4, KeptDeliveries, KeptFits
<1>5. ASSUME NEW auto, queue' = queue \o <<Saving(latest, auto)>>
      PROVE  NothingForgotten'
  <2>1. Saving(latest, auto).cmd = "save" /\ Saving(latest, auto).payload = latest
    BY DEF Saving
  <2>2. Commands' = Commands \cup {Saving(latest, auto)}
    BY <1>1, <1>5, PushedCommands DEF Commands
  <2>3. Kept
    BY <1>2, <2>1, <2>2 DEF Kept
  <2>4. OneWrite(queue', answers')
    BY <1>1, <1>5, <2>1, OneWritePushed DEF NothingForgotten
  <2>5. SaveIsDue(latest', Commands', db', timer' \/ again')
    BY <2>1, <2>2 DEF SaveIsDue
  <2> QED
    BY <1>3, <2>3, <2>4, <2>5, KeptDeliveries, KeptFits
<1> QED
  BY <1>4, <1>5

LEMMA TimerFiresKeeps ==
  ASSUME TypeInv, DeletionInv, NothingForgotten, TimerFires
  PROVE  NothingForgotten'
<1>1. UNCHANGED <<history, latest, db, backup, bots, undone, sent, posted, row, answers>>
  BY DEF TimerFires, storeVars, deliveryVars, mishaps
<1>2. CASE saving
  BY <1>1, <1>2, SavingKeeps DEF TimerFires, Flush
<1>3. CASE ~saving
  <2>1. queue' = queue \o <<Saving(latest, TRUE)>> /\ saving'
    BY <1>3 DEF TimerFires, Flush, Invoke
  <2> QED
    BY <1>1, <2>1, SavingKeeps
<1> QED
  BY <1>2, <1>3

LEMMA SavedKeeps ==
  ASSUME TypeInv, DeletionInv, NothingForgotten, NEW a \in answers, Saved(a)
  PROVE  NothingForgotten'
<1>1. UNCHANGED <<history, latest, db, backup, bots, undone, sent, posted, row, timer>>
  BY DEF Saved, Handles, storeVars, deliveryVars
<1>2. answers' \subseteq answers /\ \A b \in answers \ answers' : ~IsWrite(b)
  BY DEF Saved, Handles, IsWrite
<1>3. CASE a.of.auto /\ again
  <2>1. queue' = queue \o <<Saving(latest, TRUE)>> /\ saving'
    BY <1>3 DEF Saved, SavedThen, Invoke
  <2> QED
    BY <1>1, <1>2, <2>1, SavingKeeps
<1>4. CASE ~(a.of.auto /\ again)
  <2>1. UNCHANGED <<queue, again>> /\ (again' => saving')
    BY <1>4 DEF Saved, SavedThen, NothingForgotten
  <2> QED
    BY <1>1, <1>2, <2>1, SavingKeeps
<1> QED
  BY <1>3, <1>4

(* No message is being stored.                                               *)
LEMMA NothingIsWritten ==
  ASSUME Calm
  PROVE  /\ history = latest
         /\ \A i \in DOMAIN queue : ~IsWrite(queue[i])
         /\ \A a \in answers : ~IsWrite(a)
         /\ \A t : ~Written(Commands, answers, t)
BY DEF Calm, IsWrite, Written, Commands, Listed

LEMMA DeleteKeeps ==
  ASSUME TypeInv, DeletionInv, NothingForgotten, Calm, NEW s \in Sessions, DeleteHistoryItem(s)
  PROVE  NothingForgotten'
<1> DEFINE c == Deletion(s, latest)
<1>1. /\ UNCHANGED <<db, backup, bots, undone, sent, posted, row, saving, again, answers>> /\ timer'
      /\ history' = Drop(latest, s) /\ latest' = Drop(latest, s)
      /\ queue' = queue \o <<c>> /\ s \in DOMAIN latest
  BY DEF DeleteHistoryItem, RemoveShown, Invoke, storeVars, deliveryVars
<1>2. c.cmd = "delete" /\ c.session = s /\ c.before = latest
  BY DEF Deletion
<1>3. IsSeq(queue)
  BY DEF TypeInv, CommandsTyped
<1> HIDE DEF c
<1>4. Commands' = Commands \cup {c}
  BY <1>1, <1>3, PushedCommands DEF Commands
<1>5. DOMAIN Drop(latest, s) = DOMAIN latest \ {s}
      /\ \A x \in DOMAIN latest \ {s} : Drop(latest, s)[x] = latest[x]
  BY DEF Drop
<1>6. history = latest
  BY NothingIsWritten
<1>7. Kept
  <2>1. Deletes(c, s) /\ s \in DOMAIN c.before
    BY <1>1, <1>2 DEF Deletes
  <2>2. \A x \in DOMAIN history \ DOMAIN history' : x = s
    BY <1>1, <1>5, <1>6
  <2> QED
    BY <1>1, <1>2, <1>4, <1>5, <1>6, <2>1, <2>2 DEF Kept
<1>8. OneWrite(queue', answers')
  BY <1>1, <1>3, NothingIsWritten, OneWritePushed DEF NothingForgotten
<1>9. SaveIsDue(latest', Commands', db', timer' \/ again') /\ (again' => saving')
  BY <1>1 DEF SaveIsDue, NothingForgotten
<1>10. PostedFits(posted', sent', row')
  BY <1>1 DEF NothingForgotten
<1> QED
  BY <1>1, <1>7, <1>8, <1>9, <1>10, KeptDeliveries, KeptFits

(* A session that was created: its turn is appended now.                      *)
LEMMA CreatedKeeps ==
  ASSUME TypeInv, DeletionInv, NothingForgotten, NEW a \in answers, Created(a)
  PROVE  NothingForgotten'
<1> DEFINE c == Appending(a.of.turn)
<1>1. /\ UNCHANGED <<history, latest, db, backup, bots, undone, sent, posted, row, timer, saving, again>>
      /\ answers' = answers \ {a} /\ a.cmd = "create" /\ queue' = queue \o <<c>>
  BY DEF Created, Handles, storeVars, deliveryVars, saverVars, Invoke, NothingForgotten, AllGranted
<1>2. c.cmd = "append" /\ c.turn = a.of.turn
  BY DEF Appending
<1>3. IsSeq(queue)
  BY DEF TypeInv, CommandsTyped
<1> HIDE DEF c
<1>4. Commands' = Commands \cup {c}
  BY <1>1, <1>3, PushedCommands DEF Commands
<1>5. IsWrite(a) /\ IsWrite(c) /\ Written(Commands, answers, c.turn)
  BY <1>1, <1>2 DEF IsWrite, Written
<1>6. \A s \in DOMAIN latest : s \in DOMAIN history
  BY DEF NothingForgotten, RenderedFits
<1>7. Kept
  BY <1>1, <1>2, <1>4, <1>5, <1>6 DEF Kept
<1>8. OneWrite(queue', answers')
  <2>1. OneWrite(queue, answers)
    BY DEF NothingForgotten
  <2>2. /\ \A i \in DOMAIN queue : ~IsWrite(queue[i])
        /\ \A b \in answers' : ~IsWrite(b)
    BY <1>1, <1>5, <2>1 DEF OneWrite, IsWrite
  <2> QED
    BY <1>1, <1>3, <2>1, <2>2, OneWritePushed
<1>9. SaveIsDue(latest', Commands', db', timer' \/ again') /\ (again' => saving')
  BY <1>1, <1>4 DEF SaveIsDue, NothingForgotten
<1>10. PostedFits(posted', sent', row')
  BY <1>1 DEF NothingForgotten
<1> QED
  BY <1>1, <1>7, <1>8, <1>9, <1>10, KeptDeliveries, KeptFits

LEMMA AppendedKeeps ==
  ASSUME TypeInv, DeletionInv, NothingForgotten, NEW a \in answers, Appended(a)
  PROVE  NothingForgotten'
<1>1. /\ UNCHANGED <<history, latest, db, backup, bots, undone, sent, posted, row, saving, again, queue>>
      /\ answers' = answers \ {a} /\ a.cmd = "append" /\ (timer => timer')
  BY DEF Appended, Handles, storeVars, deliveryVars
<1>2. Commands' = Commands
  BY <1>1 DEF Commands
<1>3. \A s \in DOMAIN latest : s \in DOMAIN history
  BY DEF NothingForgotten, RenderedFits
<1>4. Kept
  BY <1>1, <1>2, <1>3 DEF Kept
<1>5. OneWrite(queue', answers')
  BY <1>1 DEF NothingForgotten, OneWrite
<1>6. SaveIsDue(latest', Commands', db', timer' \/ again') /\ (again' => saving')
  BY <1>1, <1>2 DEF SaveIsDue, NothingForgotten
<1>7. PostedFits(posted', sent', row')
  BY <1>1 DEF NothingForgotten
<1> QED
  BY <1>1, <1>4, <1>5, <1>6, <1>7, KeptDeliveries, KeptFits

(* A delivery has a session that nothing knows.                               *)
LEMMA RecordDeliveryKeeps ==
  ASSUME TypeInv, DeletionInv, NothingForgotten, NEW d \in Deliveries, RecordDelivery(d)
  PROVE  NothingForgotten'
<1>1. /\ UNCHANGED <<history, latest, db, backup, bots, undone, saving, again, timer, queue, answers>>
      /\ sent' = sent \cup {d} /\ row' = [row EXCEPT ![d] = "new"] /\ ~Known(Home[d])
      /\ posted' \subseteq posted \cup {d}
  BY DEF RecordDelivery, windowVars, saverVars, ipcVars, storeVars, mishaps
<1>2. Commands' = Commands
  BY <1>1 DEF Commands
<1>3. \A s \in DOMAIN latest : s \in DOMAIN history
  BY DEF NothingForgotten, RenderedFits
<1>4. Kept
  BY <1>1, <1>2, <1>3 DEF Kept
<1>5. OneWrite(queue', answers') /\ (again' => saving')
  BY <1>1 DEF NothingForgotten
<1>6. SaveIsDue(latest', Commands', db', timer' \/ again')
  BY <1>1, <1>2 DEF SaveIsDue, NothingForgotten
<1>7. d \in Turns /\ Home[d] \in Sessions /\ \A t \in sent : Home[t] # Home[d]
  BY <1>1, HistoryAssumption DEF Known
<1>8. PostedFits(posted', sent', row')
  <2>1. PostedFits(posted, sent, row)
    BY DEF NothingForgotten
  <2>2. posted \subseteq sent
    BY DEF DeletionInv, PostedIsUntouched
  <2>3. ASSUME NEW e \in posted', NEW t \in sent', Home[t] = Home[e]
        PROVE  t = e
    BY <1>1, <1>7, <2>1, <2>2, <2>3 DEF PostedFits
  <2>4. ASSUME NEW e \in Deliveries, row'[e] # "none"
        PROVE  e \in sent'
    BY <1>1, <2>1, <2>4 DEF PostedFits, TypeInv, DeliveriesTyped
  <2> QED
    BY <2>3, <2>4 DEF PostedFits
<1>9. DeliveriesFit(history', latest', Commands', sent', db', (backup.of)', bots')
  <2>1. Untouched(Home[d])
    BY <1>1, <1>7 DEF DeletionInv, UnknownIsUntouched
  <2>2. ASSUME NEW c \in Commands
        PROVE  ~IsSave(c, Home[d]) /\ (c.cmd = "create" => Home[c.turn] # Home[d])
    <3>1. ~Writes(c, Home[d])
      BY <2>1 DEF Untouched, Commands, Listed
    <3> QED
      BY <3>1 DEF Writes, IsSave
  <2>3. d \notin Inbound /\ \A t \in Inbound \cap sent' : Home[t] # Home[d]
    BY <1>1, <1>7, HistoryAssumption
  <2>4. \A r \in Deliveries \cap sent : Home[r] # Home[d]
    BY <1>7
  <2>5. \A r \in Deliveries \cap sent : \A t \in Inbound \cap sent' : Home[t] # Home[r]
    BY <1>1, <2>3 DEF NothingForgotten, DeliveriesFit
  <2>6. DeliveriesFit(history, latest, Commands, sent, db, backup.of, bots)
    BY DEF NothingForgotten
  <2>7. DeliveriesFit(history, latest, Commands, sent \cup {d}, db, backup.of, bots)
    BY <1>1, <2>1, <2>2, <2>3, <2>5, <2>6 DEF DeliveriesFit, Untouched
  <2> QED
    BY <1>1, <1>2, <2>7
<1> QED
  BY <1>4, <1>5, <1>6, <1>8, <1>9, KeptFits

LEMMA EditKeeps ==
  ASSUME TypeInv, DeletionInv, NothingForgotten, NEW s \in Sessions, Edit(s) \/ Retitle(s)
  PROVE  NothingForgotten'
<1>1. PICK stamp : /\ history' = Put(history, s, Item(history[s].turns, clock + 1, stamp))
                   /\ s \in DOMAIN history
  BY DEF Edit, Retitle
<1>2. UNCHANGED <<db, backup, bots, undone, queue, answers, sent, again, saving, timer, latest, posted, row>>
  BY DEF Edit, Retitle, saverVars, ipcVars, storeVars, deliveryVars, mishaps
<1>3. DOMAIN history' = DOMAIN history
      /\ \A x \in DOMAIN history : history'[x].turns = history[x].turns
  BY <1>1 DEF Put, Item
<1> QED
  BY <1>2, <1>3, QuietKeeps

(* What is polled is shown already.                                          *)
LEMMA PollKeeps ==
  ASSUME TypeInv, DeletionInv, NothingForgotten, PollTaskDeliveries
  PROVE  NothingForgotten'
<1>1. UNCHANGED <<db, backup, bots, undone, queue, answers, sent, again, saving, timer, latest, posted>>
  BY DEF PollTaskDeliveries, saverVars, ipcVars, storeVars, mishaps
<1>2. \A d \in Deliveries : row'[d] # "none" => row[d] # "none"
  BY DEF PollTaskDeliveries, Undelivered
<1>3. ASSUME NEW s \in DOMAIN history
      PROVE  {d \in Undelivered : Home[d] = s /\ d \notin Listed(history[s].turns)} = {}
  <2>1. \A d \in Undelivered : d \in Deliveries \cap sent
    BY DEF Undelivered, NothingForgotten, PostedFits
  <2> QED
    BY <2>1 DEF NothingForgotten, DeliveriesFit
<1>4. DOMAIN history' = DOMAIN history /\ \A s \in DOMAIN history : history'[s] = history[s]
  BY <1>3 DEF PollTaskDeliveries
<1> QED
  BY <1>1, <1>2, <1>4, QuietKeeps

-----------------------------------------------------------------------------
(* A turn is added                                                          *)

LEMMA LongerView ==
  ASSUME NEW v, NEW s, Own(v, s), NEW t \in Turns, Home[t] = s, t \notin Listed(v)
  PROVE  LET w == Append(v, t) IN
         /\ Own(w, s) /\ w # <<>> /\ w[Len(w)] = t /\ Len(w) = Len(v) + 1
         /\ Listed(w) = Listed(v) \cup {t}
         /\ Distinct(v) => Distinct(w)
         /\ \A p : Begins(p, v) => Begins(p, w)
         /\ \A rows : OnPlaces(rows, v) /\ (\A u \in DOMAIN rows : rows[u] \in Nat) => OnPlaces(rows, w)
<1> DEFINE w == Append(v, t)
           n == Len(v)
<1>1. /\ n \in Nat /\ DOMAIN v = 1..n /\ w \in Seq(Turns) /\ DOMAIN w = 1..n + 1 /\ Len(w) = n + 1
      /\ w[n + 1] = t /\ \A i \in 1..n : w[i] = v[i]
  BY DEF Own
<1>2. \A i \in 1..n : i \in 1..n + 1 /\ i # n + 1
  BY <1>1
<1>3. \A i \in 1..n + 1 : i \in 1..n \/ i = n + 1
  BY <1>1
<1>4. n + 1 \in 1..n + 1
  BY <1>1
<1> HIDE DEF w, n
<1>5. Own(w, s)
  BY <1>1, <1>3 DEF Own
<1>6. Listed(w) = Listed(v) \cup {t}
  BY <1>1, <1>2, <1>3, <1>4 DEF Listed
<1>7. ASSUME Distinct(v)
      PROVE  Distinct(w)
  <2> SUFFICES ASSUME NEW i \in DOMAIN w, NEW j \in DOMAIN w, w[i] = w[j]
               PROVE  i = j
    BY DEF Distinct
  <2>1. CASE i \in 1..n /\ j \in 1..n
    BY <1>1, <1>7, <2>1 DEF Distinct
  <2>2. \A k \in 1..n : w[k] # t
    BY <1>1 DEF Listed
  <2> QED
    BY <1>1, <1>3, <2>1, <2>2
<1>8. ASSUME NEW p, Begins(p, v)
      PROVE  Begins(p, w)
  BY <1>1, <1>2, <1>8 DEF Begins
<1>9. ASSUME NEW rows, OnPlaces(rows, v), \A u \in DOMAIN rows : rows[u] \in Nat
      PROVE  OnPlaces(rows, w)
  <2> SUFFICES ASSUME NEW u \in DOMAIN rows
               PROVE  /\ rows[u] + 1 \in DOMAIN w /\ w[rows[u] + 1] = u
                      /\ \A i \in DOMAIN w : i <= rows[u] => w[i] \in DOMAIN rows
    BY DEF OnPlaces
  <2>1. rows[u] \in Nat /\ rows[u] + 1 \in 1..n /\ v[rows[u] + 1] = u
    BY <1>1, <1>9 DEF OnPlaces
  <2>2. \A i \in 1..n + 1 : i <= rows[u] => i \in 1..n
    BY <1>1, <2>1
  <2>3. \A i \in 1..n : i <= rows[u] => v[i] \in DOMAIN rows
    BY <1>1, <1>9 DEF OnPlaces
  <2> QED
    BY <1>1, <1>2, <2>1, <2>2, <2>3
<1>10. w # <<>> /\ w[Len(w)] = t
  BY <1>1, <1>4
<1> QED
  BY <1>1, <1>5, <1>6, <1>7, <1>8, <1>9, <1>10 DEF w, n

(* A turn is added: to a session that is shown, and it is being written, or to  *)
(* a session that nothing shows or stores yet.                                *)
Grown(t, s) ==
  /\ s = Home[t] /\ t \in Turns /\ t \notin Listed(TurnsOf(history, s))
  /\ history' = WithTurn(history, t)
  /\ UNCHANGED <<latest, db, backup, undone, answers>> /\ sent \subseteq sent' /\ t \in sent'
  /\ Commands \subseteq Commands' /\ \A c \in Commands' \ Commands : IsWrite(c)
  /\ (s \in DOMAIN history /\ Written(Commands', answers, t)) \/ Untouched(s)

LEMMA GrownHistory ==
  ASSUME TypeInv, NEW t, NEW s, Grown(t, s)
  PROVE  LET v == TurnsOf(history, s)
             w == history'[s].turns IN
         /\ s \in Sessions /\ Own(v, s) /\ w = Append(v, t)
         /\ DOMAIN history' = DOMAIN history \cup {s}
         /\ \A x \in DOMAIN history : x # s => history'[x] = history[x]
<1>1. s \in Sessions /\ Own(TurnsOf(history, s), s)
  BY HistoryAssumption, TurnsOfOwn DEF Grown, TypeInv, WindowTyped
<1>2. /\ DOMAIN history' = DOMAIN history \cup {s}
      /\ \A x \in DOMAIN history : x # s => history'[x] = history[x]
      /\ history'[s] = Item(Append(TurnsOf(history, s), t), clock + 1, clock + 1)
  BY DEF Grown, WithTurn, Put
<1>3. history'[s].turns = Append(TurnsOf(history, s), t)
  BY <1>2 DEF Item
<1> QED
  BY <1>1, <1>2, <1>3

LEMMA GrownFits ==
  ASSUME TypeInv, DeletionInv, NothingForgotten, NEW t, NEW s, Grown(t, s)
  PROVE  /\ ViewsFit(history', Commands', sent', db') /\ SavesFit(history', Commands')
         /\ RenderedFits(history', latest') /\ Held(history', latest', Commands', answers', db')
<1> DEFINE v == TurnsOf(history, s)
           w == history'[s].turns
<1>1. /\ s \in Sessions /\ Own(v, s) /\ w = Append(v, t) /\ s \in DOMAIN history'
      /\ DOMAIN history' = DOMAIN history \cup {s}
      /\ \A x \in DOMAIN history : x # s => history'[x] = history[x]
  BY GrownHistory
<1>2. s = Home[t] /\ t \in Turns /\ t \notin Listed(v)
      /\ UNCHANGED <<latest, db, answers>> /\ sent \subseteq sent' /\ t \in sent'
  BY DEF Grown
<1>3. /\ Listed(w) = Listed(v) \cup {t}
      /\ Distinct(v) => Distinct(w)
      /\ \A p : Begins(p, v) => Begins(p, w)
      /\ \A rows : OnPlaces(rows, v) /\ (\A u \in DOMAIN rows : rows[u] \in Nat) => OnPlaces(rows, w)
  BY <1>1, <1>2, LongerView
<1>4. /\ \A c \in Commands' : \A x : IsSave(c, x) \/ Deletes(c, x) => c \in Commands
      /\ Commands \subseteq Commands'
  BY DEF Grown, IsSave, Deletes, IsWrite
<1>5. \A u : Written(Commands, answers, u) => Written(Commands', answers', u)
  BY <1>2, <1>4 DEF Written
<1>6. ASSUME NEW x, x # s
      PROVE  Views(history', Commands', x) = Views(history, Commands, x)
  <2>1. \A e : e \in Commands' /\ Deletes(e, x) <=> e \in Commands /\ Deletes(e, x)
    BY <1>4
  <2>2. \A y : (x \in DOMAIN history' /\ y = history'[x].turns) <=> (x \in DOMAIN history /\ y = history[x].turns)
    BY <1>1, <1>6
  <2>3. \A y : y \in Views(history', Commands', x) <=> y \in Views(history, Commands, x)
    BY <2>1, <2>2, ViewIs
  <2> QED
    BY <2>3
<1>7. \A e \in Commands : ~Deletes(e, s)
  <2>1. CASE s \in DOMAIN history
    BY <2>1, ShownIsNotDeleted
  <2>2. CASE s \notin DOMAIN history
    BY <2>2 DEF Grown, Untouched, Commands, Listed
  <2> QED
    BY <2>1, <2>2
<1>8. \A y : y \in Views(history', Commands', s) <=> y = w
  BY <1>1, <1>4, <1>7, ViewIs
<1>9. s \in DOMAIN history =>
         /\ v = history[s].turns /\ v \in Views(history, Commands, s)
         /\ Distinct(v) /\ Listed(v) \subseteq sent
         /\ s \in DOMAIN db => OnPlaces(db[s].rows, v) /\ \A u \in DOMAIN db[s].rows : db[s].rows[u] \in Nat
  <2> SUFFICES ASSUME s \in DOMAIN history
               PROVE  /\ v = history[s].turns /\ v \in Views(history, Commands, s)
                      /\ Distinct(v) /\ Listed(v) \subseteq sent
                      /\ s \in DOMAIN db => OnPlaces(db[s].rows, v) /\ \A u \in DOMAIN db[s].rows : db[s].rows[u] \in Nat
    OBVIOUS
  <2>1. v = history[s].turns /\ v \in Views(history, Commands, s)
    BY ViewIs DEF TurnsOf
  <2>2. ViewsFit(history, Commands, sent, db)
    BY DEF NothingForgotten
  <2>3. s \in DOMAIN db => \A u \in DOMAIN db[s].rows : db[s].rows[u] \in Nat
    BY DEF TypeInv, StoreTyped, TypedStore, IsRows
  <2> HIDE DEF v
  <2> QED
    BY <1>1, <2>1, <2>2, <2>3 DEF ViewsFit
<1>10. s \notin DOMAIN history =>
         /\ v = <<>> /\ s \notin DOMAIN db /\ s \notin DOMAIN latest
         /\ \A c \in Commands : ~IsSave(c, s)
  <2> SUFFICES ASSUME s \notin DOMAIN history
               PROVE  /\ v = <<>> /\ s \notin DOMAIN db /\ s \notin DOMAIN latest
                      /\ \A c \in Commands : ~IsSave(c, s)
    OBVIOUS
  <2>1. Untouched(s)
    BY DEF Grown
  <2> QED
    BY <2>1 DEF Untouched, TurnsOf, Commands, Listed, Writes, IsSave
<1>11. ViewsFit(history', Commands', sent', db')
  <2> SUFFICES ASSUME NEW x \in Sessions, NEW y \in Views(history', Commands', x)
               PROVE  Distinct(y) /\ Listed(y) \subseteq sent'
                      /\ (x \in DOMAIN db' => OnPlaces(db'[x].rows, y))
    BY DEF ViewsFit
  <2>1. CASE x # s
    BY <1>2, <1>6, <2>1 DEF NothingForgotten, ViewsFit
  <2>2. CASE x = s
    <3>1. y = w
      BY <1>8, <2>2
    <3>2. CASE s \in DOMAIN history
      BY <1>2, <1>3, <1>9, <2>2, <3>1, <3>2
    <3>3. CASE s \notin DOMAIN history
      <4>1. Distinct(v) /\ Listed(v) = {}
        BY <1>10, <3>3 DEF Distinct, Listed
      <4> QED
        BY <1>2, <1>3, <1>10, <2>2, <3>1, <3>3, <4>1
    <3> QED
      BY <3>2, <3>3
  <2> QED
    BY <2>1, <2>2
<1>12. SavesFit(history', Commands')
  <2> SUFFICES ASSUME NEW x \in Sessions, NEW c \in Commands', IsSave(c, x)
               PROVE  /\ Views(history', Commands', x) # {}
                      /\ \A y \in Views(history', Commands', x) : Begins(c.payload[x].turns, y)
    BY DEF SavesFit
  <2>1. c \in Commands /\ SavesFit(history, Commands)
    BY <1>4 DEF NothingForgotten
  <2>2. CASE x # s
    BY <1>6, <2>1, <2>2 DEF SavesFit
  <2>3. CASE x = s
    BY <1>3, <1>8, <1>9, <1>10, <2>1, <2>3 DEF SavesFit
  <2> QED
    BY <2>2, <2>3
<1>13. RenderedFits(history', latest')
  <2> SUFFICES ASSUME NEW x \in DOMAIN latest
               PROVE  x \in DOMAIN history' /\ Begins(latest[x].turns, history'[x].turns)
    BY <1>2 DEF RenderedFits
  <2>1. x \in DOMAIN history /\ Begins(latest[x].turns, history[x].turns)
    BY DEF NothingForgotten, RenderedFits
  <2> QED
    BY <1>1, <1>3, <1>9, <2>1
<1>14. Held(history', latest', Commands', answers', db')
  <2> SUFFICES ASSUME NEW x \in DOMAIN history', NEW u \in Listed(history'[x].turns)
               PROVE  \/ Written(Commands', answers', u)
                      \/ x \in DOMAIN db /\ u \in DOMAIN db[x].rows
                      \/ /\ x \notin DOMAIN db
                         /\ x \in DOMAIN latest => u \in Listed(latest[x].turns)
                         /\ \A c \in Commands' : IsSave(c, x) => u \in Listed(c.payload[x].turns)
    BY <1>2 DEF Held
  <2>1. CASE x \in DOMAIN history /\ u \in Listed(history[x].turns)
    <3>1. \/ Written(Commands, answers, u)
          \/ x \in DOMAIN db /\ u \in DOMAIN db[x].rows
          \/ /\ x \notin DOMAIN db
             /\ x \in DOMAIN latest => u \in Listed(latest[x].turns)
             /\ \A c \in Commands : IsSave(c, x) => u \in Listed(c.payload[x].turns)
      BY <2>1 DEF NothingForgotten, Held
    <3> QED
      BY <1>4, <1>5, <3>1
  <2>2. CASE ~(x \in DOMAIN history /\ u \in Listed(history[x].turns))
    <3>1. x = s
      BY <1>1, <2>2
    <3>2. CASE s \in DOMAIN history
      <4>1. u = t
        BY <1>3, <1>9, <2>2, <3>1, <3>2
      <4>2. Written(Commands', answers', u)
        BY <1>2, <3>2, <4>1 DEF Grown, Untouched
      <4> QED
        BY <4>2
    <3>3. CASE s \notin DOMAIN history
      BY <1>4, <1>10, <3>1, <3>3
    <3> QED
      BY <3>2, <3>3
  <2> QED
    BY <2>1, <2>2
<1> QED
  BY <1>11, <1>12, <1>13, <1>14

(* A message, when the last one is stored.                                    *)
LEMMA MessageFacts ==
  ASSUME TypeInv, DeletionInv, NothingForgotten, Calm, NEW t \in Turns, Message(t)
  PROVE  LET s == Home[t] IN
         /\ UNCHANGED <<latest, db, backup, undone, answers, timer, saving, again, posted, row>>
         /\ s \in Sessions /\ t \notin Deliveries \cup sent /\ sent' = sent \cup {t}
         /\ bots' = IF t \in Inbound THEN bots \cup {s} ELSE bots
         /\ OneWrite(queue', answers')
         /\ \E c : /\ Commands' = Commands \cup {c} /\ IsWrite(c) /\ c.turn = t
                   /\ c.cmd = "create" <=> s \notin DOMAIN history
         /\ \/ Grown(t, s)
            \/ /\ history' = history /\ s \notin DOMAIN history
               /\ Known(s) /\ t \in Inbound /\ s \in bots
         /\ Known(s) => s \in DOMAIN history \/ (t \in Inbound /\ s \in bots)
<1> DEFINE s == Home[t]
           c == IF s \in DOMAIN latest THEN Appending(t) ELSE Creation(t, clock + 1)
<1>1. UNCHANGED <<latest, db, backup, undone, answers, timer, saving, again, posted, row>>
  BY DEF Message, saverVars, storeVars, deliveryVars
<1>2. s \in Sessions /\ t \notin Deliveries \cup sent /\ sent' = sent \cup {t}
      /\ bots' = IF t \in Inbound THEN bots \cup {s} ELSE bots
  BY HistoryAssumption DEF Message
<1>3. queue' = queue \o <<c>>
  BY DEF Message, Invoke
<1>4. /\ IsWrite(c) /\ c.turn = t /\ (c.cmd = "create" <=> s \notin DOMAIN history)
      /\ history = latest
  BY NothingIsWritten DEF Appending, Creation, IsWrite
<1> HIDE DEF c
<1>5. Commands' = Commands \cup {c} /\ OneWrite(queue', answers')
  <2>1. IsSeq(queue) /\ OneWrite(queue, answers)
    BY DEF TypeInv, CommandsTyped, NothingForgotten
  <2> QED
    BY <1>1, <1>3, <2>1, PushedCommands, OneWritePushed, NothingIsWritten DEF Commands
<1>6. Known(s) => s \in DOMAIN history \/ (t \in Inbound /\ s \in bots)
  BY <1>4 DEF Message
<1>7. CASE Known(s) /\ s \notin DOMAIN history
  <2>1. history' = history
    BY <1>7 DEF Message
  <2> QED
    BY <1>1, <1>2, <1>4, <1>5, <1>6, <1>7, <2>1
<1>8. CASE ~(Known(s) /\ s \notin DOMAIN history)
  <2>1. history' = WithTurn(history, t)
    BY <1>8 DEF Message
  <2>2. t \notin Listed(TurnsOf(history, s))
    <3>1. CASE s \in DOMAIN history
      <4>1. history[s].turns \in Views(history, Commands, s)
        BY <3>1, ViewIs
      <4> QED
        BY <1>2, <3>1, <4>1 DEF NothingForgotten, ViewsFit, TurnsOf
    <3>2. CASE s \notin DOMAIN history
      BY <3>2 DEF TurnsOf, Listed
    <3> QED
      BY <3>1, <3>2
  <2>3. (s \in DOMAIN history /\ Written(Commands', answers, t)) \/ Untouched(s)
    <3>1. Written(Commands', answers, t)
      BY <1>4, <1>5 DEF Written
    <3> QED
      BY <1>2, <1>8, <3>1 DEF DeletionInv, UnknownIsUntouched
  <2>4. Grown(t, s)
    BY <1>1, <1>2, <1>4, <1>5, <2>1, <2>2, <2>3 DEF Grown
  <2> QED
    BY <1>1, <1>2, <1>4, <1>5, <1>6, <2>4
<1> QED
  BY <1>7, <1>8

LEMMA MessageKeeps ==
  ASSUME TypeInv, DeletionInv, NothingForgotten, Calm, NEW t \in Turns, Message(t)
  PROVE  NothingForgotten'
<1> DEFINE s == Home[t]
<1>1. /\ UNCHANGED <<latest, db, backup, undone, answers, timer, saving, again, posted, row>>
      /\ s \in Sessions /\ t \notin Deliveries \cup sent /\ sent' = sent \cup {t}
      /\ bots' = IF t \in Inbound THEN bots \cup {s} ELSE bots
      /\ OneWrite(queue', answers')
  BY MessageFacts
<1>2. PICK c : /\ Commands' = Commands \cup {c} /\ IsWrite(c) /\ c.turn = t
               /\ c.cmd = "create" <=> s \notin DOMAIN history
  BY MessageFacts
<1>3. \/ Grown(t, s)
      \/ /\ history' = history /\ s \notin DOMAIN history
         /\ Known(s) /\ t \in Inbound /\ s \in bots
  BY MessageFacts
<1>4. Known(s) => s \in DOMAIN history \/ (t \in Inbound /\ s \in bots)
  BY MessageFacts
<1>5. \A u : Written(Commands', answers', u) <=> u = t
  BY <1>1, <1>2, NothingIsWritten DEF Written
<1>6. \A x : /\ IsSave(c, x) => FALSE
             /\ Deletes(c, x) => FALSE
  BY <1>2 DEF IsWrite, IsSave, Deletes
<1>7. /\ ViewsFit(history', Commands', sent', db') /\ SavesFit(history', Commands')
      /\ RenderedFits(history', latest') /\ Held(history', latest', Commands', answers', db')
  <2>1. CASE Grown(t, s)
    BY <2>1, GrownFits
  <2>2. CASE history' = history
    <3>1. \A x : Views(history', Commands', x) = Views(history, Commands, x)
      <4>1. \A x, v : v \in Views(history', Commands', x) <=> v \in Views(history, Commands, x)
        BY <1>2, <1>6, <2>2, ViewIs
      <4> QED
        BY <4>1
    <3>2. ViewsFit(history', Commands', sent', db')
      BY <1>1, <3>1 DEF NothingForgotten, ViewsFit
    <3>3. SavesFit(history', Commands')
      BY <1>2, <1>6, <3>1 DEF NothingForgotten, SavesFit
    <3>4. RenderedFits(history', latest')
      BY <1>1, <2>2 DEF NothingForgotten, RenderedFits
    <3>5. Held(history', latest', Commands', answers', db')
      <4>1. Held(history, latest, Commands, answers, db)
        BY DEF NothingForgotten
      <4>2. \A u : ~Written(Commands, answers, u)
        BY NothingIsWritten
      <4> QED
        BY <1>1, <1>2, <1>6, <2>2, <4>1, <4>2 DEF Held
    <3> QED
      BY <3>2, <3>3, <3>4, <3>5
  <2> QED
    BY <1>3, <2>1, <2>2
<1>8. s \notin DOMAIN history /\ s \in DOMAIN history' => Len(history'[s].turns) = 1
  <2>1. CASE Grown(t, s) /\ s \notin DOMAIN history
    <3>1. history'[s].turns = Append(<<>>, t)
      BY <2>1, GrownHistory DEF TurnsOf
    <3> QED
      BY <3>1
  <2>2. CASE history' = history
    BY <2>2
  <2> QED
    BY <1>3, <2>1, <2>2
<1>9. WritesFit(history', Commands', answers', sent', db')
  <2>1. \A d \in Commands' : d.cmd = "create" => d = c
    BY <1>2, NothingIsWritten DEF IsWrite, Commands, Listed
  <2>2. \A a \in answers' : a.cmd # "append"
    BY <1>1, NothingIsWritten DEF IsWrite
  <2>3. s \in DOMAIN history' => LET w == history'[s].turns IN w # <<>> /\ w[Len(w)] = t
    <3>1. CASE Grown(t, s)
      <4> DEFINE v == TurnsOf(history, s)
      <4>1. Own(v, s) /\ history'[s].turns = Append(v, t) /\ t \notin Listed(v)
        BY <3>1, GrownHistory DEF Grown
      <4> HIDE DEF v
      <4> QED
        BY <4>1, LongerView
    <3>2. CASE history' = history /\ s \notin DOMAIN history
      BY <3>2
    <3> QED
      BY <1>3, <3>1, <3>2
  <2>4. c.cmd = "create" /\ s \in DOMAIN history' => Len(history'[s].turns) = 1
    BY <1>2, <1>8
  <2> QED
    BY <1>1, <1>2, <1>5, <2>1, <2>2, <2>3, <2>4 DEF WritesFit
<1>10. DeliveriesFit(history', latest', Commands', sent', db', (backup.of)', bots')
  <2> SUFFICES ASSUME NEW r \in Deliveries \cap sent, NEW x, x = Home[r]
               PROVE  /\ x \in DOMAIN history' => r \in Listed(history'[x].turns)
                      /\ x \in DOMAIN latest => r \in Listed(latest[x].turns)
                      /\ x \in DOMAIN db => r \in DOMAIN db[x].rows
                      /\ x \in DOMAIN backup.of => r \in DOMAIN backup.of[x].rows
                      /\ \A d \in Commands' : IsSave(d, x) => r \in Listed(d.payload[x].turns)
                      /\ \A d \in Commands' : d.cmd = "create" => Home[d.turn] # x
                      /\ x \notin bots' /\ \A u \in Inbound \cap sent' : Home[u] # x
    BY <1>1 DEF DeliveriesFit
  <2>1. /\ x \in DOMAIN history => r \in Listed(history[x].turns)
        /\ x \in DOMAIN latest => r \in Listed(latest[x].turns)
        /\ x \in DOMAIN db => r \in DOMAIN db[x].rows
        /\ x \in DOMAIN backup.of => r \in DOMAIN backup.of[x].rows
        /\ \A d \in Commands : IsSave(d, x) => r \in Listed(d.payload[x].turns)
        /\ \A d \in Commands : d.cmd = "create" => Home[d.turn] # x
        /\ x \notin bots /\ \A u \in Inbound \cap sent : Home[u] # x
    BY DEF NothingForgotten, DeliveriesFit
  <2>2. x = s => Known(s)
    BY DEF Known
  <2>3. t \in Inbound => s # x
    <3>1. t \in Inbound /\ Known(s) => s \in bots
      BY DEF Message, Known
    <3> QED
      BY <2>1, <2>2, <3>1
  <2>4. c.cmd = "create" => Home[c.turn] # x
    BY <1>2, <1>4, <2>1, <2>2
  <2>5. x \in DOMAIN history' => r \in Listed(history'[x].turns)
    <3>1. CASE Grown(t, s)
      <4> DEFINE v == TurnsOf(history, s)
      <4>1. /\ Own(v, s) /\ history'[s].turns = Append(v, t) /\ t \notin Listed(v)
            /\ DOMAIN history' = DOMAIN history \cup {s}
            /\ \A y \in DOMAIN history : y # s => history'[y] = history[y]
        BY <3>1, GrownHistory DEF Grown
      <4>2. x = s => s \in DOMAIN history
        BY <1>4, <2>1, <2>2
      <4>3. s \in DOMAIN history => v = history[s].turns
        BY DEF TurnsOf
      <4> HIDE DEF v
      <4>4. Listed(history'[s].turns) = Listed(v) \cup {t}
        BY <4>1, LongerView
      <4> QED
        BY <2>1, <4>1, <4>2, <4>3, <4>4
    <3>2. CASE history' = history
      BY <2>1, <3>2
    <3> QED
      BY <1>3, <3>1, <3>2
  <2> QED
    BY <1>1, <1>2, <1>6, <2>1, <2>3, <2>4, <2>5
<1>11. PostedFits(posted', sent', row')
  <2>1. PostedFits(posted, sent, row)
    BY DEF NothingForgotten
  <2>2. ASSUME NEW d \in posted, Home[d] = s
        PROVE  FALSE
    <3>1. d \in sent /\ Untouched(s)
      BY <2>2 DEF DeletionInv, PostedIsUntouched
    <3>2. Known(s)
      BY <2>2, <3>1 DEF Known
    <3> QED
      BY <1>4, <3>1, <3>2 DEF Untouched
  <2> QED
    BY <1>1, <2>1, <2>2 DEF PostedFits
<1>12. SaveIsDue(latest', Commands', db', timer' \/ again')
  BY <1>1, <1>2 DEF NothingForgotten, SaveIsDue
<1>13. StoreFits(db', sent') /\ StoreFits((backup.of)', sent')
  BY <1>1 DEF NothingForgotten, StoreFits
<1> QED
  BY <1>1, <1>7, <1>9, <1>10, <1>11, <1>12, <1>13 DEF NothingForgotten

(* A delivery is shown in a session of its own.                               *)
LEMMA OnDeliveryKeeps ==
  ASSUME TypeInv, DeletionInv, NothingForgotten, NEW d \in Deliveries, OnDelivery(d)
  PROVE  NothingForgotten'
<1> DEFINE s == Home[d]
           v == TurnsOf(history, s)
<1>1. /\ UNCHANGED <<latest, db, backup, bots, undone, saving, again, timer, queue, answers, sent, row>>
      /\ d \in posted /\ posted' = posted \ {d}
  BY DEF OnDelivery, saverVars, ipcVars, storeVars, mishaps
<1>2. d \in Turns /\ d \in sent /\ Untouched(s)
  BY <1>1, HistoryAssumption DEF DeletionInv, PostedIsUntouched
<1>3. s \notin DOMAIN history /\ v = <<>> /\ s \notin DOMAIN latest /\ s \notin bots
      /\ s \notin DOMAIN db /\ s \notin DOMAIN backup.of
      /\ \A c \in Commands : ~IsSave(c, s) /\ (c.cmd = "create" => Home[c.turn] # s)
  BY <1>2 DEF Untouched, TurnsOf, Commands, Listed, Writes, IsSave
<1>4. d \notin Listed(v)
  BY <1>3 DEF Listed
<1>5. Commands' = Commands
  BY <1>1 DEF Commands
<1>6. Grown(d, s)
  <2>1. history' = WithTurn(history, d)
    BY <1>4 DEF OnDelivery
  <2> QED
    BY <1>1, <1>2, <1>4, <1>5, <2>1 DEF Grown
<1>7. /\ ViewsFit(history', Commands', sent', db') /\ SavesFit(history', Commands')
      /\ RenderedFits(history', latest') /\ Held(history', latest', Commands', answers', db')
  BY <1>6, GrownFits
<1>8. /\ DOMAIN history' = DOMAIN history \cup {s} /\ d \in Listed(history'[s].turns)
      /\ \A x \in DOMAIN history : x # s /\ history'[x] = history[x]
  <2>1. /\ Own(v, s) /\ history'[s].turns = Append(v, d)
        /\ DOMAIN history' = DOMAIN history \cup {s}
        /\ \A x \in DOMAIN history : x # s => history'[x] = history[x]
    BY <1>6, GrownHistory
  <2> HIDE DEF v
  <2>2. Listed(history'[s].turns) = Listed(v) \cup {d}
    BY <1>2, <1>4, <2>1, LongerView
  <2> QED
    BY <1>3, <2>1, <2>2
<1>9. \A t : Written(Commands, answers, t) => Home[t] # s
  <2>1. \A t : Written(Commands, answers, t) => t \in sent \ Deliveries
    BY DEF NothingForgotten, WritesFit
  <2>2. \A t \in sent : Home[t] = s => t = d
    BY <1>1 DEF NothingForgotten, PostedFits
  <2> QED
    BY <2>1, <2>2
<1>10. WritesFit(history', Commands', answers', sent', db')
  <2>1. WritesFit(history, Commands, answers, sent, db)
    BY DEF NothingForgotten
  <2>2. \A c \in Commands : c.cmd = "create" => Home[c.turn] # s
    BY <1>3
  <2>3. \A a \in answers : a.cmd = "append" => Home[a.of.turn] # s
    BY <1>9 DEF Written, IsWrite
  <2> QED
    BY <1>1, <1>5, <1>8, <1>9, <2>1, <2>2, <2>3 DEF WritesFit
<1>11. DeliveriesFit(history', latest', Commands', sent', db', (backup.of)', bots')
  <2>1. DeliveriesFit(history, latest, Commands, sent, db, backup.of, bots)
    BY DEF NothingForgotten
  <2>2. \A r \in Deliveries : Home[r] = s => r = d
    BY HistoryAssumption
  <2> QED
    BY <1>1, <1>5, <1>8, <2>1, <2>2 DEF DeliveriesFit
<1>12. PostedFits(posted', sent', row')
  BY <1>1 DEF NothingForgotten, PostedFits
<1>13. SaveIsDue(latest', Commands', db', timer' \/ again')
  BY <1>1, <1>5 DEF NothingForgotten
<1> QED
  BY <1>1, <1>7, <1>10, <1>11, <1>12, <1>13 DEF NothingForgotten

-----------------------------------------------------------------------------
(* What a command that stops midway leaves                                  *)

LEMMA EmptyCommands ==
  /\ Listed(<<>>) = {} /\ OneWrite(<<>>, {})
  /\ DOMAIN Nothing = {}
BY DEF Listed, OneWrite, Nothing

(* A save begins every view of its sessions: none of them is blocked.         *)
LEMMA SaveFacts ==
  ASSUME TypeInv, DeletionInv, NothingForgotten, NEW c \in Commands, c.cmd = "save"
  PROVE  LET h == c.payload IN
         /\ TypedHistory(h)
         /\ \A s \in DOMAIN h :
              /\ \E v : v \in Views(history, Commands, s)
              /\ \A v \in Views(history, Commands, s) :
                   /\ Own(v, s) /\ Distinct(v) /\ Listed(v) \subseteq sent
                   /\ Begins(h[s].turns, v) /\ OnPlaces(Rows(db, s), v)
         /\ Blocked(db, h) = {}
<1> DEFINE h == c.payload
<1>1. TypedHistory(h)
  BY DEF Commands, Listed, TypeInv, CommandsTyped, TypedCommand
<1>2. ASSUME NEW s \in DOMAIN h
      PROVE  /\ \E v : v \in Views(history, Commands, s)
             /\ \A v \in Views(history, Commands, s) :
                  /\ Own(v, s) /\ Distinct(v) /\ Listed(v) \subseteq sent
                  /\ Begins(h[s].turns, v) /\ OnPlaces(Rows(db, s), v)
  <2>1. s \in Sessions /\ IsSave(c, s)
    BY <1>1 DEF TypedHistory, IsSave
  <2>2. /\ \E v : v \in Views(history, Commands, s)
        /\ \A v \in Views(history, Commands, s) : Begins(h[s].turns, v)
    BY <1>1, <2>1 DEF NothingForgotten, SavesFit
  <2>3. ASSUME NEW v \in Views(history, Commands, s)
        PROVE  Own(v, s) /\ Distinct(v) /\ Listed(v) \subseteq sent /\ OnPlaces(Rows(db, s), v)
    <3>1. Distinct(v) /\ Listed(v) \subseteq sent /\ (s \in DOMAIN db => OnPlaces(db[s].rows, v))
      BY <2>1 DEF NothingForgotten, ViewsFit
    <3>2. s \notin DOMAIN db => OnPlaces(Rows(db, s), v)
      BY EmptyCommands DEF Rows, OnPlaces
    <3> QED
      BY <3>1, <3>2, ViewsTyped DEF Rows
  <2> QED
    BY <2>2, <2>3
<1> HIDE DEF h
<1>3. ASSUME NEW s \in DOMAIN h
      PROVE  Conflicts(Rows(db, s), h[s].turns) = {}
  <2>1. PICK v \in Views(history, Commands, s) :
          Begins(h[s].turns, v) /\ OnPlaces(Rows(db, s), v)
    BY <1>2
  <2>2. Own(h[s].turns, s)
    BY <1>1 DEF TypedHistory, TypedItem
  <2> DEFINE p == h[s].turns
             rows == Rows(db, s)
  <2> HIDE DEF p, rows
  <2>3. Conflicts(rows, p) = {}
    BY <2>1, <2>2, BeginningFits DEF p, rows
  <2> QED
    BY <2>3 DEF p, rows
<1> QED
  BY <1>1, <1>2, <1>3 DEF Blocked, h

(* Payloads of which each session begins a view that its rows are on the places *)
(* of: whatever part of it is merged leaves no gap.                           *)
PayloadFits(h) ==
  \A s \in DOMAIN h : \E v :
    /\ Own(v, s) /\ Distinct(v) /\ Listed(v) \subseteq sent
    /\ Begins(h[s].turns, v) /\ OnPlaces(Rows(db, s), v)

LEMMA PartFits ==
  ASSUME NEW d, TypedStore(d), NEW rows, NEW s, rows = Rows(d, s), NEW p, Own(p, s), NEW v,
         Own(v, s), Distinct(v), Listed(v) \subseteq sent, Begins(p, v), OnPlaces(rows, v),
         DOMAIN rows \subseteq sent,
         NEW n \in 0..Len(p), \A i \in Conflicts(rows, p) : n < i
  PROVE  Gapless(Placed(rows, p, n)) /\ DOMAIN Placed(rows, p, n) \subseteq sent
<1> DEFINE new == Placed(rows, p, n)
<1>1. IsRows(rows, s)
  BY RowsTyped
<1>2. IsRows(new, s)
  BY <1>1, PlacedRows
<1>3. OnPlaces(new, v) /\ DOMAIN new = DOMAIN rows \cup {p[i] : i \in 1..n}
  BY PlacedOnPlaces
<1>4. \A i \in 1..n : i \in DOMAIN p
  BY OwnTurns
<1> HIDE DEF new
<1>5. DOMAIN new \subseteq sent
  BY <1>3, <1>4 DEF Begins, Listed
<1> QED
  BY <1>2, <1>3, <1>5, OnPlacesGapless DEF new

LEMMA MergesFit ==
  ASSUME TypeInv, StoreFits(db, sent), NEW h, TypedHistory(h), PayloadFits(h), MergesInPart(h)
  PROVE  StoreFits(db', sent)
<1>1. TypedStore(db)
  BY DEF TypeInv, StoreTyped
<1>2. \A s : DOMAIN Rows(db, s) \subseteq sent
  BY EmptyCommands DEF Rows, StoreFits
<1>3. ASSUME NEW s \in DOMAIN h, NEW n \in 0..Len(h[s].turns),
             \A i \in Conflicts(Rows(db, s), h[s].turns) : n < i
      PROVE  LET new == Placed(Rows(db, s), h[s].turns, n) IN
             Gapless(new) /\ DOMAIN new \subseteq sent
  <2> DEFINE p == h[s].turns
             rows == Rows(db, s)
  <2>1. PICK v : /\ Own(v, s) /\ Distinct(v) /\ Listed(v) \subseteq sent
                 /\ Begins(p, v) /\ OnPlaces(rows, v)
    BY DEF PayloadFits
  <2>2. Own(p, s) /\ DOMAIN rows \subseteq sent /\ n \in 0..Len(p)
        /\ \A i \in Conflicts(rows, p) : n < i
    BY <1>2, <1>3 DEF TypedHistory, TypedItem
  <2> HIDE DEF p
  <2>3. Gapless(Placed(rows, p, n)) /\ DOMAIN Placed(rows, p, n) \subseteq sent
    BY <1>1, <2>1, <2>2, PartFits
  <2> QED
    BY <2>3 DEF p
<1>4. PICK done \in SUBSET (DOMAIN h \ Blocked(db, h)) :
        \/ db' = Merge(db, h, done)
        \/ \E s \in DOMAIN h \ done : \E n \in Free(db, h, s) :
             db' = MergePart(Merge(db, h, done), h, s, n)
  BY DEF MergesInPart
<1> DEFINE e == Merge(db, h, done)
<1>5. StoreFits(e, sent)
  <2>1. ASSUME NEW s \in done
        PROVE  Gapless(e[s].rows) /\ DOMAIN e[s].rows \subseteq sent
    <3>1. s \in DOMAIN h /\ Conflicts(Rows(db, s), h[s].turns) = {}
      BY DEF Blocked
    <3>2. Len(h[s].turns) \in 0..Len(h[s].turns)
      <4>1. Own(h[s].turns, s)
        BY <3>1 DEF TypedHistory, TypedItem
      <4>2. Len(h[s].turns) \in Nat
        BY <4>1, OwnTurns
      <4> QED
        BY <4>2
    <3>3. e[s].rows = Placed(Rows(db, s), h[s].turns, Len(h[s].turns))
      BY DEF Merge, Record
    <3> QED
      BY <1>3, <3>1, <3>2, <3>3
  <2>2. DOMAIN e = DOMAIN db \cup done /\ \A s \in DOMAIN e \ done : e[s] = db[s]
    BY DEF Merge
  <2> HIDE DEF e
  <2> QED
    BY <2>1, <2>2 DEF StoreFits
<1>6. ASSUME NEW s \in DOMAIN h \ done, NEW n \in Free(db, h, s),
             db' = MergePart(e, h, s, n)
      PROVE  StoreFits(db', sent)
  <2>1. n \in 0..Len(h[s].turns) /\ \A i \in Conflicts(Rows(db, s), h[s].turns) : n < i
    BY DEF Free
  <2>2. Rows(e, s) = Rows(db, s)
    BY DEF Merge, Rows
  <2> DEFINE new == Placed(Rows(db, s), h[s].turns, n)
  <2>3. Gapless(new) /\ DOMAIN new \subseteq sent
    BY <1>3, <2>1
  <2>4. DOMAIN db' = DOMAIN e \cup {s} /\ db'[s].rows = new /\ \A x \in DOMAIN e \ {s} : db'[x] = e[x]
    <3> HIDE DEF e
    <3> QED
      BY <1>6, <2>2 DEF MergePart, Put, Record
  <2> HIDE DEF e, new
  <2> QED
    BY <1>5, <2>3, <2>4 DEF StoreFits
<1> QED
  BY <1>4, <1>5, <1>6

(* Loading puts back, in whole or in part, what no row is left of.             *)
LEMMA RefillFits ==
  ASSUME TypeInv, StoreFits(backup.of, sent), DOMAIN db = {}
  PROVE  TypedHistory(Exported(backup.of)) /\ PayloadFits(Exported(backup.of))
<1> DEFINE b == backup.of
           h == Exported(b)
<1>1. TypedStore(b)
  BY DEF TypeInv, StoreTyped
<1>2. TypedHistory(h)
  BY <1>1, ExportedTyped
<1>3. DOMAIN h = DOMAIN b /\ \A s \in DOMAIN b : h[s].turns = InOrder(b[s].rows)
  BY DEF Exported, Item
<1>4. ASSUME NEW s \in DOMAIN b
      PROVE  /\ Own(h[s].turns, s) /\ Distinct(h[s].turns) /\ Listed(h[s].turns) \subseteq sent
             /\ Begins(h[s].turns, h[s].turns) /\ OnPlaces(Rows(db, s), h[s].turns)
  <2> DEFINE rows == b[s].rows
             v == InOrder(rows)
  <2>1. IsRows(rows, s) /\ Gapless(rows) /\ DOMAIN rows \subseteq sent
    BY <1>1 DEF TypedStore, StoreFits
  <2> HIDE DEF rows
  <2>2. Distinct(v) /\ Listed(v) = DOMAIN rows
    BY <2>1, ExportOnPlaces
  <2>3. Own(h[s].turns, s)
    BY <1>2, <1>3 DEF TypedHistory, TypedItem
  <2>4. \A w : OnPlaces(Rows(db, s), w)
    BY EmptyCommands DEF Rows, OnPlaces
  <2> QED
    BY <1>3, <2>1, <2>2, <2>3, <2>4 DEF Begins, rows
<1> HIDE DEF h
<1> QED
  BY <1>2, <1>3, <1>4 DEF PayloadFits, h

LEMMA LoadStopsFits ==
  ASSUME TypeInv, NothingForgotten, LoadStops
  PROVE  StoreFits(db', sent) /\ StoreFits((backup.of)', sent)
<1>1. StoreFits(db, sent) /\ StoreFits(backup.of, sent)
  BY DEF NothingForgotten
<1>2. StoreFits(db', sent)
  <2>1. CASE db' = Loaded
    BY <1>1, <2>1 DEF Loaded
  <2>2. CASE Recovers /\ MergesInPart(Exported(backup.of))
    BY <1>1, <2>2, RefillFits, MergesFit DEF Recovers
  <2> QED
    BY <2>1, <2>2 DEF LoadStops
<1>3. (backup.of)' \in {backup.of, db'}
  BY DEF LoadStops, HalfSynced
<1> QED
  BY <1>1, <1>2, <1>3

LEMMA StopsFits ==
  ASSUME TypeInv, DeletionInv, NothingForgotten, queue # <<>>, Stops(Head(queue))
  PROVE  StoreFits(db', sent) /\ StoreFits((backup.of)', sent)
<1> DEFINE c == Head(queue)
<1>1. StoreFits(db, sent) /\ StoreFits(backup.of, sent) /\ TypedStore(db)
  BY DEF NothingForgotten, TypeInv, StoreTyped
<1>2. c \in Commands /\ TypedCommand(c)
  <2>1. 1 \in DOMAIN queue /\ c = queue[1]
    BY Popped DEF TypeInv, CommandsTyped
  <2> HIDE DEF c
  <2> QED
    BY <2>1 DEF Commands, Listed, TypeInv, CommandsTyped
<1> HIDE DEF c
<1>3. Stops(c)
  BY DEF c
<1>4. CASE UNCHANGED <<db, backup, gone>>
  BY <1>1, <1>4
<1>5. CASE c.cmd = "append" /\ AppendStops(c.turn)
  <2> DEFINE t == c.turn
             s == Home[t]
             new == Put(db[s].rows, t, NextPlace(db[s].rows))
  <2>1. /\ s \in DOMAIN db /\ t \notin DOMAIN db[s].rows /\ backup' = backup
        /\ db' = Put(db, s, Record(new, db[s].rev, db[s].stamp))
    BY <1>5 DEF AppendStops
  <2>2. t \in sent
    BY <1>2, <1>5 DEF NothingForgotten, WritesFit, Written, IsWrite
  <2> HIDE DEF s, t
  <2>3. IsRows(db[s].rows, s) /\ Gapless(db[s].rows) /\ DOMAIN db[s].rows \subseteq sent
    BY <1>1, <2>1 DEF TypedStore, StoreFits
  <2>4. Gapless(new)
    BY <2>1, <2>3, AppendedGapless
  <2>5. DOMAIN new = DOMAIN db[s].rows \cup {t}
    BY DEF Put
  <2> HIDE DEF new
  <2>6. DOMAIN db' = DOMAIN db /\ db'[s].rows = new /\ \A x \in DOMAIN db \ {s} : db'[x] = db[x]
    BY <2>1 DEF Put, Record
  <2> QED
    BY <1>1, <2>1, <2>2, <2>3, <2>4, <2>5, <2>6 DEF StoreFits
<1>6. CASE c.cmd = "save" /\ SaveStops(c.payload)
  <2> DEFINE h == c.payload
  <2>1. TypedHistory(h) /\ PayloadFits(h) /\ SaveStops(h)
    BY <1>2, <1>6, SaveFacts DEF PayloadFits
  <2> HIDE DEF h
  <2>2. MergesInPart(h)
    <3>1. CASE Blocked(db, h) = {} /\ db' = Merge(db, h, DOMAIN h)
      BY <3>1 DEF MergesInPart
    <3> QED
      BY <2>1, <3>1 DEF SaveStops
  <2>3. StoreFits(db', sent)
    BY <1>1, <2>1, <2>2, MergesFit
  <2>4. (backup.of)' \in {backup.of, db'}
    BY <2>1 DEF SaveStops, HalfSynced
  <2> QED
    BY <1>1, <2>3, <2>4
<1>7. CASE c.cmd = "delete" /\ DeleteStops(c.session)
  <2>1. (backup.of)' \in {backup.of, db'}
    BY <1>7 DEF DeleteStops, HalfSynced
  <2>2. ASSUME NEW s \in DOMAIN db'
        PROVE  \/ s \in DOMAIN db /\ db'[s] = db[s]
               \/ DOMAIN db'[s].rows = {}
    BY <1>7, EmptyCommands DEF DeleteStops, Put, Drop, Record
  <2>3. StoreFits(db', sent)
    BY <1>1, <2>2 DEF StoreFits, Gapless
  <2> QED
    BY <1>1, <2>1, <2>3
<1> QED
  BY <1>3, <1>4, <1>5, <1>6, <1>7 DEF Stops

-----------------------------------------------------------------------------
(* Start and end of the application                                         *)

(* Nothing is shown, rendered or under way.                                   *)
LEMMA EmptyFits ==
  ASSUME NEW x, NEW d, NEW b, NEW n, DeliveriesFit(n, n, {}, x, d, b, {}),
         DOMAIN n = {}
  PROVE  /\ ViewsFit(n, {}, x, d) /\ SavesFit(n, {}) /\ RenderedFits(n, n)
         /\ Held(n, n, {}, {}, d) /\ WritesFit(n, {}, {}, x, d)
         /\ SaveIsDue(n, {}, d, FALSE) /\ AllGranted({})
<1>1. \A s : Views(n, {}, s) = {}
  BY DEF Views
<1> QED
  BY <1>1 DEF ViewsFit, SavesFit, RenderedFits, Held, WritesFit, Written, SaveIsDue, AllGranted

LEMMA CrashKeeps ==
  ASSUME TypeInv, DeletionInv, NothingForgotten, Crash, ~muddled'
  PROVE  NothingForgotten'
<1>1. /\ UNCHANGED <<undone, sent, row>>
      /\ history' = Nothing /\ latest' = Nothing /\ queue' = <<>> /\ answers' = {}
      /\ posted' = {} /\ bots' = {} /\ again' = FALSE /\ timer' = FALSE
  BY DEF Crash
<1>2. Commands' = {}
  BY <1>1, EmptyCommands DEF Commands
<1>3. StoreFits(db', sent) /\ StoreFits((backup.of)', sent)
  <2>1. CASE UNCHANGED storeVars
    BY <2>1 DEF NothingForgotten, storeVars
  <2>2. CASE queue # <<>> /\ Stops(Head(queue))
    BY <2>2, StopsFits
  <2>3. CASE LoadStops
    BY <2>3, LoadStopsFits
  <2> QED
    BY <2>1, <2>2, <2>3 DEF Crash
<1>4. (backup.of)' \in {backup.of, db'}
  BY DEF Crash, storeVars, Stops, AppendStops, SaveStops, DeleteStops, LoadStops, HalfSynced
<1>5. DeliveriesFit(Nothing, Nothing, {}, sent, db', (backup.of)', {})
  <2> SUFFICES ASSUME NEW r \in Deliveries \cap sent, NEW s, s = Home[r]
               PROVE  /\ s \in DOMAIN db' => r \in DOMAIN db'[s].rows
                      /\ s \in DOMAIN (backup.of)' => r \in DOMAIN (backup.of)'[s].rows
                      /\ \A t \in Inbound \cap sent : Home[t] # s
    BY EmptyCommands DEF DeliveriesFit
  <2>1. /\ s \in DOMAIN backup.of => r \in DOMAIN backup.of[s].rows
        /\ \A t \in Inbound \cap sent : Home[t] # s
    BY DEF NothingForgotten, DeliveriesFit
  <2>2. s \in DOMAIN db' => r \in DOMAIN db'[s].rows
    BY DEF Crash, Torn
  <2> QED
    BY <1>4, <2>1, <2>2
<1>6. PostedFits(posted', sent', row')
  BY <1>1 DEF NothingForgotten, PostedFits
<1> DEFINE e == db'
           b == (backup.of)'
<1>7. DeliveriesFit(Nothing, Nothing, {}, sent, e, b, {})
  BY <1>5
<1> HIDE DEF Nothing, e, b
<1>8. /\ ViewsFit(Nothing, {}, sent, e) /\ SavesFit(Nothing, {}) /\ RenderedFits(Nothing, Nothing)
      /\ Held(Nothing, Nothing, {}, {}, e) /\ WritesFit(Nothing, {}, {}, sent, e)
      /\ SaveIsDue(Nothing, {}, e, FALSE) /\ AllGranted({})
  BY <1>7, EmptyCommands, EmptyFits
<1> QED
  BY <1>1, <1>2, <1>3, <1>5, <1>6, <1>8, EmptyCommands DEF NothingForgotten, e

LEMMA InitKeeps == Init => NothingForgotten
<1> SUFFICES ASSUME Init
             PROVE  NothingForgotten
  OBVIOUS
<1>1. /\ history = Nothing /\ latest = Nothing /\ queue = <<>> /\ answers = {}
      /\ posted = {} /\ bots = {} /\ again = FALSE /\ timer = FALSE /\ sent = {} /\ db = Nothing
      /\ undone = FALSE /\ row = [d \in Deliveries |-> "none"]
      /\ \E L \in SUBSET Legacy : backup.of = [s \in L |-> Record(Nothing, 0, 0)]
  BY DEF Init
<1>2. Commands = {}
  BY <1>1, EmptyCommands DEF Commands
<1>3. DeliveriesFit(Nothing, Nothing, {}, sent, db, backup.of, {})
  BY <1>1 DEF DeliveriesFit
<1>4. PostedFits(posted, sent, row)
  BY <1>1 DEF PostedFits
<1>5. StoreFits(db, sent)
  BY <1>1, EmptyCommands DEF StoreFits
<1>6. StoreFits(backup.of, sent)
  <2>1. \A s \in DOMAIN backup.of : backup.of[s].rows = Nothing
    BY <1>1 DEF Record
  <2> QED
    BY <2>1, EmptyCommands DEF StoreFits, Gapless
<1>7. SaveIsDue(Nothing, {}, db, FALSE)
  BY <1>3, EmptyCommands, EmptyFits
<1> QED
  BY <1>1, <1>2, <1>3, <1>4, <1>5, <1>6, <1>7, EmptyCommands, EmptyFits DEF NothingForgotten

(* What is stored is shown, in order, when nothing fails.                     *)
LEMMA HydrateFacts ==
  ASSUME TypeInv, Ordered, NothingUnderWay, StartsQuiet, DeletionInv, NothingForgotten, Hydrate,
         failures = 0, failures' = 0, ~muddled
  PROVE  /\ db' = Loaded /\ TypedStore(Loaded) /\ StoreFits(Loaded, sent)
         /\ history' = Exported(Loaded)
         /\ (backup.of)' \in {backup.of, Loaded}
         /\ UNCHANGED <<latest, timer, saving, again, answers, sent, undone, posted, row>>
         /\ DOMAIN latest = {} /\ queue = <<>> /\ answers = {}
         /\ queue' = <<>> \/ queue' = <<Saving(history', FALSE)>>
         /\ bots' = {s \in DOMAIN history' : \E t \in Inbound : t \in Listed(history'[s].turns)}
<1>1. /\ UNCHANGED <<latest, timer, saving, again, answers, sent, undone, posted, row>>
      /\ window = "loading"
  BY DEF Hydrate, saverVars, deliveryVars, mishaps
<1>2. DOMAIN latest = {} /\ queue = <<>> /\ answers = {}
  BY <1>1 DEF NothingUnderWay, StartsQuiet
<1>3. TypedStore(Loaded) /\ StoreFits(Loaded, sent)
  BY DEF Loaded, TypeInv, StoreTyped, NothingForgotten
<1>4. PICK whole \in BOOLEAN, y \in Yields(db') :
         /\ IF whole THEN Loads ELSE LoadStops
         /\ whole \/ y.failed = 1
         /\ failures' = failures + y.failed
         /\ history' = y.history
         /\ bots' = {s \in DOMAIN y.history : \E t \in Inbound : t \in Listed(y.history[s].turns)}
         /\ IF y.repair /\ DOMAIN y.history # {}
              THEN Invoke(<<Saving(y.history, FALSE)>>)
              ELSE UNCHANGED queue
  BY DEF Hydrate
<1>5. Loads /\ y.history = Exported(Loaded)
  <2>1. y.failed = 0 \/ y.failed = 1
    BY <1>4 DEF Yields
  <2>2. y.failed = 0
    BY <1>4, <2>1
  <2>3. Loads
    BY <1>4, <2>2
  <2>4. y.failed = 0 => y.history = Exported(db')
    BY <1>4 DEF Yields
  <2> QED
    BY <2>2, <2>3, <2>4 DEF Loads
<1>6. queue' = <<>> \/ queue' = <<Saving(history', FALSE)>>
  <2> DEFINE c == Saving(y.history, FALSE)
  <2>1. queue' = <<>> \/ queue' = <<>> \o <<c>>
    BY <1>2, <1>4 DEF Invoke
  <2>2. c = Saving(history', FALSE)
    BY <1>4
  <2> HIDE DEF c
  <2>3. <<>> \o <<c>> = <<c>>
    OBVIOUS
  <2> QED
    BY <2>1, <2>2, <2>3
<1>7. (backup.of)' \in {backup.of, Loaded} /\ db' = Loaded
  BY <1>5 DEF Loads, Synced
<1> QED
  BY <1>1, <1>2, <1>3, <1>4, <1>5, <1>6, <1>7

LEMMA HydrateKeeps ==
  ASSUME TypeInv, Ordered, NothingUnderWay, StartsQuiet, DeletionInv, NothingForgotten, Hydrate,
         failures = 0, failures' = 0, ~muddled
  PROVE  NothingForgotten'
<1> DEFINE e == Loaded
           h == Exported(e)
<1>1. /\ db' = e /\ TypedStore(e) /\ StoreFits(e, sent) /\ history' = h
      /\ (backup.of)' \in {backup.of, e}
      /\ UNCHANGED <<latest, timer, saving, again, answers, sent, undone, posted, row>>
      /\ DOMAIN latest = {} /\ queue = <<>> /\ answers = {}
      /\ queue' = <<>> \/ queue' = <<Saving(h, FALSE)>>
      /\ bots' = {s \in DOMAIN h : \E t \in Inbound : t \in Listed(h[s].turns)}
  BY HydrateFacts
<1>2. DOMAIN h = DOMAIN e
      /\ \A s \in DOMAIN e : h[s].turns = InOrder(e[s].rows)
  BY DEF Exported, Item
<1> HIDE DEF e, h
<1>3. \A s \in DOMAIN e : Distinct(h[s].turns) /\ OnPlaces(e[s].rows, h[s].turns)
                          /\ Listed(h[s].turns) = DOMAIN e[s].rows /\ DOMAIN e[s].rows \subseteq sent
  BY <1>1, <1>2, ExportOnPlaces DEF TypedStore, StoreFits
<1>4. \A c \in Commands' : c.cmd = "save" /\ c.payload = h
  BY <1>1 DEF Commands, Listed, Saving
<1>5. \A s, v : v \in Views(h, Commands', s) <=> s \in DOMAIN e /\ v = h[s].turns
  BY <1>2, <1>4, ViewIs DEF Deletes
<1>6. \A t : ~Written(Commands', {}, t)
  BY <1>4 DEF Written, IsWrite
<1>7. ViewsFit(h, Commands', sent, e)
  BY <1>3, <1>5 DEF ViewsFit
<1>8. SavesFit(h, Commands')
  BY <1>2, <1>4, <1>5 DEF SavesFit, Begins, IsSave
<1>9. RenderedFits(h, latest)
  BY <1>1 DEF RenderedFits
<1>10. Held(h, latest, Commands', {}, e)
  BY <1>2, <1>3 DEF Held
<1>11. WritesFit(h, Commands', {}, sent, e)
  BY <1>4, <1>6 DEF WritesFit
<1>12. OneWrite(queue', {})
  BY <1>1 DEF OneWrite, IsWrite, Saving
<1>13. DeliveriesFit(h, latest, Commands', sent, e, (backup.of)', bots')
  <2> SUFFICES ASSUME NEW r \in Deliveries \cap sent, NEW s, s = Home[r]
               PROVE  /\ s \in DOMAIN h => r \in Listed(h[s].turns)
                      /\ s \in DOMAIN e => r \in DOMAIN e[s].rows
                      /\ s \in DOMAIN (backup.of)' => r \in DOMAIN (backup.of)'[s].rows
                      /\ s \notin bots' /\ \A t \in Inbound \cap sent : Home[t] # s
    BY <1>1, <1>4 DEF DeliveriesFit, IsSave
  <2>1. /\ s \in DOMAIN db => r \in DOMAIN db[s].rows
        /\ s \in DOMAIN backup.of => r \in DOMAIN backup.of[s].rows
        /\ \A t \in Inbound \cap sent : Home[t] # s
    BY DEF NothingForgotten, DeliveriesFit
  <2>2. s \in DOMAIN e => r \in DOMAIN e[s].rows
    BY <2>1 DEF e, Loaded
  <2>3. s \notin bots'
    <3>1. ASSUME NEW t \in Inbound, s \in DOMAIN h, t \in Listed(h[s].turns)
          PROVE  FALSE
      <4>1. t \in DOMAIN e[s].rows /\ t \in sent
        BY <1>2, <1>3, <3>1
      <4>2. Home[t] = s
        BY <1>1, <1>2, <3>1, <4>1 DEF TypedStore, IsRows
      <4> QED
        BY <2>1, <4>1, <4>2
    <3> QED
      BY <1>1, <3>1
  <2> QED
    BY <1>1, <1>2, <1>3, <2>1, <2>2, <2>3
<1>14. PostedFits(posted, sent, row)
  BY DEF NothingForgotten
<1>15. StoreFits(e, sent) /\ StoreFits((backup.of)', sent)
  BY <1>1 DEF NothingForgotten
<1>16. SaveIsDue(latest, Commands', e, timer \/ again)
  BY <1>1 DEF SaveIsDue
<1>17. AllGranted({}) /\ ~undone /\ (again => saving)
  BY DEF NothingForgotten, AllGranted
<1> QED
  BY <1>1, <1>7, <1>8, <1>9, <1>10, <1>11, <1>12, <1>13, <1>14, <1>15, <1>16, <1>17 DEF NothingForgotten

-----------------------------------------------------------------------------
(* Commands are executed                                                    *)

(* The first command leaves the queue; the others are saves if it stores a     *)
(* message.                                                                  *)
LEMMA PoppedCommands ==
  ASSUME TypeInv, DeletionInv, NothingForgotten, queue # <<>>, queue' = Tail(queue)
  PROVE  /\ Head(queue) \in Commands /\ TypedCommand(Head(queue))
         /\ Commands' \subseteq Commands /\ Commands \subseteq Commands' \cup {Head(queue)}
         /\ IsWrite(Head(queue)) => /\ \A c \in Commands' : c.cmd = "save"
                                    /\ \A a \in answers : ~IsWrite(a)
         /\ \A s : Deletes(Head(queue), s) => \A c \in Commands' : ~IsSave(c, s)
         /\ OneWrite(queue', answers)
<1> DEFINE r == Tail(queue)
           c == Head(queue)
<1>1. IsSeq(queue) /\ OneWrite(queue, answers)
  BY DEF TypeInv, CommandsTyped, NothingForgotten
<1>2. /\ 1 \in DOMAIN queue /\ c = queue[1]
      /\ \A i \in DOMAIN r : i \in Nat /\ i + 1 \in DOMAIN queue /\ 1 < i + 1 /\ r[i] = queue[i + 1]
  BY <1>1, Popped
<1>3. \A i \in DOMAIN queue : i = 1 \/ i - 1 \in DOMAIN r
  BY <1>1 DEF IsSeq
<1>4. \A i \in DOMAIN queue : i \in Int
  BY <1>1 DEF IsSeq
<1> HIDE DEF r, c
<1>5. Commands' = Listed(r)
  BY DEF Commands, r
<1>6. c \in Commands /\ TypedCommand(c)
  BY <1>2 DEF Commands, Listed, TypeInv, CommandsTyped
<1>7. Listed(r) \subseteq Commands
  BY <1>2 DEF Commands, Listed
<1>8. Commands \subseteq Listed(r) \cup {c}
  <2> SUFFICES ASSUME NEW i \in DOMAIN queue
               PROVE  queue[i] \in Listed(r) \cup {c}
    BY DEF Commands, Listed
  <2>1. CASE i = 1
    BY <1>2, <2>1
  <2>2. CASE i - 1 \in DOMAIN r
    <3>1. r[i - 1] = queue[i - 1 + 1] /\ i - 1 + 1 = i
      BY <1>2, <1>4, <2>2
    <3> QED
      BY <2>2, <3>1 DEF Listed
  <2> QED
    BY <1>3, <2>1, <2>2
<1>9. ASSUME IsWrite(c)
      PROVE  /\ \A d \in Listed(r) : d.cmd = "save"
             /\ \A a \in answers : ~IsWrite(a)
  <2>1. \A i \in DOMAIN r : r[i].cmd = "save"
    <3> SUFFICES ASSUME NEW i \in DOMAIN r, r[i].cmd # "save"
                 PROVE  FALSE
      OBVIOUS
    <3>1. i \in Nat /\ i + 1 \in DOMAIN queue /\ 1 < i + 1 /\ queue[i + 1].cmd # "save"
      BY <1>2
    <3>2. i + 1 <= 1
      BY <1>1, <1>2, <1>9, <3>1 DEF OneWrite
    <3> QED
      BY <3>1, <3>2
  <2>2. \A a \in answers : ~IsWrite(a)
    BY <1>1, <1>2, <1>9 DEF OneWrite, IsWrite
  <2> QED
    BY <2>1, <2>2 DEF Listed
<1>10. ASSUME NEW s, Deletes(c, s), NEW d \in Listed(r)
       PROVE  ~IsSave(d, s)
  <2>1. PICK i \in DOMAIN r : d = r[i]
    BY DEF Listed
  <2>2. i + 1 \in DOMAIN queue /\ 1 < i + 1 /\ d = queue[i + 1]
    BY <1>2, <2>1
  <2> QED
    BY <1>2, <1>10, <2>2 DEF DeletionInv, NotWrittenAgain, IsSave
<1>11. OneWrite(r, answers)
  <2>1. ASSUME NEW i \in DOMAIN r, NEW j \in DOMAIN r, IsWrite(r[i]), r[j].cmd # "save"
        PROVE  j <= i
    <3>1. j + 1 <= i + 1
      BY <1>1, <1>2, <2>1 DEF OneWrite
    <3> QED
      BY <1>2, <3>1
  <2> QED
    BY <1>1, <1>2, <2>1 DEF OneWrite
<1> QED
  BY <1>5, <1>6, <1>7, <1>8, <1>9, <1>10, <1>11 DEF c, r

(* A command that is answered with success keeps its place among the writes.   *)
LEMMA AnsweredWrite ==
  ASSUME NEW q, NEW A, OneWrite(q, A), NEW c, NEW b,
         b.cmd = c.cmd,
         IsWrite(c) => (\A i \in DOMAIN q : q[i].cmd = "save") /\ (\A a \in A : ~IsWrite(a))
  PROVE  OneWrite(q, A \cup {b})
BY DEF OneWrite, IsWrite

(* What a step of a command leaves as it is.                                  *)
Shrinks ==
  /\ queue # <<>> /\ queue' = Tail(queue)
  /\ UNCHANGED <<history, latest, timer, saving, again, bots, posted, row, sent, undone>>

LEMMA ShrinksViews ==
  ASSUME TypeInv, DeletionInv, NothingForgotten, Shrinks, NEW s
  PROVE  /\ Views(history', Commands', s) \subseteq Views(history, Commands, s)
         /\ (\A e \in Commands \ Commands' : ~Deletes(e, s)) =>
              Views(history', Commands', s) = Views(history, Commands, s)
<1>1. Commands' \subseteq Commands /\ history' = history
  BY PoppedCommands DEF Shrinks
<1>2. \A v : v \in Views(history', Commands', s) => v \in Views(history, Commands, s)
  BY <1>1, ViewIs
<1>3. ASSUME \A e \in Commands \ Commands' : ~Deletes(e, s)
      PROVE  \A v : v \in Views(history, Commands, s) => v \in Views(history', Commands', s)
  BY <1>1, <1>3, ViewIs
<1> QED
  BY <1>2, <1>3

LEMMA ShrinksFits ==
  ASSUME TypeInv, DeletionInv, NothingForgotten, Shrinks
  PROVE  /\ SavesFit(history', Commands') /\ RenderedFits(history', latest')
         /\ PostedFits(posted', sent', row') /\ (again' => saving') /\ ~undone'
<1>1. SavesFit(history', Commands')
  <2> SUFFICES ASSUME NEW s \in Sessions, NEW c \in Commands', IsSave(c, s)
               PROVE  /\ Views(history', Commands', s) # {}
                      /\ \A v \in Views(history', Commands', s) : Begins(c.payload[s].turns, v)
    BY DEF SavesFit
  <2>1. /\ Commands' \subseteq Commands /\ Commands \subseteq Commands' \cup {Head(queue)}
        /\ Deletes(Head(queue), s) => ~IsSave(c, s)
    BY PoppedCommands DEF Shrinks
  <2>2. \A e \in Commands \ Commands' : ~Deletes(e, s)
    BY <2>1
  <2>3. Views(history', Commands', s) = Views(history, Commands, s)
    BY <2>2, ShrinksViews
  <2> QED
    BY <2>1, <2>3 DEF NothingForgotten, SavesFit
<1>2. RenderedFits(history', latest') /\ PostedFits(posted', sent', row') /\ (again' => saving') /\ ~undone'
  BY DEF Shrinks, NothingForgotten
<1> QED
  BY <1>1, <1>2

LEMMA ExecutesShrinks ==
  ASSUME NEW cmd, Executes(cmd)
  PROVE  Shrinks /\ Head(queue).cmd = cmd
BY DEF Executes, Shrinks, windowVars, saverVars, deliveryVars

(* The answer to a message's command takes its place.                         *)
LEMMA AnsweredFits ==
  ASSUME TypeInv, DeletionInv, NothingForgotten, Shrinks, NEW b,
         b.cmd = Head(queue).cmd, b.of = Head(queue), b.ok, b.cmd # "delete",
         answers' = answers \cup {b}
  PROVE  /\ OneWrite(queue', answers') /\ AllGranted(answers')
         /\ \A t : Written(Commands', answers', t) <=> Written(Commands, answers, t)
<1>1. /\ Commands' \subseteq Commands /\ Commands \subseteq Commands' \cup {Head(queue)}
      /\ Head(queue) \in Commands /\ OneWrite(queue', answers)
      /\ IsWrite(Head(queue)) => /\ \A c \in Commands' : c.cmd = "save"
                                 /\ \A a \in answers : ~IsWrite(a)
  BY PoppedCommands DEF Shrinks
<1>2. OneWrite(queue', answers')
  <2>1. IsWrite(Head(queue)) => (\A i \in DOMAIN queue' : queue'[i].cmd = "save")
    BY <1>1 DEF Commands, Listed
  <2> QED
    BY <1>1, <2>1, AnsweredWrite
<1>3. AllGranted(answers')
  BY DEF NothingForgotten, AllGranted
<1>4. ASSUME NEW t
      PROVE  Written(Commands', answers', t) <=> Written(Commands, answers, t)
  <2>1. IsWrite(b) <=> IsWrite(Head(queue))
    BY DEF IsWrite
  <2> QED
    BY <1>1, <2>1 DEF Written
<1> QED
  BY <1>2, <1>3, <1>4

LEMMA ExecCreateKeeps ==
  ASSUME TypeInv, DeletionInv, NothingForgotten, ExecCreate
  PROVE  NothingForgotten'
<1> DEFINE c == Head(queue)
           s == Home[c.turn]
           b == Answer(c, TRUE)
<1>1. Shrinks /\ c.cmd = "create"
  BY ExecutesShrinks DEF ExecCreate
<1>2. /\ answers' = answers \cup {b} /\ UNCHANGED backup
      /\ db' = IF s \in DOMAIN db THEN db ELSE Put(db, s, Record(Nothing, c.rev, clock))
  BY DEF ExecCreate, Answers
<1>3. b.cmd = "create" /\ b.of = c /\ b.ok
  BY <1>1 DEF Answer
<1>4. /\ DOMAIN db' = DOMAIN db \cup {s}
      /\ \A x \in DOMAIN db : db'[x] = db[x]
      /\ s \notin DOMAIN db => DOMAIN db'[s].rows = {}
  BY <1>2, EmptyCommands DEF Put, Record
<1>5. /\ Commands' \subseteq Commands /\ c \in Commands /\ Commands \subseteq Commands' \cup {c}
      /\ \A a \in answers : ~IsWrite(a)
  BY <1>1, PoppedCommands DEF Shrinks, IsWrite
<1> HIDE DEF c, b
<1>6. /\ OneWrite(queue', answers') /\ AllGranted(answers')
      /\ \A t : Written(Commands', answers', t) <=> Written(Commands, answers, t)
  BY <1>1, <1>2, <1>3, AnsweredFits DEF c
<1>7. UNCHANGED <<history, latest, timer, again, bots, sent>>
  BY <1>1 DEF Shrinks
<1>8. ViewsFit(history', Commands', sent', db')
  <2>1. \A x \in Sessions : \A v \in Views(history', Commands', x) :
          Distinct(v) /\ Listed(v) \subseteq sent /\ (x \in DOMAIN db => OnPlaces(db[x].rows, v))
    BY <1>1, ShrinksViews DEF NothingForgotten, ViewsFit
  <2>2. \A rows, v : DOMAIN rows = {} => OnPlaces(rows, v)
    BY DEF OnPlaces
  <2> QED
    BY <1>4, <1>7, <2>1, <2>2 DEF ViewsFit
<1>9. Held(history', latest', Commands', answers', db')
  <2> SUFFICES ASSUME NEW x \in DOMAIN history, NEW u \in Listed(history[x].turns)
               PROVE  \/ Written(Commands, answers, u)
                      \/ x \in DOMAIN db' /\ u \in DOMAIN db'[x].rows
                      \/ /\ x \notin DOMAIN db'
                         /\ x \in DOMAIN latest => u \in Listed(latest[x].turns)
                         /\ \A d \in Commands' : IsSave(d, x) => u \in Listed(d.payload[x].turns)
    BY <1>6, <1>7 DEF Held
  <2>1. x = s => Written(Commands, answers, u)
    <3>1. Written(Commands, answers, c.turn)
      BY <1>1, <1>5 DEF Written, IsWrite, c
    <3>2. ASSUME x = s
          PROVE  u = c.turn
      <4> DEFINE v == history[s].turns
      <4>1. Own(v, s) /\ Len(v) = 1 /\ v[Len(v)] = c.turn
        BY <1>1, <1>5, <3>1, <3>2 DEF NothingForgotten, WritesFit, TypeInv, WindowTyped, TypedHistory, TypedItem, c
      <4>2. DOMAIN v = 1..1 /\ v[1] = c.turn
        BY <4>1, OwnTurns
      <4>3. PICK i \in DOMAIN v : u = v[i]
        BY <3>2 DEF Listed
      <4> HIDE DEF v
      <4>4. i = 1
        BY <4>2
      <4> QED
        BY <4>2, <4>3, <4>4
    <3> QED
      BY <3>1, <3>2
  <2>2. \/ Written(Commands, answers, u)
        \/ x \in DOMAIN db /\ u \in DOMAIN db[x].rows
        \/ /\ x \notin DOMAIN db
           /\ x \in DOMAIN latest => u \in Listed(latest[x].turns)
           /\ \A d \in Commands : IsSave(d, x) => u \in Listed(d.payload[x].turns)
    BY DEF NothingForgotten, Held
  <2> QED
    BY <1>4, <1>5, <2>1, <2>2
<1>10. WritesFit(history', Commands', answers', sent', db')
  <2>1. WritesFit(history, Commands, answers, sent, db)
    BY DEF NothingForgotten
  <2>2. \A a \in answers' : a.cmd # "append"
    BY <1>2, <1>3, <1>5 DEF IsWrite
  <2> QED
    BY <1>5, <1>6, <1>7, <2>1, <2>2 DEF WritesFit
<1>11. DeliveriesFit(history', latest', Commands', sent', db', (backup.of)', bots')
  <2>1. DeliveriesFit(history, latest, Commands, sent, db, backup.of, bots)
    BY DEF NothingForgotten
  <2>2. \A r \in Deliveries \cap sent : Home[r] # s
    BY <1>1, <1>5, <2>1 DEF DeliveriesFit, c
  <2> QED
    BY <1>2, <1>4, <1>5, <1>7, <2>1, <2>2 DEF DeliveriesFit
<1>12. StoreFits(db', sent') /\ StoreFits((backup.of)', sent')
  BY <1>2, <1>4, <1>7 DEF NothingForgotten, StoreFits, Gapless
<1>13. SaveIsDue(latest', Commands', db', timer' \/ again')
  <2>1. \A d \in Commands : d.cmd = "save" => d \in Commands'
    BY <1>1, <1>5 DEF c
  <2> QED
    BY <1>4, <1>7, <2>1 DEF NothingForgotten, SaveIsDue
<1> QED
  BY <1>1, <1>6, <1>8, <1>9, <1>10, <1>11, <1>12, <1>13, ShrinksFits DEF NothingForgotten

(* The turn of a message is put in its place, the last one.                   *)
LEMMA ExecAppendKeeps ==
  ASSUME TypeInv, DeletionInv, NothingForgotten, ExecAppend, ~missed'
  PROVE  NothingForgotten'
<1> DEFINE c == Head(queue)
           t == c.turn
           s == Home[t]
           b == Answer(c, TRUE)
           rows == db[s].rows
<1>1. Shrinks /\ c.cmd = "append"
  BY ExecutesShrinks DEF ExecAppend
<1>2. s \in DOMAIN db
  BY DEF ExecAppend
<1>3. /\ answers' = answers \cup {b} /\ UNCHANGED backup
      /\ db' = IF t \notin DOMAIN rows
                 THEN Put(db, s, Record(Put(rows, t, NextPlace(rows)), db[s].rev, clock))
                 ELSE db
  <2>1. answers' = answers \cup {Answer(c, s \in DOMAIN db)} /\ UNCHANGED backup
        /\ db' = IF s \in DOMAIN db /\ t \notin DOMAIN db[s].rows
                   THEN Put(db, s, Record(Put(db[s].rows, t, NextPlace(db[s].rows)), db[s].rev, clock))
                   ELSE db
    BY DEF ExecAppend, Answers
  <2>2. (s \in DOMAIN db) = TRUE
    BY <1>2
  <2> QED
    BY <1>2, <2>1, <2>2
<1>4. b.cmd = "append" /\ b.of = c /\ b.ok
  BY <1>1 DEF Answer
<1>5. /\ DOMAIN db' = DOMAIN db
      /\ \A x \in DOMAIN db : db'[x].rev = db[x].rev /\ (x # s => db'[x] = db[x])
      /\ t \notin DOMAIN rows => db'[s].rows = Put(rows, t, NextPlace(rows))
      /\ t \in DOMAIN rows => db'[s].rows = rows
  BY <1>2, <1>3 DEF Put, Record
<1>6. DOMAIN db'[s].rows = DOMAIN rows \cup {t}
  BY <1>5 DEF Put
<1>7. /\ Commands' \subseteq Commands /\ c \in Commands /\ Commands \subseteq Commands' \cup {c}
      /\ \A d \in Commands' : d.cmd = "save"
      /\ \A a \in answers : ~IsWrite(a)
      /\ t \in Turns /\ Home[t] = s
  BY <1>1, PoppedCommands DEF Shrinks, IsWrite, TypedCommand
<1>8. IsRows(rows, s)
  BY <1>2 DEF TypeInv, StoreTyped, TypedStore
<1>9. Written(Commands, answers, t) /\ \A u : Written(Commands, answers, u) => u = t
  BY <1>1, <1>7 DEF Written, IsWrite
<1> HIDE DEF c, b, t, s, rows
<1>10. /\ OneWrite(queue', answers') /\ AllGranted(answers')
       /\ \A u : Written(Commands', answers', u) <=> Written(Commands, answers, u)
  BY <1>1, <1>3, <1>4, AnsweredFits DEF c
<1>11. UNCHANGED <<history, latest, timer, again, bots, sent>>
  BY <1>1 DEF Shrinks
<1>12. t \in sent
  BY <1>9 DEF NothingForgotten, WritesFit
<1>13. \A x \in DOMAIN db : DOMAIN db[x].rows \subseteq DOMAIN db'[x].rows
  BY <1>5, <1>6 DEF rows
<1>14. ViewsFit(history', Commands', sent', db')
  <2>1. ViewsFit(history, Commands, sent, db)
    BY DEF NothingForgotten
  <2>2. \A x : Views(history', Commands', x) \subseteq Views(history, Commands, x)
    BY <1>1, ShrinksViews
  <2> SUFFICES ASSUME NEW v \in Views(history', Commands', s), s \in Sessions, t \notin DOMAIN rows
               PROVE  OnPlaces(db'[s].rows, v)
    BY <1>5, <1>11, <2>1, <2>2 DEF ViewsFit, rows
  <2>3. s \in DOMAIN history /\ v = history[s].turns
    BY <1>7, <1>11, ViewIs DEF Deletes
  <2>4. Own(v, s) /\ Distinct(v) /\ OnPlaces(rows, v)
    BY <1>2, <2>1, <2>2, ViewsTyped DEF ViewsFit, rows
  <2>5. v # <<>> /\ t = v[Len(v)]
    BY <1>7, <1>9, <2>3 DEF NothingForgotten, WritesFit
  <2>6. \A i \in DOMAIN v : v[i] = t \/ v[i] \in DOMAIN rows
    <3> SUFFICES ASSUME NEW i \in DOMAIN v
                 PROVE  v[i] = t \/ v[i] \in DOMAIN rows
      OBVIOUS
    <3>1. v[i] \in Listed(history[s].turns)
      BY <2>3 DEF Listed
    <3>2. Written(Commands, answers, v[i]) \/ (s \in DOMAIN db /\ v[i] \in DOMAIN db[s].rows)
      BY <1>2, <2>3, <3>1 DEF NothingForgotten, Held
    <3> QED
      BY <1>9, <3>2 DEF rows
  <2>7. OnPlaces(Put(rows, t, NextPlace(rows)), v)
    BY <1>8, <2>4, <2>5, <2>6, AppendedOnPlaces
  <2> QED
    BY <1>5, <2>7
<1>15. Held(history', latest', Commands', answers', db')
  <2>1. Held(history, latest, Commands, answers, db)
    BY DEF NothingForgotten
  <2> QED
    BY <1>5, <1>7, <1>10, <1>11, <1>13, <2>1 DEF Held
<1>16. WritesFit(history', Commands', answers', sent', db')
  <2>1. WritesFit(history, Commands, answers, sent, db)
    BY DEF NothingForgotten
  <2>2. \A a \in answers' : a.cmd = "append" => a.of.turn = t
    BY <1>3, <1>4, <1>7 DEF IsWrite, t
  <2> QED
    BY <1>2, <1>5, <1>6, <1>7, <1>10, <1>11, <2>1, <2>2 DEF WritesFit
<1>17. DeliveriesFit(history', latest', Commands', sent', db', (backup.of)', bots')
  <2>1. DeliveriesFit(history, latest, Commands, sent, db, backup.of, bots)
    BY DEF NothingForgotten
  <2> QED
    BY <1>3, <1>5, <1>7, <1>11, <1>13, <2>1 DEF DeliveriesFit
<1>18. StoreFits(db', sent') /\ StoreFits((backup.of)', sent')
  <2>1. StoreFits(db, sent) /\ StoreFits(backup.of, sent)
    BY DEF NothingForgotten
  <2>2. t \notin DOMAIN rows => Gapless(Put(rows, t, NextPlace(rows)))
    BY <1>2, <1>8, <2>1, AppendedGapless DEF StoreFits, rows
  <2>3. Gapless(db'[s].rows) /\ DOMAIN db'[s].rows \subseteq sent
    BY <1>2, <1>5, <1>6, <1>12, <2>1, <2>2 DEF StoreFits, rows
  <2> QED
    BY <1>3, <1>5, <1>11, <2>1, <2>3 DEF StoreFits
<1>19. SaveIsDue(latest', Commands', db', timer' \/ again')
  <2>1. \A d \in Commands : d.cmd = "save" => d \in Commands'
    BY <1>1, <1>7
  <2> QED
    BY <1>5, <1>11, <2>1 DEF NothingForgotten, SaveIsDue
<1> QED
  BY <1>1, <1>10, <1>14, <1>15, <1>16, <1>17, <1>18, <1>19, ShrinksFits DEF NothingForgotten

LEMMA ExecSaveKeeps ==
  ASSUME TypeInv, Ordered, DeletionInv, NothingForgotten, ExecSave
  PROVE  NothingForgotten'
<1> DEFINE c == Head(queue)
           h == c.payload
           b == Answer(c, TRUE)
           New(s) == Placed(Rows(db, s), h[s].turns, Len(h[s].turns))
<1>1. Shrinks /\ c.cmd = "save"
  BY ExecutesShrinks DEF ExecSave
<1>2. /\ answers' = answers \cup {b} /\ (backup.of)' \in {backup.of, db'}
      /\ db' = Merge(db, h, DOMAIN h)
  BY DEF ExecSave, Answers, Synced
<1>3. b.cmd = "save" /\ b.of = c /\ b.ok
  BY <1>1 DEF Answer
<1>4. /\ DOMAIN db' = DOMAIN db \cup DOMAIN h
      /\ \A s \in DOMAIN db \ DOMAIN h : db'[s] = db[s]
      /\ \A s \in DOMAIN h : db'[s].rows = New(s) /\ db'[s].rev = h[s].rev
  BY <1>2 DEF Merge, Record
<1>5. /\ Commands' \subseteq Commands /\ c \in Commands /\ Commands \subseteq Commands' \cup {c}
  BY <1>1, PoppedCommands DEF Shrinks
<1>6. /\ TypedHistory(h)
      /\ \A s \in DOMAIN h :
           /\ \E v : v \in Views(history, Commands, s)
           /\ \A v \in Views(history, Commands, s) :
                /\ Own(v, s) /\ Distinct(v) /\ Listed(v) \subseteq sent
                /\ Begins(h[s].turns, v) /\ OnPlaces(Rows(db, s), v)
  BY <1>1, <1>5, SaveFacts
<1>7. TypedStore(db')
  <2>1. TypeInv'
    BY ExecuteTyped DEF Execute
  <2> QED
    BY <2>1 DEF TypeInv, StoreTyped
<1> HIDE DEF c, b, h, New
<1>8. ASSUME NEW s \in DOMAIN h, NEW v \in Views(history, Commands, s)
      PROVE  /\ OnPlaces(New(s), v) /\ DOMAIN New(s) = DOMAIN Rows(db, s) \cup Listed(h[s].turns)
             /\ Listed(h[s].turns) \subseteq Listed(v)
  <2> DEFINE p == h[s].turns
             rows == Rows(db, s)
  <2>1. Own(p, s) /\ Own(v, s) /\ Begins(p, v) /\ OnPlaces(rows, v)
    BY <1>6 DEF TypedHistory, TypedItem
  <2>2. New(s) = Placed(rows, p, Len(p))
    BY DEF New
  <2> HIDE DEF p, rows
  <2>3. Len(p) \in 0..Len(p) /\ Listed(p) = {p[i] : i \in 1..Len(p)}
    BY <2>1, OwnTurns DEF Listed
  <2>4. OnPlaces(New(s), v) /\ DOMAIN New(s) = DOMAIN rows \cup Listed(p)
    BY <2>1, <2>2, <2>3, PlacedOnPlaces
  <2>5. Listed(p) \subseteq Listed(v)
    BY <2>1 DEF Begins, Listed
  <2> QED
    BY <2>4, <2>5 DEF p, rows
<1>9. /\ OneWrite(queue', answers') /\ AllGranted(answers')
      /\ \A t : Written(Commands', answers', t) <=> Written(Commands, answers, t)
  BY <1>1, <1>2, <1>3, AnsweredFits DEF c
<1>10. UNCHANGED <<history, latest, timer, again, bots, sent>>
  BY <1>1 DEF Shrinks
<1>11. /\ \A s \in DOMAIN h : Listed(h[s].turns) \subseteq DOMAIN db'[s].rows
       /\ \A s \in DOMAIN db : DOMAIN db[s].rows \subseteq DOMAIN db'[s].rows
  <2>1. \A s \in DOMAIN h : DOMAIN db'[s].rows = DOMAIN Rows(db, s) \cup Listed(h[s].turns)
    BY <1>4, <1>6, <1>8
  <2> QED
    BY <1>4, <2>1 DEF Rows
<1>12. ViewsFit(history', Commands', sent', db')
  <2> SUFFICES ASSUME NEW s \in Sessions, NEW v \in Views(history, Commands, s)
               PROVE  Distinct(v) /\ Listed(v) \subseteq sent
                      /\ (s \in DOMAIN db' => OnPlaces(db'[s].rows, v))
    BY <1>1, <1>10, ShrinksViews DEF ViewsFit
  <2>1. Distinct(v) /\ Listed(v) \subseteq sent /\ (s \in DOMAIN db => OnPlaces(db[s].rows, v))
    BY DEF NothingForgotten, ViewsFit
  <2>2. s \in DOMAIN h => OnPlaces(db'[s].rows, v)
    BY <1>4, <1>8
  <2> QED
    BY <1>4, <2>1, <2>2
<1>13. Held(history', latest', Commands', answers', db')
  <2>1. Held(history, latest, Commands, answers, db)
    BY DEF NothingForgotten
  <2> SUFFICES ASSUME NEW s \in DOMAIN history, NEW t \in Listed(history[s].turns)
               PROVE  \/ Written(Commands, answers, t)
                      \/ s \in DOMAIN db' /\ t \in DOMAIN db'[s].rows
                      \/ /\ s \notin DOMAIN db'
                         /\ s \in DOMAIN latest => t \in Listed(latest[s].turns)
                         /\ \A d \in Commands' : IsSave(d, s) => t \in Listed(d.payload[s].turns)
    BY <1>9, <1>10 DEF Held
  <2>2. CASE s \notin DOMAIN db /\ s \in DOMAIN h /\ ~Written(Commands, answers, t)
    <3>1. t \in Listed(h[s].turns)
      BY <1>1, <1>5, <2>1, <2>2 DEF Held, IsSave, h, c
    <3> QED
      BY <1>4, <1>11, <2>2, <3>1
  <2>3. CASE ~(s \notin DOMAIN db /\ s \in DOMAIN h)
    BY <1>4, <1>5, <1>11, <2>1, <2>3 DEF Held
  <2> QED
    BY <2>2, <2>3
<1>14. WritesFit(history', Commands', answers', sent', db')
  <2>1. WritesFit(history, Commands, answers, sent, db)
    BY DEF NothingForgotten
  <2>2. \A a \in answers' : a.cmd = "append" => a \in answers
    BY <1>2, <1>3
  <2> QED
    BY <1>4, <1>5, <1>9, <1>10, <1>11, <2>1, <2>2 DEF WritesFit
<1>15. \A r \in Deliveries \cap sent : Home[r] \in DOMAIN db' => r \in DOMAIN db'[Home[r]].rows
  <2> SUFFICES ASSUME NEW r \in Deliveries \cap sent, NEW s, s = Home[r], s \in DOMAIN db'
               PROVE  r \in DOMAIN db'[s].rows
    OBVIOUS
  <2>1. /\ s \in DOMAIN db => r \in DOMAIN db[s].rows
        /\ s \in DOMAIN h => r \in Listed(h[s].turns)
    BY <1>1, <1>5 DEF NothingForgotten, DeliveriesFit, IsSave, h, c
  <2> QED
    BY <1>4, <1>11, <2>1
<1>16. DeliveriesFit(history', latest', Commands', sent', db', (backup.of)', bots')
  <2>1. DeliveriesFit(history, latest, Commands, sent, db, backup.of, bots)
    BY DEF NothingForgotten
  <2> QED
    BY <1>2, <1>5, <1>10, <1>15, <2>1 DEF DeliveriesFit
<1>17. StoreFits(db', sent')
  <2>1. StoreFits(db, sent)
    BY DEF NothingForgotten
  <2>2. ASSUME NEW s \in DOMAIN h
        PROVE  Gapless(db'[s].rows) /\ DOMAIN db'[s].rows \subseteq sent
    <3>1. PICK v \in Views(history, Commands, s) : Own(v, s) /\ Distinct(v) /\ Listed(v) \subseteq sent
      BY <1>6
    <3> DEFINE rows == db'[s].rows
    <3>2. OnPlaces(rows, v) /\ DOMAIN rows = DOMAIN Rows(db, s) \cup Listed(h[s].turns)
          /\ Listed(h[s].turns) \subseteq Listed(v)
      BY <1>4, <1>8
    <3>3. IsRows(rows, s)
      BY <1>4, <1>7 DEF TypedStore
    <3>4. DOMAIN Rows(db, s) \subseteq sent
      BY <2>1, EmptyCommands DEF StoreFits, Rows
    <3> HIDE DEF rows
    <3>5. Gapless(rows) /\ DOMAIN rows \subseteq sent
      BY <3>1, <3>2, <3>3, <3>4, OnPlacesGapless
    <3> QED
      BY <3>5 DEF rows
  <2> QED
    BY <1>4, <1>10, <2>1, <2>2 DEF StoreFits
<1>18. StoreFits((backup.of)', sent')
  BY <1>2, <1>10, <1>17 DEF NothingForgotten
<1>19. SaveIsDue(latest', Commands', db', timer' \/ again')
  <2>1. CASE timer \/ again
    BY <1>10, <2>1 DEF SaveIsDue
  <2>2. CASE \A s \in DOMAIN latest : s \in DOMAIN db /\ db[s].rev = latest[s].rev
    <3> SUFFICES ASSUME NEW s \in DOMAIN latest
                 PROVE  s \in DOMAIN db' /\ db'[s].rev = latest[s].rev
      BY <1>10 DEF SaveIsDue
    <3>1. s \in DOMAIN db /\ db[s].rev = latest[s].rev
      BY <2>2
    <3>2. CASE s \in DOMAIN h
      <4>1. 1 \in DOMAIN queue /\ c = queue[1]
        BY <1>1, Popped DEF Shrinks, TypeInv, CommandsTyped, c
      <4>2. WritesAtLeast(c, db) /\ WritesAtMost(c, latest)
        <5>1. ~Moot(queue, db, 1)
          BY <1>1, <4>1 DEF Moot
        <5> QED
          BY <4>1, <5>1 DEF Ordered, InVersionOrder
      <4>3. Writes(c, s) /\ RevOf(c, s) = h[s].rev
        BY <1>1, <3>2 DEF Writes, RevOf, c, h
      <4>4. db[s].rev <= h[s].rev /\ h[s].rev <= latest[s].rev
        BY <3>1, <4>2, <4>3 DEF WritesAtLeast, WritesAtMost
      <4>5. db[s].rev \in Nat /\ h[s].rev \in Nat
        BY <1>6, <3>1, <3>2 DEF TypeInv, StoreTyped, TypedStore, TypedHistory, TypedItem
      <4> QED
        BY <1>4, <3>1, <3>2, <4>4, <4>5
    <3>3. CASE s \notin DOMAIN h
      BY <1>4, <3>1, <3>3
    <3> QED
      BY <3>2, <3>3
  <2>3. ASSUME NEW d \in Commands, d.cmd = "save", d.payload = latest
        PROVE  SaveIsDue(latest', Commands', db', timer' \/ again')
    <3>1. CASE d = c
      BY <1>4, <1>10, <2>3, <3>1 DEF SaveIsDue, h
    <3>2. CASE d # c
      BY <1>5, <1>10, <2>3, <3>2 DEF SaveIsDue
    <3> QED
      BY <3>1, <3>2
  <2> QED
    BY <2>1, <2>2, <2>3 DEF NothingForgotten, SaveIsDue
<1> QED
  BY <1>1, <1>9, <1>12, <1>13, <1>14, <1>16, <1>17, <1>18, <1>19, ShrinksFits DEF NothingForgotten

LEMMA ExecDeleteKeeps ==
  ASSUME TypeInv, DeletionInv, NothingForgotten, ExecDelete
  PROVE  NothingForgotten'
<1> DEFINE c == Head(queue)
           s == c.session
<1>1. Shrinks /\ c.cmd = "delete"
  BY ExecutesShrinks DEF ExecDelete
<1>2. answers' = answers /\ (backup.of)' \in {backup.of, db'} /\ db' = Drop(db, s)
  BY DEF ExecDelete, Synced
<1>3. DOMAIN db' = DOMAIN db \ {s} /\ \A x \in DOMAIN db' : db'[x] = db[x]
  BY <1>2 DEF Drop
<1>4. /\ Commands' \subseteq Commands /\ c \in Commands /\ Commands \subseteq Commands' \cup {c}
      /\ OneWrite(queue', answers)
  BY <1>1, PoppedCommands DEF Shrinks
<1>5. s \notin DOMAIN history \cup DOMAIN latest
  BY <1>1, <1>4, ShownIsNotDeleted DEF Deletes
<1> HIDE DEF c, s
<1>6. UNCHANGED <<history, latest, timer, again, bots, sent>>
  BY <1>1 DEF Shrinks
<1>7. \A t : Written(Commands', answers', t) <=> Written(Commands, answers, t)
  BY <1>1, <1>2, <1>4 DEF Written, IsWrite, c
<1>8. ViewsFit(history', Commands', sent', db')
  <2>1. \A x \in Sessions : \A v \in Views(history', Commands', x) :
          Distinct(v) /\ Listed(v) \subseteq sent /\ (x \in DOMAIN db => OnPlaces(db[x].rows, v))
    BY <1>1, ShrinksViews DEF NothingForgotten, ViewsFit
  <2> QED
    BY <1>3, <1>6, <2>1 DEF ViewsFit
<1>9. Held(history', latest', Commands', answers', db')
  <2>1. Held(history, latest, Commands, answers, db)
    BY DEF NothingForgotten
  <2> QED
    BY <1>3, <1>4, <1>5, <1>6, <1>7, <2>1 DEF Held
<1>10. WritesFit(history', Commands', answers', sent', db')
  <2>1. WritesFit(history, Commands, answers, sent, db)
    BY DEF NothingForgotten
  <2> QED
    BY <1>2, <1>3, <1>4, <1>5, <1>6, <1>7, <2>1 DEF WritesFit
<1>11. DeliveriesFit(history', latest', Commands', sent', db', (backup.of)', bots')
  <2>1. DeliveriesFit(history, latest, Commands, sent, db, backup.of, bots)
    BY DEF NothingForgotten
  <2> QED
    BY <1>2, <1>3, <1>4, <1>6, <2>1 DEF DeliveriesFit
<1>12. StoreFits(db', sent') /\ StoreFits((backup.of)', sent')
  BY <1>2, <1>3, <1>6 DEF NothingForgotten, StoreFits
<1>13. SaveIsDue(latest', Commands', db', timer' \/ again')
  <2>1. \A d \in Commands : d.cmd = "save" => d \in Commands'
    BY <1>1, <1>4 DEF c
  <2> QED
    BY <1>3, <1>5, <1>6, <2>1 DEF NothingForgotten, SaveIsDue
<1>14. OneWrite(queue', answers') /\ AllGranted(answers')
  BY <1>2, <1>4 DEF NothingForgotten
<1> QED
  BY <1>1, <1>8, <1>9, <1>10, <1>11, <1>12, <1>13, <1>14, ShrinksFits DEF NothingForgotten

-----------------------------------------------------------------------------
(* What was refused stays counted.                                           *)
LEMMA CountsUp ==
  ASSUME failures \in Nat, [Next]_vars
  PROVE  failures' \in Nat /\ (failures' = 0 => failures = 0)
<1> USE DEF counters, Tick
<1>1. CASE UNCHANGED vars
  BY <1>1 DEF vars
<1>2. CASE Mount \/ Crash \/ Render \/ TimerFires \/ PollTaskDeliveries
  BY <1>2 DEF Mount, Crash, Render, TimerFires, PollTaskDeliveries
<1>3. CASE Hydrate
  <2>1. PICK y \in Yields(db') : failures' = failures + y.failed
    BY <1>3 DEF Hydrate
  <2>2. y.failed \in {0, 1}
    BY <2>1 DEF Yields
  <2> QED
    BY <2>1, <2>2
<1>4. CASE \E s \in Sessions : Edit(s) \/ Retitle(s) \/ DeleteHistoryItem(s)
  BY <1>4 DEF Edit, Retitle, DeleteHistoryItem
<1>5. CASE \E t \in Turns : Message(t)
  BY <1>5 DEF Message
<1>6. CASE Execute
  <2>1. failures' = failures \/ failures' = failures + 1
    BY <1>6 DEF Execute, Refuse, ExecCreate, ExecAppend, ExecSave, ExecSaveBlocked, ExecDelete, Executes
  <2> QED
    BY <2>1
<1>7. CASE Handle
  BY <1>7 DEF Handle, Handles, Created, Appended, Saved, NotDeleted
<1>8. CASE \E d \in Deliveries : RecordDelivery(d) \/ OnDelivery(d)
  BY <1>8 DEF RecordDelivery, OnDelivery
<1> QED
  BY <1>1, <1>2, <1>3, <1>4, <1>5, <1>6, <1>7, <1>8 DEF Next

(* A message that was refused or came in a burst stays noted.                  *)
LEMMA MishapsStay ==
  ASSUME [Next]_vars
  PROVE  (missed => missed') /\ (muddled => muddled')
<1> USE DEF mishaps
<1>1. missed' = missed \/ missed' = (missed \/ Home[Head(queue).turn] \notin DOMAIN db)
  BY DEF vars, Next, Mount, Hydrate, Crash, Render, TimerFires, Edit, Retitle, DeleteHistoryItem, Message,
         Execute, Refuse, ExecCreate, ExecAppend, ExecSave, ExecSaveBlocked, ExecDelete, Executes,
         Handle, Handles, Created, Appended, Saved, NotDeleted, RecordDelivery, OnDelivery, PollTaskDeliveries
<1>2. \/ muddled' = muddled
      \/ muddled' = (muddled \/ Torn(db'))
      \/ muddled' = (muddled \/ ~Calm \/ window = "loading")
  BY DEF vars, Next, Mount, Hydrate, Crash, Render, TimerFires, Edit, Retitle, DeleteHistoryItem, Message,
         Muddle, Execute, Refuse, ExecCreate, ExecAppend, ExecSave, ExecSaveBlocked, ExecDelete, Executes,
         Handle, Handles, Created, Appended, Saved, NotDeleted, RecordDelivery, OnDelivery, PollTaskDeliveries
<1>3. muddled => muddled'
  BY <1>2, Zenon
<1>4. missed => missed'
  BY <1>1, Zenon
<1> QED
  BY <1>3, <1>4

(* A command is executed and not refused.                                    *)
LEMMA ExecuteForgetsNothing ==
  ASSUME TypeInv, Ordered, DeletionInv, NothingForgotten, failures = 0, failures' = 0, ~missed', Execute
  PROVE  NothingForgotten'
<1>1. ~Refuse
  BY DEF Refuse
<1>2. ~ExecSaveBlocked
  <2> SUFFICES ASSUME ExecSaveBlocked PROVE FALSE
    OBVIOUS
  <2>1. Head(queue) \in Commands /\ Head(queue).cmd = "save"
    BY ExecutesShrinks, PoppedCommands DEF ExecSaveBlocked, Shrinks
  <2>2. Blocked(db, Head(queue).payload) = {}
    BY <2>1, SaveFacts
  <2> QED
    BY <2>2 DEF ExecSaveBlocked
<1> QED
  BY <1>1, <1>2, ExecCreateKeeps, ExecAppendKeeps, ExecSaveKeeps, ExecDeleteKeeps DEF Execute

LEMMA NextStartsQuiet ==
  ASSUME StartsQuiet, [Next]_vars
  PROVE  StartsQuiet'
<1> SUFFICES ASSUME ~muddled', window' # "ready"
             PROVE  queue' = <<>> /\ answers' = {} /\ ~timer'
  BY DEF StartsQuiet
<1> USE DEF windowVars, saverVars, ipcVars, storeVars, deliveryVars, mishaps, counters
<1>1. CASE UNCHANGED vars \/ Mount
  BY <1>1 DEF vars, Mount, StartsQuiet
<1>2. CASE Hydrate \/ Render
  BY <1>2 DEF Hydrate, Render
<1>3. CASE Crash
  BY <1>3 DEF Crash
<1>4. CASE TimerFires
  BY <1>4 DEF TimerFires, StartsQuiet
<1>5. CASE \E s \in Sessions : Edit(s) \/ Retitle(s) \/ DeleteHistoryItem(s)
  BY <1>5 DEF Edit, Retitle, DeleteHistoryItem
<1>6. CASE \E t \in Turns : Message(t)
  BY <1>6 DEF Message, Muddle
<1>7. CASE Execute
  BY <1>7 DEF Execute, Refuse, ExecCreate, ExecAppend, ExecSave, ExecSaveBlocked, ExecDelete, Executes, StartsQuiet
<1>8. CASE Handle
  BY <1>8 DEF Handle, Handles, Created, Appended, Saved, NotDeleted, StartsQuiet
<1>9. CASE (\E d \in Deliveries : RecordDelivery(d) \/ OnDelivery(d)) \/ PollTaskDeliveries
  BY <1>9 DEF RecordDelivery, OnDelivery, PollTaskDeliveries, StartsQuiet
<1> QED
  BY <1>1, <1>2, <1>3, <1>4, <1>5, <1>6, <1>7, <1>8, <1>9 DEF Next

LEMMA NextSaved ==
  ASSUME TypeInv, DeletedInv, StartsQuiet, SavedInv, [Next]_vars
  PROVE  SavedInv'
<1>1. failures' \in Nat /\ (Undisturbed' => Undisturbed)
  BY CountsUp, MishapsStay DEF SavedInv, Undisturbed
<1> SUFFICES ASSUME Undisturbed' PROVE NothingForgotten'
  BY <1>1 DEF SavedInv
<1>2. NothingForgotten /\ failures = 0 /\ failures' = 0 /\ ~missed' /\ ~muddled /\ ~muddled'
  BY <1>1 DEF SavedInv, Undisturbed
<1>3. Ordered /\ NothingUnderWay /\ DeletionInv
  BY <1>2 DEF DeletedInv, NothingForgotten
<1>4. CASE UNCHANGED vars \/ Mount \/ Render
  <2>1. UNCHANGED <<db, backup, bots, undone, queue, answers, sent, again, saving, posted, row, history>>
    BY <1>4 DEF vars, windowVars, saverVars, ipcVars, storeVars, deliveryVars, mishaps, Mount, Render
  <2>2. (latest' = latest /\ (timer => timer')) \/ (latest' = history /\ timer')
    BY <1>4 DEF vars, windowVars, saverVars, Mount, Render
  <2> QED
    BY <1>2, <1>3, <2>1, <2>2, QuietKeeps
<1>5. CASE Hydrate \/ Crash
  BY <1>2, <1>3, <1>5, HydrateKeeps, CrashKeeps
<1>6. CASE TimerFires
  BY <1>2, <1>3, <1>6, TimerFiresKeeps
<1>7. CASE \E s \in Sessions : Edit(s) \/ Retitle(s) \/ DeleteHistoryItem(s)
  <2>1. PICK s \in Sessions : Edit(s) \/ Retitle(s) \/ DeleteHistoryItem(s)
    BY <1>7
  <2>2. DeleteHistoryItem(s) => Calm
    BY <1>2 DEF DeleteHistoryItem, Muddle
  <2> QED
    BY <1>2, <1>3, <2>1, <2>2, EditKeeps, DeleteKeeps
<1>8. CASE \E t \in Turns : Message(t)
  <2>1. PICK t \in Turns : Message(t)
    BY <1>8
  <2>2. Calm
    BY <1>2, <2>1 DEF Message, Muddle
  <2> QED
    BY <1>2, <1>3, <2>1, <2>2, MessageKeeps
<1>9. CASE Execute
  BY <1>2, <1>3, <1>9, ExecuteForgetsNothing
<1>10. CASE Handle
  <2>1. PICK a \in answers : Created(a) \/ Appended(a) \/ Saved(a) \/ NotDeleted(a)
    BY <1>10 DEF Handle
  <2>2. ~NotDeleted(a)
    BY <1>2 DEF NothingForgotten, AllGranted, NotDeleted
  <2> QED
    BY <1>2, <1>3, <2>1, <2>2, CreatedKeeps, AppendedKeeps, SavedKeeps
<1>11. CASE \E d \in Deliveries : RecordDelivery(d) \/ OnDelivery(d)
  BY <1>2, <1>3, <1>11, RecordDeliveryKeeps, OnDeliveryKeeps
<1>12. CASE PollTaskDeliveries
  BY <1>2, <1>3, <1>12, PollKeeps
<1> QED
  BY <1>4, <1>5, <1>6, <1>7, <1>8, <1>9, <1>10, <1>11, <1>12 DEF Next

(* Where nothing is under way, all that is shown is stored in its order.       *)
LEMMA IdleIsSaved ==
  ASSUME TypeInv, DeletedInv, SavedInv
  PROVE  IdleMeansSaved
<1> SUFFICES ASSUME Idle, failures = 0, ~missed, ~muddled, NEW s \in DOMAIN history
             PROVE  StoredAs(s, history[s])
  BY DEF IdleMeansSaved
<1> DEFINE v == history[s].turns
<1>1. NothingForgotten /\ DeletionInv /\ s \in Sessions
  BY DEF SavedInv, Undisturbed, NothingForgotten, DeletedInv, TypeInv, WindowTyped, TypedHistory
<1>2. Commands = {} /\ answers = {}
  BY EmptyCommands DEF Idle, Commands
<1>3. s \in DOMAIN db /\ db[s].rev = history[s].rev
  BY <1>1, <1>2 DEF NothingForgotten, SaveIsDue, Idle
<1>4. Distinct(v) /\ OnPlaces(db[s].rows, v)
  <2>1. v \in Views(history, Commands, s)
    BY ViewIs
  <2> QED
    BY <1>1, <1>3, <2>1 DEF NothingForgotten, ViewsFit
<1>5. \A t \in Listed(v) : t \in DOMAIN db[s].rows
  <2>1. \A t : ~Written(Commands, answers, t)
    BY <1>2 DEF Written
  <2> QED
    BY <1>1, <1>3, <2>1 DEF NothingForgotten, Held
<1>6. \A t \in DOMAIN db[s].rows : db[s].rows[t] \in Nat
  BY <1>3 DEF TypeInv, StoreTyped, TypedStore, IsRows
<1>7. v \in Seq(Turns)
  BY DEF TypeInv, WindowTyped, TypedHistory, TypedItem, Own
<1> HIDE DEF v
<1>8. ASSUME NEW i \in DOMAIN v
      PROVE  v[i] \in DOMAIN db[s].rows /\ db[s].rows[v[i]] = i - 1
  <2>1. v[i] \in DOMAIN db[s].rows
    BY <1>5 DEF Listed
  <2>2. db[s].rows[v[i]] + 1 \in DOMAIN v /\ v[db[s].rows[v[i]] + 1] = v[i]
    BY <1>4, <2>1 DEF OnPlaces
  <2>3. db[s].rows[v[i]] + 1 = i
    BY <1>4, <2>2 DEF Distinct
  <2>4. db[s].rows[v[i]] \in Nat /\ i \in Nat
    BY <1>6, <1>7, <2>1
  <2> QED
    BY <2>1, <2>3, <2>4
<1> QED
  BY <1>3, <1>8 DEF StoredAs, v

(* If SQLite refuses nothing, a change is never forgotten, wherever the         *)
(* application ends: once the window is idle all that it shows is stored, the   *)
(* turns in the same order. What IdleMeansSaved excludes are histories, not     *)
(* behaviours: after a burst nothing is assumed of what comes next.           *)
THEOREM NothingIsForgotten == Spec => []IdleMeansSaved
<1>1. Init => TypeInv /\ DeletedInv /\ StartsQuiet /\ SavedInv
  <2>1. Init => DeletedInv
    BY InitIInv, InitDeletes DEF IInv, Ordered, DeletedInv, Init
  <2>2. Init => StartsQuiet /\ failures = 0
    BY DEF StartsQuiet, Init
  <2> QED
    BY <2>1, <2>2, InitKeeps, InitTyped DEF SavedInv
<1>2. TypeInv /\ DeletedInv /\ StartsQuiet /\ SavedInv /\ [Next]_vars
        => (TypeInv /\ DeletedInv /\ StartsQuiet /\ SavedInv)'
  BY NextTyped, NextDeletedInv, NextStartsQuiet, NextSaved
<1>3. TypeInv /\ DeletedInv /\ SavedInv => IdleMeansSaved
  BY IdleIsSaved
<1> QED
  BY <1>1, <1>2, <1>3, PTL DEF Spec
-----------------------------------------------------------------------------
(* No message is lost, also in a burst: each that is shown is being stored, or  *)
(* was; what deletes its session finds it shown no more.                      *)

Accounted(Q, A, d, t) ==
  \/ \E c \in Q : IsWrite(c) /\ c.turn = t
  \/ \E a \in A : a.cmd = "create" /\ a.of.turn = t
  \/ Home[t] \in DOMAIN d /\ t \in DOMAIN d[Home[t]].rows

ShownAccounted(h, Q, A, d) ==
  \A s \in DOMAIN h : \A t \in Listed(h[s].turns) \ Deliveries : Accounted(Q, A, d, t)

(* No message was refused, and no deletion; saves may have been.               *)
MessagesGranted(A) == \A a \in A : (IsWrite(a) => a.ok) /\ a.cmd # "delete"

MessagesKept ==
  /\ ~undone /\ MessagesGranted(answers)
  /\ ShownAccounted(history, Commands, answers, db)
  /\ ShownAccounted(latest, Commands, answers, db)

MessagesInv == failures \in Nat /\ (failures = 0 /\ ~missed => MessagesKept)

(* What accounts for a turn that is shown goes on doing so.                    *)
StillAccounted ==
  \A s \in DOMAIN history \cup DOMAIN latest : \A t \in Turns :
    Home[t] = s /\ Accounted(Commands, answers, db, t)
      => Accounted(Commands', answers', db', t)

(* A history in which only turns that were shown, deliveries and turns         *)
(* accounted for are shown.                                                  *)
ShowsAccounted(h) ==
  \A s \in DOMAIN h : \A t \in Listed(h[s].turns) \ Deliveries :
    \/ s \in DOMAIN history /\ t \in Listed(history[s].turns)
    \/ s \in DOMAIN latest /\ t \in Listed(latest[s].turns)
    \/ Accounted(Commands', answers', db', t)

LEMMA ShownTurns ==
  ASSUME NEW h, TypedHistory(h), NEW s \in DOMAIN h, NEW t \in Listed(h[s].turns)
  PROVE  t \in Turns /\ Home[t] = s
BY DEF TypedHistory, TypedItem, Own, Listed

LEMMA ShowsKept ==
  ASSUME TypeInv, MessagesKept, StillAccounted, NEW h, ShowsAccounted(h)
  PROVE  ShownAccounted(h, Commands', answers', db')
<1> SUFFICES ASSUME NEW s \in DOMAIN h, NEW t \in Listed(h[s].turns) \ Deliveries
             PROVE  Accounted(Commands', answers', db', t)
  BY DEF ShownAccounted
<1>1. CASE s \in DOMAIN history /\ t \in Listed(history[s].turns)
  <2>1. t \in Turns /\ Home[t] = s
    BY <1>1, ShownTurns DEF TypeInv, WindowTyped
  <2>2. Accounted(Commands, answers, db, t)
    BY <1>1 DEF MessagesKept, ShownAccounted
  <2> QED
    BY <1>1, <2>1, <2>2 DEF StillAccounted
<1>2. CASE s \in DOMAIN latest /\ t \in Listed(latest[s].turns)
  <2>1. t \in Turns /\ Home[t] = s
    BY <1>2, ShownTurns DEF TypeInv, WindowTyped
  <2>2. Accounted(Commands, answers, db, t)
    BY <1>2 DEF MessagesKept, ShownAccounted
  <2> QED
    BY <1>2, <2>1, <2>2 DEF StillAccounted
<1> QED
  BY <1>1, <1>2 DEF ShowsAccounted

LEMMA StepKeepsMessages ==
  ASSUME TypeInv, MessagesKept, ~undone', MessagesGranted(answers'), StillAccounted,
         ShowsAccounted(history'), ShowsAccounted(latest')
  PROVE  MessagesKept'
<1> DEFINE h == history'
           l == latest'
<1>1. ShowsAccounted(h) /\ ShowsAccounted(l)
  OBVIOUS
<1> HIDE DEF h, l
<1>2. ShownAccounted(h, Commands', answers', db') /\ ShownAccounted(l, Commands', answers', db')
  BY <1>1, ShowsKept
<1> QED
  BY <1>2 DEF MessagesKept, h, l

(* Commands are queued and none is executed.                                  *)
LEMMA MoreAccounted ==
  ASSUME db' = db, Commands \subseteq Commands',
         \A a \in answers : a.cmd = "create" =>
           a \in answers' \/ \E c \in Commands' : IsWrite(c) /\ c.turn = a.of.turn
  PROVE  StillAccounted
BY DEF StillAccounted, Accounted

(* At most one command is queued.                                            *)
LEMMA MayInvoke ==
  ASSUME IsSeq(queue), queue' = queue \/ \E c : queue' = queue \o <<c>>
  PROVE  Commands \subseteq Commands'
<1>1. ASSUME NEW c, queue' = queue \o <<c>>
      PROVE  Commands' = Commands \cup {c}
  BY <1>1, PushedCommands DEF Commands
<1>2. queue' = queue => Commands' = Commands
  BY DEF Commands
<1> QED
  BY <1>1, <1>2

LEMMA TurnsPut ==
  ASSUME NEW h, NEW s, NEW item, item.turns = TurnsOf(h, s)
  PROVE  LET g == Put(h, s, item) IN
         \A x \in DOMAIN g : \A t \in Listed(g[x].turns) :
           x \in DOMAIN h /\ t \in Listed(h[x].turns)
BY EmptyCommands DEF Put, TurnsOf

(* One turn more is shown.                                                   *)
LEMMA LongerList ==
  ASSUME NEW v, NEW s, Own(v, s), NEW t
  PROVE  Listed(Append(v, t)) \subseteq Listed(v) \cup {t}
<1>1. v \in Seq(Turns) /\ DOMAIN v = 1..Len(v)
  BY DEF Own
<1>2. /\ DOMAIN Append(v, t) = 1..Len(v) + 1
      /\ \A i \in 1..Len(v) + 1 : Append(v, t)[i] = IF i = Len(v) + 1 THEN t ELSE v[i]
  BY <1>1
<1>3. \A i \in 1..Len(v) + 1 : i = Len(v) + 1 \/ i \in 1..Len(v)
  BY <1>1
<1> QED
  BY <1>1, <1>2, <1>3 DEF Listed

LEMMA WithTurnShows ==
  ASSUME NEW h, TypedHistory(h), NEW t
  PROVE  LET g == WithTurn(h, t) IN
         \A x \in DOMAIN g : \A u \in Listed(g[x].turns) :
           u = t \/ (x \in DOMAIN h /\ u \in Listed(h[x].turns))
<1> DEFINE s == Home[t]
           v == TurnsOf(h, s)
           w == Append(v, t)
           g == WithTurn(h, t)
<1>1. Listed(w) \subseteq Listed(v) \cup {t}
  BY TurnsOfOwn, LongerList
<1>2. s \notin DOMAIN h => Listed(v) = {}
  BY EmptyCommands DEF TurnsOf
<1>3. s \in DOMAIN h => v = h[s].turns
  BY DEF TurnsOf
<1>4. /\ DOMAIN g = DOMAIN h \cup {s} /\ g[s].turns = w
      /\ \A x \in DOMAIN h : x # s => g[x] = h[x]
  BY DEF WithTurn, Put, Item
<1> HIDE DEF v, w, g
<1>5. ASSUME NEW x \in DOMAIN g, NEW u \in Listed(g[x].turns)
      PROVE  u = t \/ (x \in DOMAIN h /\ u \in Listed(h[x].turns))
  <2>1. CASE x = s
    BY <1>1, <1>2, <1>3, <1>4, <1>5, <2>1
  <2>2. CASE x # s
    BY <1>4, <1>5, <2>2
  <2> QED
    BY <2>1, <2>2
<1> QED
  BY <1>5 DEF g

-----------------------------------------------------------------------------
(* The steps of the window                                                   *)

LEMMA WindowKeepsMessages ==
  ASSUME TypeInv, MessagesKept,
         \/ UNCHANGED vars \/ Mount \/ Render \/ TimerFires \/ PollTaskDeliveries
         \/ \E s \in Sessions : Edit(s) \/ Retitle(s) \/ DeleteHistoryItem(s)
         \/ \E t \in Turns : Message(t)
         \/ \E d \in Deliveries : RecordDelivery(d) \/ OnDelivery(d)
  PROVE  MessagesKept'
<1> USE DEF windowVars, saverVars, ipcVars, storeVars, deliveryVars, mishaps, counters
<1>1. UNCHANGED <<db, answers, undone>>
  BY DEF vars, Mount, Render, TimerFires, PollTaskDeliveries, Edit, Retitle, DeleteHistoryItem,
         Message, RecordDelivery, OnDelivery
<1>2. queue' = queue \/ \E c : queue' = queue \o <<c>>
  BY DEF vars, Mount, Render, TimerFires, PollTaskDeliveries, Edit, Retitle, DeleteHistoryItem,
         Message, RecordDelivery, OnDelivery, Flush, Invoke
<1>3. StillAccounted
  BY <1>1, <1>2, MayInvoke, MoreAccounted DEF TypeInv, CommandsTyped
<1>4. ShowsAccounted(history') /\ ShowsAccounted(latest')
  <2>1. ShowsAccounted(history) /\ ShowsAccounted(latest)
    BY DEF ShowsAccounted
  <2>2. CASE UNCHANGED <<history, latest>> \/ (latest' = history /\ history' = history)
    BY <2>1, <2>2
  <2>3. CASE \E s \in Sessions : Edit(s) \/ Retitle(s)
    <3>0. PICK s \in Sessions : Edit(s) \/ Retitle(s)
      BY <2>3
    <3>1. PICK stamp :
            /\ s \in DOMAIN history /\ latest' = latest
            /\ history' = Put(history, s, Item(history[s].turns, clock + 1, stamp))
      BY <3>0 DEF Edit, Retitle
    <3> DEFINE item == Item(history[s].turns, clock + 1, stamp)
    <3>2. item.turns = TurnsOf(history, s)
      BY <3>1 DEF Item, TurnsOf
    <3> HIDE DEF item
    <3>3. ShowsAccounted(Put(history, s, item))
      BY <3>2, TurnsPut DEF ShowsAccounted
    <3> QED
      BY <2>1, <3>1, <3>3 DEF item
  <2>4. CASE \E s \in Sessions : DeleteHistoryItem(s)
    <3>1. PICK s \in Sessions : history' = Drop(latest, s) /\ latest' = Drop(latest, s)
      BY <2>4 DEF DeleteHistoryItem, RemoveShown
    <3>2. ShowsAccounted(Drop(latest, s))
      BY DEF ShowsAccounted, Drop
    <3> QED
      BY <3>1, <3>2
  <2>5. CASE \E t \in Turns : Message(t)
    <3>1. PICK t \in Turns : Message(t)
      BY <2>5
    <3>2. latest' = latest /\ (history' = history \/ history' = WithTurn(history, t))
      BY <3>1 DEF Message
    <3>3. Accounted(Commands', answers', db', t)
      <4> DEFINE c == IF Home[t] \in DOMAIN latest THEN Appending(t) ELSE Creation(t, clock + 1)
      <4>1. IsWrite(c) /\ c.turn = t
        BY DEF Appending, Creation, IsWrite
      <4>2. queue' = queue \o <<c>>
        BY <3>1 DEF Message, Invoke
      <4> HIDE DEF c
      <4>3. c \in Commands'
        BY <4>2, PushedCommands DEF Commands, TypeInv, CommandsTyped
      <4> QED
        BY <4>1, <4>3 DEF Accounted
    <3>4. ShowsAccounted(WithTurn(history, t))
      BY <3>3, WithTurnShows DEF ShowsAccounted, TypeInv, WindowTyped
    <3> QED
      BY <2>1, <3>2, <3>4
  <2>6. CASE \E d \in Deliveries : OnDelivery(d)
    <3>1. PICK d \in Deliveries : latest' = latest /\ (history' = history \/ history' = WithTurn(history, d))
      BY <2>6 DEF OnDelivery
    <3>2. ShowsAccounted(WithTurn(history, d))
      BY WithTurnShows DEF ShowsAccounted, TypeInv, WindowTyped
    <3> QED
      BY <2>1, <3>1, <3>2
  <2>7. CASE PollTaskDeliveries
    <3>1. latest' = latest /\ DOMAIN history' = DOMAIN history
      BY <2>7 DEF PollTaskDeliveries
    <3>2. \A s \in DOMAIN history :
            history'[s] = history[s] \/ \E d \in Deliveries : Home[d] = s /\ history'[s] = WithTurn(history, d)[s]
      BY <2>7 DEF PollTaskDeliveries, Undelivered
    <3>3. ASSUME NEW s \in DOMAIN history, NEW t \in Listed(history'[s].turns) \ Deliveries
          PROVE  t \in Listed(history[s].turns)
      <4>1. CASE history'[s] = history[s]
        BY <3>3, <4>1
      <4>2. CASE \E d \in Deliveries : Home[d] = s /\ history'[s] = WithTurn(history, d)[s]
        <5>1. PICK d \in Deliveries : Home[d] = s /\ history'[s] = WithTurn(history, d)[s]
          BY <4>2
        <5>2. s \in DOMAIN WithTurn(history, d)
          BY <5>1 DEF WithTurn, Put
        <5>3. t = d \/ t \in Listed(history[s].turns)
          BY <3>3, <5>1, <5>2, WithTurnShows DEF TypeInv, WindowTyped
        <5> QED
          BY <3>3, <5>1, <5>3
      <4> QED
        BY <3>2, <4>1, <4>2
    <3>4. ShowsAccounted(history')
      BY <3>1, <3>3 DEF ShowsAccounted
    <3> QED
      BY <2>1, <3>1, <3>4
  <2>8. CASE \E d \in Deliveries : RecordDelivery(d)
    BY <2>2, <2>8 DEF RecordDelivery
  <2>9. CASE UNCHANGED vars \/ Mount \/ TimerFires \/ Render
    BY <2>2, <2>9 DEF vars, Mount, TimerFires, Render
  <2> QED
    BY <2>3, <2>4, <2>5, <2>6, <2>7, <2>8, <2>9
<1> QED
  BY <1>1, <1>3, <1>4, StepKeepsMessages DEF MessagesKept
-----------------------------------------------------------------------------
(* Commands and their answers                                                *)

LEMMA HandleKeepsMessages ==
  ASSUME TypeInv, MessagesKept, Handle
  PROVE  MessagesKept'
<1>1. PICK a \in answers : Created(a) \/ Appended(a) \/ Saved(a) \/ NotDeleted(a)
  BY DEF Handle
<1>2. ~NotDeleted(a) /\ (a.cmd = "create" => a.ok)
  BY DEF NotDeleted, MessagesKept, MessagesGranted, IsWrite
<1>3. /\ UNCHANGED <<db, undone, latest, history>> /\ answers' = answers \ {a}
      /\ queue' = queue \/ \E c : queue' = queue \o <<c>>
  BY <1>1, <1>2 DEF Created, Appended, Saved, SavedThen, Handles, Invoke, storeVars
<1>4. Commands \subseteq Commands'
  BY <1>3, MayInvoke DEF TypeInv, CommandsTyped
<1>5. a.cmd = "create" => \E c \in Commands' : IsWrite(c) /\ c.turn = a.of.turn
  <2> SUFFICES ASSUME a.cmd = "create" PROVE \E c \in Commands' : IsWrite(c) /\ c.turn = a.of.turn
    OBVIOUS
  <2> DEFINE c == Appending(a.of.turn)
  <2>1. IsWrite(c) /\ c.turn = a.of.turn
    BY DEF Appending, IsWrite
  <2>2. queue' = queue \o <<c>>
    BY <1>1, <1>2 DEF Created, Appended, Saved, Invoke
  <2> HIDE DEF c
  <2>3. c \in Commands'
    BY <2>2, PushedCommands DEF Commands, TypeInv, CommandsTyped
  <2> QED
    BY <2>1, <2>3
<1>6. StillAccounted
  BY <1>3, <1>4, <1>5, MoreAccounted
<1>7. MessagesGranted(answers')
  BY <1>3 DEF MessagesKept, MessagesGranted
<1>8. ShowsAccounted(history') /\ ShowsAccounted(latest')
  BY <1>3 DEF ShowsAccounted
<1> QED
  BY <1>3, <1>6, <1>7, <1>8, StepKeepsMessages DEF MessagesKept

(* The command that is executed may have accounted for a turn: an append has   *)
(* then stored it, and a creation is answered.                               *)
LEMMA ExecuteAccounts ==
  ASSUME TypeInv, Ordered, DeletionInv, Execute, ~Refuse, ~missed'
  PROVE  StillAccounted
<1> DEFINE c == Head(queue)
<1>1. queue # <<>> /\ queue' = Tail(queue)
  BY DEF Execute, Executes, ExecCreate, ExecAppend, ExecSave, ExecSaveBlocked, ExecDelete
<1>2. c \in Commands /\ \A e \in Commands : e = c \/ e \in Commands'
  <2>1. IsSeq(queue)
    BY DEF TypeInv, CommandsTyped
  <2>2. 1 \in DOMAIN queue /\ c = queue[1]
    BY <1>1, <2>1, Popped
  <2>3. \A i \in DOMAIN queue : i = 1 \/ (i - 1 \in DOMAIN Tail(queue) /\ Tail(queue)[i - 1] = queue[i])
    BY <1>1, <2>1 DEF IsSeq
  <2> QED
    BY <1>1, <2>2, <2>3 DEF Commands, Listed
<1>3. answers \subseteq answers'
  BY DEF Execute, ExecCreate, ExecAppend, ExecSave, ExecSaveBlocked, ExecDelete, Answers
<1>4. ASSUME c.cmd = "create"
      PROVE  \E a \in answers' : a.cmd = "create" /\ a.of.turn = c.turn
  <2>1. ExecCreate
    BY <1>4 DEF Execute, Executes, ExecAppend, ExecSave, ExecSaveBlocked, ExecDelete
  <2>2. Answer(c, TRUE) \in answers'
    BY <2>1 DEF ExecCreate, Answers
  <2>3. Answer(c, TRUE).cmd = "create" /\ Answer(c, TRUE).of = c
    BY <1>4 DEF Answer
  <2> QED
    BY <2>2, <2>3
<1>5. ASSUME c.cmd = "append"
      PROVE  Home[c.turn] \in DOMAIN db' /\ c.turn \in DOMAIN db'[Home[c.turn]].rows
  <2>1. ExecAppend
    BY <1>5 DEF Execute, Executes, ExecCreate, ExecSave, ExecSaveBlocked, ExecDelete
  <2>2. Home[c.turn] \in DOMAIN db
    BY <2>1 DEF ExecAppend
  <2> QED
    BY <2>1, <2>2 DEF ExecAppend, Put, Record
<1>6. KeepsOrDeletes
  BY ExecuteKeeps
<1> SUFFICES ASSUME NEW s \in DOMAIN history \cup DOMAIN latest, NEW t \in Turns, Home[t] = s,
                    Accounted(Commands, answers, db, t)
             PROVE  Accounted(Commands', answers', db', t)
  BY DEF StillAccounted
<1>7. ~Deleting(s)
  BY <1>2, ShownIsNotDeleted DEF Deleting, Deletes
<1>8. CASE \E e \in Commands : IsWrite(e) /\ e.turn = t
  BY <1>2, <1>4, <1>5, <1>8 DEF IsWrite, Accounted
<1>9. CASE \E a \in answers : a.cmd = "create" /\ a.of.turn = t
  BY <1>3, <1>9 DEF Accounted
<1>10. CASE Home[t] \in DOMAIN db /\ t \in DOMAIN db[Home[t]].rows
  BY <1>6, <1>7, <1>10 DEF KeepsOrDeletes, Accounted
<1> QED
  BY <1>8, <1>9, <1>10 DEF Accounted

LEMMA ExecuteKeepsMessages ==
  ASSUME TypeInv, Ordered, DeletionInv, MessagesKept, Execute, failures = 0, failures' = 0, ~missed'
  PROVE  MessagesKept'
<1>1. ~Refuse
  BY DEF Refuse
<1>2. StillAccounted
  BY <1>1, ExecuteAccounts
<1>3. UNCHANGED <<history, latest, undone>>
  BY <1>1 DEF Execute, ExecCreate, ExecAppend, ExecSave, ExecSaveBlocked, ExecDelete, Executes, windowVars
<1>4. MessagesGranted(answers')
  <2>1. ASSUME NEW a \in answers' \ answers
        PROVE  (IsWrite(a) => a.ok) /\ a.cmd # "delete"
    <3>1. Head(queue).cmd \in {"create", "append", "save"} \/ answers' = answers
      BY <1>1 DEF Execute, ExecCreate, ExecAppend, ExecSave, ExecSaveBlocked, ExecDelete, Executes
    <3>2. \E ok : a = Answer(Head(queue), ok) /\ (ok \/ Head(queue).cmd = "save")
      <4>1. CASE ExecCreate
        BY <2>1, <4>1 DEF ExecCreate, Answers
      <4>2. CASE ExecAppend
        BY <2>1, <4>2 DEF ExecAppend, Answers
      <4>3. CASE ExecSave \/ ExecSaveBlocked
        BY <2>1, <4>3 DEF ExecSave, ExecSaveBlocked, Executes, Answers
      <4>4. CASE ExecDelete
        BY <2>1, <4>4 DEF ExecDelete
      <4> QED
        BY <1>1, <4>1, <4>2, <4>3, <4>4 DEF Execute
    <3>3. PICK ok : a = Answer(Head(queue), ok) /\ (ok \/ Head(queue).cmd = "save")
      BY <3>2
    <3>4. a.cmd = Head(queue).cmd /\ a.ok = ok
      BY <3>3 DEF Answer
    <3> QED
      BY <2>1, <3>1, <3>3, <3>4 DEF IsWrite
  <2> QED
    BY <2>1 DEF MessagesKept, MessagesGranted
<1>5. ShowsAccounted(history') /\ ShowsAccounted(latest')
  BY <1>3 DEF ShowsAccounted
<1> QED
  BY <1>2, <1>3, <1>4, <1>5, StepKeepsMessages DEF MessagesKept

-----------------------------------------------------------------------------
(* Start and end of the application                                          *)

LEMMA CrashKeepsMessages ==
  ASSUME MessagesKept, Crash
  PROVE  MessagesKept'
<1>1. history' = Nothing /\ latest' = Nothing /\ answers' = {} /\ undone' = undone
  BY DEF Crash
<1>2. ShownAccounted(Nothing, Commands', answers', db')
  BY EmptyCommands DEF ShownAccounted
<1> QED
  BY <1>1, <1>2 DEF MessagesKept, MessagesGranted

(* What loads without a failure is shown as it is stored.                      *)
LEMMA HydrateKeepsMessages ==
  ASSUME TypeInv, NothingUnderWay, MessagesKept, Hydrate, failures = 0, failures' = 0
  PROVE  MessagesKept'
<1>1. UNCHANGED <<latest, answers, undone>> /\ DOMAIN latest = {}
  BY DEF Hydrate, mishaps, NothingUnderWay
<1>2. PICK whole \in BOOLEAN, y \in Yields(db') :
         /\ IF whole THEN Loads ELSE LoadStops
         /\ whole \/ y.failed = 1
         /\ failures' = failures + y.failed
         /\ history' = y.history
  BY DEF Hydrate
<1>3. db' = Loaded /\ history' = Exported(Loaded)
  <2>1. y.failed = 0 \/ y.failed = 1
    BY <1>2 DEF Yields
  <2>2. y.failed = 0
    BY <1>2, <2>1
  <2>3. Loads
    BY <1>2, <2>2
  <2>4. y.failed = 0 => y.history = Exported(db')
    BY <1>2 DEF Yields
  <2> QED
    BY <1>2, <2>2, <2>3, <2>4 DEF Loads
<1> DEFINE e == Loaded
           h == Exported(e)
<1>4. TypedStore(e)
  BY DEF Loaded, TypeInv, StoreTyped
<1>5. DOMAIN h = DOMAIN e /\ \A s \in DOMAIN e : h[s].turns = InOrder(e[s].rows)
  BY DEF Exported, Item
<1> HIDE DEF e, h
<1>6. ShownAccounted(h, Commands', answers', e)
  <2> SUFFICES ASSUME NEW s \in DOMAIN e, NEW t \in Listed(InOrder(e[s].rows))
               PROVE  Home[t] = s /\ t \in DOMAIN e[s].rows
    BY <1>5 DEF ShownAccounted, Accounted
  <2> DEFINE rows == e[s].rows
  <2>1. IsRows(rows, s)
    BY <1>4 DEF TypedStore
  <2> HIDE DEF rows
  <2>2. InOrder(rows) \in [1..Cardinality(DOMAIN rows) -> DOMAIN rows]
    BY <2>1, OrderExists DEF InOrder
  <2>3. t \in DOMAIN rows
    BY <2>2 DEF Listed, rows
  <2> QED
    BY <2>1, <2>3 DEF IsRows, rows
<1>7. ShownAccounted(latest', Commands', answers', db')
  BY <1>1 DEF ShownAccounted
<1> QED
  BY <1>1, <1>3, <1>6, <1>7 DEF MessagesKept, e, h

LEMMA NextKeepsMessages ==
  ASSUME TypeInv, DeletedInv, MessagesInv, [Next]_vars
  PROVE  MessagesInv'
<1>1. failures' \in Nat /\ (failures' = 0 => failures = 0) /\ (missed => missed')
  BY CountsUp, MishapsStay DEF MessagesInv
<1> SUFFICES ASSUME failures' = 0, ~missed' PROVE MessagesKept'
  BY <1>1 DEF MessagesInv
<1>2. MessagesKept /\ failures = 0
  BY <1>1 DEF MessagesInv
<1>3. Ordered /\ NothingUnderWay /\ DeletionInv
  BY <1>2 DEF DeletedInv, MessagesKept
<1>4. CASE Hydrate \/ Crash
  BY <1>2, <1>3, <1>4, HydrateKeepsMessages, CrashKeepsMessages
<1>5. CASE Execute \/ Handle
  BY <1>2, <1>3, <1>5, ExecuteKeepsMessages, HandleKeepsMessages
<1>6. CASE ~(Hydrate \/ Crash \/ Execute \/ Handle)
  <2>1. \/ UNCHANGED vars \/ Mount \/ Render \/ TimerFires \/ PollTaskDeliveries
        \/ \E s \in Sessions : Edit(s) \/ Retitle(s) \/ DeleteHistoryItem(s)
        \/ \E t \in Turns : Message(t)
        \/ \E d \in Deliveries : RecordDelivery(d) \/ OnDelivery(d)
    BY <1>6 DEF Next
  <2> QED
    BY <1>2, <2>1, WindowKeepsMessages
<1> QED
  BY <1>4, <1>5, <1>6

(* If SQLite refuses nothing, no message is lost, in whatever bursts messages   *)
(* and deletions come and wherever the application ends: when the window is     *)
(* idle each message that it shows is stored, though saves may fail for good.  *)
THEOREM NoMessageIsLost == Spec => []NoMessageLost
<1>1. Init => TypeInv /\ DeletedInv /\ MessagesInv
  <2>1. Init => DeletedInv
    BY InitIInv, InitDeletes DEF IInv, Ordered, DeletedInv, Init
  <2>2. Init => MessagesInv
    BY EmptyCommands DEF Init, MessagesInv, MessagesKept, MessagesGranted, ShownAccounted
  <2> QED
    BY <2>1, <2>2, InitTyped
<1>2. TypeInv /\ DeletedInv /\ MessagesInv /\ [Next]_vars => (TypeInv /\ DeletedInv /\ MessagesInv)'
  BY NextTyped, NextDeletedInv, NextKeepsMessages
<1>3. TypeInv /\ MessagesInv => NoMessageLost
  <2> SUFFICES ASSUME TypeInv, MessagesInv, Idle, failures = 0, ~missed,
                      NEW s \in DOMAIN history, NEW t \in Listed(history[s].turns) \ Deliveries
               PROVE  s \in DOMAIN db /\ t \in DOMAIN db[s].rows
    BY DEF NoMessageLost
  <2>1. Commands = {} /\ answers = {}
    BY EmptyCommands DEF Idle, Commands
  <2>2. Accounted(Commands, answers, db, t)
    BY DEF MessagesInv, MessagesKept, ShownAccounted
  <2>3. Home[t] = s
    BY ShownTurns DEF TypeInv, WindowTyped
  <2> QED
    BY <2>1, <2>2, <2>3 DEF Accounted
<1> QED
  BY <1>1, <1>2, <1>3, PTL DEF Spec
=============================================================================
