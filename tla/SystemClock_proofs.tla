------------------------- MODULE SystemClock_proofs -------------------------
(***************************************************************************)
(* Proofs about the system clock, for every width of the counter, every    *)
(* set of alarms, delays and periods and every tick rate: the list stays   *)
(* whole while it is walked, alarms run at their tick, and the time of day *)
(* is the time that was set and what has passed since.                     *)
(***************************************************************************)
EXTENDS SystemClock, TLAPS

-----------------------------------------------------------------------------
(* The list, as links and as an order that the links follow.               *)

Head == alt_alarm_list
In(nx) == {a \in Alarms : nx[a] # a}

Linked(nx, pv) ==
  /\ nx \in [Nodes -> Nodes] /\ pv \in [Nodes -> Nodes]
  /\ \A l \in Nodes : pv[nx[l]] = l /\ nx[pv[l]] = l

\* From the head on the links go through all that is in the list, in the order
\* of their ranks.
Ordered(nx, rank) ==
  /\ rank \in [Nodes -> Int]
  /\ \A a \in In(nx) : nx[a] # Head => rank[a] < rank[nx[a]]
  /\ \A a, b \in In(nx) : rank[a] < rank[b] => nx[a] # Head /\ rank[nx[a]] <= rank[b]
  /\ \A b \in In(nx) : nx[Head] # Head /\ rank[nx[Head]] <= rank[b]
  /\ \A a, b \in In(nx) : rank[a] = rank[b] => a = b

LEMMA NodesAre ==
  /\ Nodes = Alarms \union {Head} /\ Head \in Nodes /\ Head \notin Alarms
  BY AlarmsAssumption DEF Nodes, Head

\* What follows something in the list is in the list, or the head.
LEMMA Follows ==
  ASSUME NEW nx, NEW pv, Linked(nx, pv), NEW l \in Nodes, l = Head \/ nx[l] # l
  PROVE  nx[l] = Head \/ nx[l] \in In(nx)
  <1> SUFFICES ASSUME nx[l] # Head, nx[l] \notin In(nx)
               PROVE  FALSE
    OBVIOUS
  <1>1. nx[l] \in Nodes
    BY DEF Linked
  <1>2. nx[l] \in Alarms /\ nx[nx[l]] = nx[l]
    BY <1>1, NodesAre DEF In
  <1>3. pv[nx[l]] = l /\ pv[nx[nx[l]]] = nx[l]
    BY <1>1 DEF Linked
  <1>4. nx[l] = l
    BY <1>2, <1>3
  <1> QED
    BY <1>4, NodesAre

\* A removal, by its links.
Unlinks(nx, pv, entry, nx2, pv2) ==
  /\ nx2 \in [Nodes -> Nodes] /\ pv2 \in [Nodes -> Nodes]
  /\ nx2[entry] = entry /\ pv2[entry] = entry
  /\ nx[entry] # entry => nx2[pv[entry]] = nx[entry] /\ pv2[nx[entry]] = pv[entry]
  /\ \A l \in Nodes \ {entry, pv[entry]} : nx2[l] = nx[l]
  /\ \A l \in Nodes \ {entry, nx[entry]} : pv2[l] = pv[l]

LEMMA Unlinking ==
  ASSUME NEW entry \in Alarms, Linked(next, previous), alt_llist_remove(entry)
  PROVE  Unlinks(next, previous, entry, next', previous')
  <1>1. entry \in Nodes /\ next[entry] \in Nodes /\ previous[entry] \in Nodes
    BY NodesAre DEF Linked
  <1>2. next \in [Nodes -> Nodes] /\ previous \in [Nodes -> Nodes]
    BY DEF Linked
  <1>3. next[entry] # entry => previous[entry] # entry
    BY <1>1 DEF Linked
  <1> QED
    BY <1>1, <1>2, <1>3 DEF Unlinks, alt_llist_remove

LEMMA Removed ==
  ASSUME NEW nx, NEW pv, NEW nx2, NEW pv2, NEW rank, NEW entry \in Alarms,
         Linked(nx, pv), Ordered(nx, rank), Unlinks(nx, pv, entry, nx2, pv2)
  PROVE  Linked(nx2, pv2) /\ In(nx2) = In(nx) \ {entry} /\ Ordered(nx2, rank)
  <1> DEFINE p == pv[entry]
             n == nx[entry]
  <1>1. entry \in Nodes /\ entry # Head /\ p \in Nodes /\ n \in Nodes
    BY NodesAre DEF Linked
  <1>2. /\ nx \in [Nodes -> Nodes] /\ pv \in [Nodes -> Nodes]
        /\ \A l \in Nodes : pv[nx[l]] = l /\ nx[pv[l]] = l
    BY DEF Linked
  <1>3. CASE n = entry
    <2>1. p = entry
      BY <1>1, <1>2, <1>3
    <2>2. \A l \in Nodes : nx2[l] = nx[l] /\ pv2[l] = pv[l]
      BY <1>1, <1>2, <1>3, <2>1 DEF Unlinks
    <2>3. nx2 = nx /\ pv2 = pv
      BY <1>2, <2>2 DEF Unlinks
    <2>4. entry \notin In(nx)
      BY <1>3 DEF In
    <2> QED
      BY <2>3, <2>4
  <1>4. CASE n # entry
    <2>1. p # entry /\ nx[p] = entry /\ pv[n] = entry
      BY <1>1, <1>2, <1>4
    <2>2. /\ nx2[entry] = entry /\ nx2[p] = n /\ \A l \in Nodes \ {entry, p} : nx2[l] = nx[l]
          /\ pv2[entry] = entry /\ pv2[n] = p /\ \A l \in Nodes \ {entry, n} : pv2[l] = pv[l]
          /\ nx2 \in [Nodes -> Nodes] /\ pv2 \in [Nodes -> Nodes]
      BY <1>4 DEF Unlinks
    <2>3. Linked(nx2, pv2)
      <3>1. ASSUME NEW l \in Nodes
            PROVE  pv2[nx2[l]] = l
        <4>1. CASE l = entry \/ l = p
          BY <2>2, <4>1
        <4>2. CASE l # entry /\ l # p
          <5>1. nx2[l] = nx[l] /\ nx[l] \in Nodes /\ pv[nx[l]] = l
            BY <1>2, <2>2, <4>2
          <5>2. nx[l] # entry /\ nx[l] # n
            BY <2>1, <4>2, <5>1
          <5> QED
            BY <2>2, <5>1, <5>2
        <4> QED
          BY <4>1, <4>2
      <3>2. ASSUME NEW l \in Nodes
            PROVE  nx2[pv2[l]] = l
        <4>1. CASE l = entry \/ l = n
          BY <2>2, <4>1
        <4>2. CASE l # entry /\ l # n
          <5>1. pv2[l] = pv[l] /\ pv[l] \in Nodes /\ nx[pv[l]] = l
            BY <1>2, <2>2, <4>2
          <5>2. pv[l] # entry /\ pv[l] # p
            BY <2>1, <4>2, <5>1
          <5> QED
            BY <2>2, <5>1, <5>2
        <4> QED
          BY <4>1, <4>2
      <3> QED
        BY <2>2, <3>1, <3>2 DEF Linked
    <2>4. entry \in In(nx) /\ (n = Head \/ n \in In(nx)) /\ (p = Head \/ p \in In(nx))
      BY <1>1, <1>4, <2>1, NodesAre, Follows DEF In
    <2>5. rank \in [Nodes -> Int] /\ rank[p] \in Int /\ rank[n] \in Int /\ rank[entry] \in Int
      BY <1>1 DEF Ordered
    <2>6. p \in In(nx) => rank[p] < rank[entry]
      BY <1>1, <2>1 DEF Ordered
    <2>7. n # Head => rank[entry] < rank[n]
      BY <2>4 DEF Ordered
    <2>8. p \in In(nx) => p # n
      <3> SUFFICES ASSUME p \in In(nx), p = n
                   PROVE  FALSE
        OBVIOUS
      <3>1. p # Head
        BY NodesAre DEF In
      <3> QED
        BY <2>5, <2>6, <2>7, <3>1
    <2>9. In(nx2) = In(nx) \ {entry}
      BY <2>1, <2>2, <2>8, NodesAre DEF In
    <2>10. ASSUME NEW a \in In(nx2), nx2[a] # Head
           PROVE  rank[a] < rank[nx2[a]]
      <3>1. a \in In(nx) /\ a # entry /\ a \in Nodes
        BY <2>9, NodesAre DEF In
      <3>2. CASE a = p
        BY <2>2, <2>5, <2>6, <2>7, <2>10, <3>1, <3>2
      <3>3. CASE a # p
        BY <2>2, <2>10, <3>1, <3>3 DEF Ordered
      <3> QED
        BY <3>2, <3>3
    <2>11. ASSUME NEW a \in In(nx2), NEW b \in In(nx2), rank[a] < rank[b]
           PROVE  nx2[a] # Head /\ rank[nx2[a]] <= rank[b]
      <3>1. a \in In(nx) /\ a # entry /\ a \in Nodes /\ b \in In(nx) /\ b # entry /\ b \in Nodes
        BY <2>9, NodesAre DEF In
      <3>2. nx[a] # Head /\ rank[nx[a]] <= rank[b]
        BY <2>11, <3>1 DEF Ordered
      <3>3. CASE a = p
        <4>1. rank[entry] <= rank[b] /\ rank[entry] # rank[b]
          BY <2>1, <2>4, <3>1, <3>2, <3>3 DEF Ordered
        <4>2. rank[entry] < rank[b]
          BY <2>5, <3>1, <4>1
        <4>3. n # Head /\ rank[n] <= rank[b]
          BY <2>4, <3>1, <4>2 DEF Ordered
        <4> QED
          BY <2>2, <3>3, <4>3
      <3>4. CASE a # p
        BY <2>2, <3>1, <3>2, <3>4
      <3> QED
        BY <3>3, <3>4
    <2>12. ASSUME NEW b \in In(nx2)
           PROVE  nx2[Head] # Head /\ rank[nx2[Head]] <= rank[b]
      <3>1. b \in In(nx) /\ b # entry /\ b \in Nodes
        BY <2>9, NodesAre DEF In
      <3>2. nx[Head] # Head /\ rank[nx[Head]] <= rank[b]
        BY <3>1 DEF Ordered
      <3>3. CASE p = Head
        <4>1. rank[entry] <= rank[b] /\ rank[entry] # rank[b]
          BY <2>1, <2>4, <3>1, <3>2, <3>3 DEF Ordered
        <4>2. rank[entry] < rank[b]
          BY <2>5, <3>1, <4>1
        <4>3. n # Head /\ rank[n] <= rank[b]
          BY <2>4, <3>1, <4>2 DEF Ordered
        <4> QED
          BY <2>2, <3>3, <4>3
      <3>4. CASE p # Head
        <4>1. nx2[Head] = nx[Head]
          BY <1>1, <2>2, <3>4, NodesAre
        <4> QED
          BY <3>2, <4>1
      <3> QED
        BY <3>3, <3>4
    <2>13. \A a, b \in In(nx2) : rank[a] = rank[b] => a = b
      BY <2>9 DEF Ordered
    <2>14. Ordered(nx2, rank)
      BY <2>5, <2>10, <2>11, <2>12, <2>13 DEF Ordered
    <2> QED
      BY <2>3, <2>9, <2>14
  <1> QED
    BY <1>3, <1>4

LEMMA Between ==
  ASSUME NEW x \in Int, NEW y \in Int, NEW z \in Int, x < y
  PROVE  (y <= z => x < z) /\ ~(y < x) /\ x # y
  OBVIOUS

\* An insertion at the head, by its links.
Links(nx, pv, entry, nx2, pv2) ==
  /\ nx2 \in [Nodes -> Nodes] /\ pv2 \in [Nodes -> Nodes]
  /\ nx2[Head] = entry /\ nx2[entry] = nx[Head]
  /\ pv2[entry] = Head /\ pv2[nx[Head]] = entry
  /\ \A l \in Nodes \ {entry, Head} : nx2[l] = nx[l]
  /\ \A l \in Nodes \ {entry, nx[Head]} : pv2[l] = pv[l]

LEMMA Linking ==
  ASSUME NEW entry \in Alarms, Linked(next, previous), ~listed(entry), alt_llist_insert(entry)
  PROVE  Links(next, previous, entry, next', previous')
  <1>1. entry \in Nodes /\ Head \in Nodes /\ entry # Head /\ next[Head] \in Nodes
    BY NodesAre DEF Linked
  <1>2. next \in [Nodes -> Nodes] /\ previous \in [Nodes -> Nodes]
    BY DEF Linked
  <1>3. next[Head] # entry
    <2>1. next[entry] = entry
      BY DEF listed
    <2> QED
      BY <1>1, <2>1 DEF Linked
  <1> QED
    BY <1>1, <1>2, <1>3 DEF Links, alt_llist_insert, Head

LEMMA Inserted ==
  ASSUME NEW nx, NEW pv, NEW nx2, NEW pv2, NEW rank, NEW entry \in Alarms, nx[entry] = entry,
         Linked(nx, pv), Ordered(nx, rank), Links(nx, pv, entry, nx2, pv2)
  PROVE  /\ Linked(nx2, pv2) /\ In(nx2) = In(nx) \union {entry}
         /\ \E r : Ordered(nx2, r) /\ \A l \in Nodes \ {entry} : r[l] = rank[l]
  <1> DEFINE f == nx[Head]
  <1>1. entry \in Nodes /\ entry # Head /\ f \in Nodes /\ Head \in Nodes
    BY NodesAre DEF Linked
  <1>2. /\ nx \in [Nodes -> Nodes] /\ pv \in [Nodes -> Nodes]
        /\ \A l \in Nodes : pv[nx[l]] = l /\ nx[pv[l]] = l
    BY DEF Linked
  <1>3. f # entry /\ pv[entry] = entry /\ pv[f] = Head /\ entry \notin In(nx)
    BY <1>1, <1>2 DEF In
  <1>4. /\ nx2[Head] = entry /\ nx2[entry] = f /\ \A l \in Nodes \ {entry, Head} : nx2[l] = nx[l]
        /\ pv2[entry] = Head /\ pv2[f] = entry /\ \A l \in Nodes \ {entry, f} : pv2[l] = pv[l]
        /\ nx2 \in [Nodes -> Nodes] /\ pv2 \in [Nodes -> Nodes]
    BY DEF Links
  <1>5. Linked(nx2, pv2)
    <2>1. ASSUME NEW l \in Nodes
          PROVE  pv2[nx2[l]] = l
      <3>1. CASE l = entry \/ l = Head
        BY <1>4, <3>1
      <3>2. CASE l # entry /\ l # Head
        <4>1. nx2[l] = nx[l] /\ nx[l] \in Nodes /\ pv[nx[l]] = l
          BY <1>2, <1>4, <3>2
        <4>2. nx[l] # entry /\ nx[l] # f
          BY <1>3, <3>2, <4>1
        <4> QED
          BY <1>4, <4>1, <4>2
      <3> QED
        BY <3>1, <3>2
    <2>2. ASSUME NEW l \in Nodes
          PROVE  nx2[pv2[l]] = l
      <3>1. CASE l = entry \/ l = f
        BY <1>4, <3>1
      <3>2. CASE l # entry /\ l # f
        <4>1. pv2[l] = pv[l] /\ pv[l] \in Nodes /\ nx[pv[l]] = l
          BY <1>2, <1>4, <3>2
        <4>2. pv[l] # entry /\ pv[l] # Head
          BY <1>2, <1>3, <3>2, <4>1
        <4> QED
          BY <1>4, <4>1, <4>2
      <3> QED
        BY <3>1, <3>2
    <2> QED
      BY <1>4, <2>1, <2>2 DEF Linked
  <1>6. In(nx2) = In(nx) \union {entry}
    BY <1>1, <1>3, <1>4, NodesAre DEF In
  <1>7. f = Head \/ f \in In(nx)
    BY <1>1, Follows
  <1> DEFINE r == [rank EXCEPT ![entry] = IF f = Head THEN 0 ELSE rank[f] - 1]
  <1>8. rank \in [Nodes -> Int] /\ rank[f] \in Int
    BY <1>1 DEF Ordered
  <1>9. /\ r \in [Nodes -> Int] /\ \A l \in Nodes \ {entry} : r[l] = rank[l]
        /\ r[entry] \in Int
        /\ f # Head => r[entry] < rank[f]
    BY <1>1, <1>8
  <1>10. \A b \in In(nx) : f # Head /\ rank[f] <= rank[b] /\ b \in Nodes /\ b # entry /\ b # Head
    BY <1>3, NodesAre DEF Ordered, In
  <1> HIDE DEF r
  <1>11. \A b \in In(nx) : r[b] = rank[b] /\ r[entry] < r[b]
    <2> SUFFICES ASSUME NEW b \in In(nx)
                 PROVE  r[b] = rank[b] /\ r[entry] < r[b]
      OBVIOUS
    <2>1. f # Head /\ rank[f] <= rank[b] /\ b \in Nodes /\ b # entry
      BY <1>10
    <2>2. r[b] = rank[b] /\ rank[b] \in Int
      BY <1>8, <1>9, <2>1
    <2>3. r[entry] < rank[f] /\ r[entry] \in Int /\ rank[f] \in Int
      BY <1>8, <1>9, <2>1
    <2>4. r[entry] < rank[b]
      BY <2>1, <2>2, <2>3, Between
    <2> QED
      BY <2>2, <2>4
  <1>12. ASSUME NEW a \in In(nx2), nx2[a] # Head
         PROVE  r[a] < r[nx2[a]]
    <2>1. CASE a = entry
      BY <1>4, <1>7, <1>11, <1>12, <2>1
    <2>2. CASE a # entry
      <3>1. a \in In(nx) /\ nx2[a] = nx[a] /\ a \in Nodes
        BY <1>4, <1>6, <1>10, <2>2
      <3>2. nx[a] \in In(nx) /\ rank[a] < rank[nx[a]]
        BY <1>12, <3>1, Follows DEF Ordered, In
      <3> QED
        BY <1>11, <3>1, <3>2
    <2> QED
      BY <2>1, <2>2
  <1>13. ASSUME NEW a \in In(nx2), NEW b \in In(nx2), r[a] < r[b]
         PROVE  nx2[a] # Head /\ r[nx2[a]] <= r[b]
    <2>0. b # entry
      <3> SUFFICES ASSUME b = entry
                   PROVE  FALSE
        OBVIOUS
      <3>1. a \in Nodes /\ (a = entry \/ r[entry] < r[a])
        BY <1>6, <1>11, NodesAre DEF In
      <3>2. r[a] \in Int
        BY <1>9, <3>1
      <3>3. r[a] < r[entry] /\ r[entry] \in Int
        BY <1>9, <1>13
      <3>4. CASE a = entry
        BY <3>3, <3>4
      <3>5. CASE r[entry] < r[a]
        BY <3>2, <3>3, <3>5, Between
      <3> QED
        BY <3>1, <3>4, <3>5
    <2>1. b \in In(nx)
      BY <1>6, <2>0
    <2>2. CASE a = entry
      <3>1. f # Head /\ f \in In(nx) /\ rank[f] <= rank[b]
        BY <1>7, <1>10, <2>1
      <3> QED
        BY <1>4, <1>11, <2>1, <2>2, <3>1
    <2>3. CASE a # entry
      <3>1. a \in In(nx) /\ nx2[a] = nx[a] /\ a \in Nodes /\ nx[a] # a
        BY <1>4, <1>6, <1>10, <2>3 DEF In
      <3>2. rank[a] < rank[b]
        BY <1>11, <1>13, <2>1, <3>1
      <3>3. nx[a] # Head /\ rank[nx[a]] <= rank[b]
        BY <2>1, <3>1, <3>2 DEF Ordered
      <3>4. nx[a] \in In(nx)
        BY <3>1, <3>3, Follows
      <3> QED
        BY <1>11, <2>1, <3>1, <3>3, <3>4
    <2> QED
      BY <2>2, <2>3
  <1>14. ASSUME NEW b \in In(nx2)
         PROVE  nx2[Head] # Head /\ r[nx2[Head]] <= r[b]
    <2>1. nx2[Head] = entry /\ b \in Nodes /\ r[b] \in Int
      BY <1>4, <1>9, NodesAre DEF In
    <2>2. b = entry \/ r[entry] < r[b]
      BY <1>6, <1>11
    <2> QED
      BY <1>1, <1>9, <2>1, <2>2
  <1>15. ASSUME NEW a \in In(nx2), NEW b \in In(nx2), r[a] = r[b]
         PROVE  a = b
    <2>1. CASE a = entry \/ b = entry
      <3>1. \A c \in In(nx) : r[entry] # r[c]
        <4> TAKE c \in In(nx)
        <4>1. r[entry] < r[c] /\ r[c] \in Int
          BY <1>9, <1>10, <1>11
        <4> QED
          BY <1>9, <4>1
      <3> QED
        BY <1>6, <1>15, <2>1, <3>1
    <2>2. CASE a # entry /\ b # entry
      BY <1>6, <1>11, <1>15, <2>2 DEF Ordered
    <2> QED
      BY <2>1, <2>2
  <1>16. Ordered(nx2, r)
    BY <1>9, <1>12, <1>13, <1>14, <1>15 DEF Ordered
  <1> QED
    BY <1>5, <1>6, <1>9, <1>16
-----------------------------------------------------------------------------
(* Times, modulo the span of the counter.                                  *)

Now == 0 .. Span - 1

LEMMA SpanIs == Span \in Nat /\ Span >= 1 /\ 0 \in Now
  BY SpanAssumption DEF Now

LEMMA Modulo ==
  ASSUME NEW x \in Nat, x < 2 * Span
  PROVE  x % Span = IF x < Span THEN x ELSE x - Span
  BY SpanAssumption

\* A time p ticks ahead, and whether it lies beyond the rollover.
LEMMA Ahead ==
  ASSUME NEW t \in Now, NEW p \in Nat, p >= 1, p <= Span - 1
  PROVE  /\ (t + p) % Span \in Now
         /\ (t + p) % Span < t => t # 0 /\ ((t + p) % Span) + Span - t = p
         /\ ~((t + p) % Span < t) => t < (t + p) % Span /\ ((t + p) % Span) - t = p
  <1>1. t \in Nat /\ t <= Span - 1 /\ Span \in Nat /\ t + p \in Nat /\ t + p < 2 * Span
    BY SpanIs DEF Now
  <1>2. (t + p) % Span = IF t + p < Span THEN t + p ELSE t + p - Span
    BY <1>1, Modulo
  <1> QED
    BY <1>1, <1>2 DEF Now

LEMMA NextNow ==
  ASSUME NEW t \in Now
  PROVE  (t + 1) % Span = IF t = Span - 1 THEN 0 ELSE t + 1
  <1>1. t \in Nat /\ t <= Span - 1 /\ Span \in Nat /\ t + 1 \in Nat /\ (t + 1 < 2 * Span \/ t = Span - 1)
    BY SpanIs DEF Now
  <1> QED
    BY <1>1, SpanIs, Modulo DEF Now

-----------------------------------------------------------------------------
(* The invariant.                                                          *)

listing == In(next)

\* A flag says that the time lies beyond the rollover.
beyond(a) == rollover[a] /\ _alt_nticks # 0

\* What alt_tick has to see to before the tick ends: an alarm that is due, or
\* whose rollover has come.
Pending(a) == ~beyond(a) /\ (rollover[a] \/ time[a] = _alt_nticks)

ClockTypes ==
  /\ _alt_nticks \in Now
  /\ time \in [Alarms -> Now \union {Off}] /\ rollover \in [Alarms -> BOOLEAN]
  /\ alarm \in Nodes /\ saved \in Nodes /\ ticking \in {"off", "look", "callback"}

Times_ahead ==
  \A a \in listing : time[a] \in Now /\ (~beyond(a) => _alt_nticks <= time[a])

\* The walk has what is pending before it.
Looking(rank) ==
  /\ alarm = Head \/ alarm \in listing
  /\ \A a \in listing : Pending(a) => alarm # Head /\ rank[alarm] <= rank[a]

Calling(rank) ==
  /\ alarm \in Alarms /\ saved # alarm /\ (saved = Head \/ saved \in listing)
  /\ time[alarm] \in Now
  /\ alarm \in listing => ~rollover[alarm] /\ time[alarm] = _alt_nticks
  /\ \A a \in listing \ {alarm} : Pending(a) => saved # Head /\ rank[saved] <= rank[a]

Walking(rank) ==
  /\ ticking = "off" => \A a \in listing : ~Pending(a)
  /\ ticking = "look" => Looking(rank)
  /\ ticking = "callback" => Calling(rank)

ClockInv ==
  /\ ClockTypes /\ Linked(next, previous) /\ Times_ahead
  /\ \E rank : Ordered(next, rank) /\ Walking(rank)

LEMMA ListingIs ==
  /\ listing \subseteq Alarms /\ listing \subseteq Nodes /\ Head \notin listing
  /\ \A a \in Alarms : listed(a) <=> a \in listing
  BY NodesAre DEF listing, In, listed

LEMMA OffIs == Off \notin Now
  BY OffAssumption, SpanAssumption DEF Now

\* The ticks that are left to something in the list.
LEMMA LeftIs ==
  ASSUME ClockTypes, Times_ahead, NEW a \in listing
  PROVE  /\ beyond(a) => ticks_left(a) = time[a] + Span - _alt_nticks
         /\ ~beyond(a) => ticks_left(a) = time[a] - _alt_nticks
         /\ ticks_left(a) \in Nat
         /\ ticks_left(a) = 0 <=> ~beyond(a) /\ time[a] = _alt_nticks
  <1>1. a \in Alarms /\ listed(a)
    BY ListingIs
  <1>2. beyond(a) => ticks_left(a) = time[a] + Span - _alt_nticks
    BY <1>1 DEF ticks_left, beyond
  <1>3. ~beyond(a) => ticks_left(a) = time[a] - _alt_nticks
    BY <1>1 DEF ticks_left, beyond
  <1>4. time[a] \in Now /\ _alt_nticks \in Now /\ (~beyond(a) => _alt_nticks <= time[a])
    BY DEF ClockTypes, Times_ahead
  <1>5. /\ time[a] \in Nat /\ _alt_nticks \in Nat /\ Span \in Nat /\ _alt_nticks <= Span - 1
    BY <1>4, SpanIs DEF Now
  <1> HIDE DEF ticks_left, beyond
  <1>6. CASE beyond(a)
    BY <1>2, <1>5, <1>6
  <1>7. CASE ~beyond(a)
    BY <1>3, <1>4, <1>5, <1>7
  <1> QED
    BY <1>2, <1>3, <1>6, <1>7

LEMMA NotLeft ==
  ASSUME NEW a \in Alarms, a \notin listing
  PROVE  ticks_left(a) = Off
  BY ListingIs DEF ticks_left

LEMMA ClockStarts == Init => ClockInv
  <1> SUFFICES ASSUME Init
               PROVE  ClockInv
    OBVIOUS
  <1>1. listing = {}
    BY NodesAre DEF Init, listing, In
  <1>2. ClockTypes
    BY SpanIs, NodesAre DEF Init, ClockTypes, Head
  <1>3. Linked(next, previous)
    BY DEF Init, Linked
  <1>4. Ordered(next, [l \in Nodes |-> 0])
    BY <1>1 DEF Ordered, listing
  <1>5. Walking([l \in Nodes |-> 0])
    BY <1>1 DEF Walking, Init
  <1> QED
    BY <1>1, <1>2, <1>3, <1>4, <1>5 DEF ClockInv, Times_ahead
-----------------------------------------------------------------------------
(* The steps: each with what it does to the ticks that are left.           *)

\* What is left, as Countdown counts it.
Rests == \A a \in Alarms : ticks_left(a)' = ticks_left(a)

LEMMA TickArithmetic ==
  ASSUME NEW t \in Now, NEW now \in Now, NEW flag \in BOOLEAN,
         NEW now2, now2 = (now + 1) % Span,
         ~(flag /\ now # 0) => now <= t,
         (flag /\ now # 0) \/ (~flag /\ t # now)
  PROVE  /\ now2 \in Now
         /\ ~(flag /\ now2 # 0) => now2 <= t
         /\ (IF flag /\ now2 # 0 THEN t + Span - now2 ELSE t - now2)
              = (IF flag /\ now # 0 THEN t + Span - now ELSE t - now) - 1
  <1>1. t \in Nat /\ t <= Span - 1 /\ now \in Nat /\ now <= Span - 1 /\ Span \in Nat
    BY SpanIs DEF Now
  <1>2. now2 = IF now = Span - 1 THEN 0 ELSE now + 1
    BY NextNow
  <1>3. CASE flag /\ now # 0
    BY <1>1, <1>2, <1>3 DEF Now
  <1>4. CASE ~flag /\ t # now /\ now <= t
    BY <1>1, <1>2, <1>4 DEF Now
  <1> QED
    BY <1>3, <1>4

LEMMA TickBegins ==
  ASSUME ClockInv, TickBegin
  PROVE  /\ ClockInv'
         /\ \A a \in listing : ticks_left(a) # 0 /\ ticks_left(a)' = ticks_left(a) - 1
         /\ listing' = listing
  <1>1. /\ ticking = "off" /\ ticking' = "look" /\ alarm' = next[Head]
        /\ _alt_nticks' = (_alt_nticks + 1) % Span
        /\ UNCHANGED <<next, previous, time, rollover, saved>>
    BY DEF TickBegin, listVars, alarmVars, Head
  <1>2. ClockTypes /\ Linked(next, previous) /\ Times_ahead
    BY DEF ClockInv
  <1>3. PICK rank : Ordered(next, rank) /\ Walking(rank)
    BY DEF ClockInv
  <1>4. listing' = listing
    BY <1>1 DEF listing, In
  <1>5. ASSUME NEW a \in listing
        PROVE  /\ a \in Alarms /\ time[a] \in Now /\ rollover[a] \in BOOLEAN
               /\ ~(rollover[a] /\ _alt_nticks # 0) => _alt_nticks <= time[a]
               /\ (rollover[a] /\ _alt_nticks # 0) \/ (~rollover[a] /\ time[a] # _alt_nticks)
    <2>1. ~Pending(a)
      BY <1>1, <1>3, <1>5 DEF Walking
    <2>2. a \in Alarms
      BY <1>5, ListingIs
    <2> QED
      BY <1>2, <1>5, <2>1, <2>2 DEF ClockTypes, Times_ahead, Pending, beyond
  <1>6. ASSUME NEW a \in listing
        PROVE  /\ _alt_nticks' \in Now
               /\ ~(rollover[a] /\ _alt_nticks' # 0) => _alt_nticks' <= time[a]
               /\ (IF rollover[a] /\ _alt_nticks' # 0 THEN time[a] + Span - _alt_nticks' ELSE time[a] - _alt_nticks')
                    = (IF rollover[a] /\ _alt_nticks # 0 THEN time[a] + Span - _alt_nticks ELSE time[a] - _alt_nticks) - 1
    <2>1. _alt_nticks \in Now
      BY <1>2 DEF ClockTypes
    <2> QED
      BY <1>1, <1>5, <1>6, <2>1, TickArithmetic
  <1>7. _alt_nticks' \in Now
    <2>1. _alt_nticks \in Nat /\ _alt_nticks <= Span - 1 /\ _alt_nticks \in Now
      BY <1>2, SpanIs DEF ClockTypes, Now
    <2> QED
      BY <1>1, <2>1, NextNow, SpanIs DEF Now
  <1>8. Head \in Nodes /\ next[Head] \in Nodes /\ (next[Head] = Head \/ next[Head] \in listing)
    BY <1>2, NodesAre, Follows DEF Linked, listing
  <1>9. ClockTypes'
    BY <1>1, <1>2, <1>7, <1>8 DEF ClockTypes
  <1>10. Times_ahead'
    BY <1>1, <1>4, <1>5, <1>6 DEF Times_ahead, beyond
  <1>11. Walking(rank)'
    <2>1. \A a \in listing : next[Head] # Head /\ rank[next[Head]] <= rank[a]
      BY <1>3 DEF Ordered, listing
    <2> QED
      BY <1>1, <1>4, <1>8, <2>1 DEF Walking, Looking
  <1>12. ClockInv'
    <2>1. Linked(next', previous') /\ Ordered(next', rank)
      BY <1>1, <1>2, <1>3
    <2> QED
      BY <1>9, <1>10, <1>11, <2>1 DEF ClockInv
  <1>13. ASSUME NEW a \in listing
         PROVE  ticks_left(a) # 0 /\ ticks_left(a)' = ticks_left(a) - 1
    <2>1. listed(a) /\ listed(a)'
      BY <1>1, <1>13, ListingIs DEF listed
    <2>2. ticks_left(a)' = ticks_left(a) - 1
      BY <1>1, <1>6, <1>13, <2>1 DEF ticks_left
    <2>3. ticks_left(a) # 0
      BY <1>2, <1>5, <1>13, LeftIs DEF beyond
    <2> QED
      BY <2>2, <2>3
  <1> QED
    BY <1>4, <1>12, <1>13

LEMMA Looks ==
  ASSUME ClockInv, Look
  PROVE  ClockInv' /\ Rests
  <1> DEFINE flag == rollover[alarm] /\ _alt_nticks # 0
  <1>1. /\ ticking = "look" /\ alarm # Head /\ rollover' = [rollover EXCEPT ![alarm] = flag]
        /\ saved' = next[alarm]
        /\ UNCHANGED <<_alt_nticks, next, previous, time>>
    BY DEF Look, listVars, Head
  <1>2. /\ expired(alarm, flag) => ticking' = "callback" /\ alarm' = alarm
        /\ ~expired(alarm, flag) => alarm' = next[alarm] /\ ticking' = ticking
    BY DEF Look
  <1>3. ClockTypes /\ Linked(next, previous) /\ Times_ahead
    BY DEF ClockInv
  <1>4. PICK rank : Ordered(next, rank) /\ Walking(rank)
    BY DEF ClockInv
  <1>5. listing' = listing
    BY <1>1 DEF listing, In
  <1>6. /\ alarm \in listing /\ alarm \in Alarms /\ alarm \in Nodes
        /\ \A a \in listing : Pending(a) => rank[alarm] <= rank[a]
    BY <1>1, <1>4, ListingIs DEF Walking, Looking
  <1>7. /\ rollover' \in [Alarms -> BOOLEAN] /\ (rollover'[alarm] <=> flag)
        /\ \A a \in Alarms \ {alarm} : rollover'[a] = rollover[a]
    BY <1>1, <1>3, <1>6 DEF ClockTypes
  <1>8. \A a \in Alarms : beyond(a)' <=> beyond(a)
    BY <1>1, <1>7 DEF beyond
  <1>9. \A a \in Alarms \ {alarm} : Pending(a)' <=> Pending(a)
    BY <1>1, <1>7, <1>8 DEF Pending
  <1>10. next[alarm] \in Nodes /\ next[alarm] # alarm /\ (next[alarm] = Head \/ next[alarm] \in listing)
    BY <1>3, <1>6, Follows DEF Linked, listing, In
  <1>11. ClockTypes'
    BY <1>1, <1>2, <1>3, <1>7, <1>10 DEF ClockTypes
  <1>12. Times_ahead'
    BY <1>1, <1>3, <1>5, <1>8, ListingIs DEF Times_ahead
  <1>13. ASSUME NEW a \in listing, a # alarm, Pending(a)
         PROVE  next[alarm] # Head /\ rank[next[alarm]] <= rank[a]
    <2>1. rank[alarm] <= rank[a] /\ rank[alarm] # rank[a]
      BY <1>4, <1>6, <1>13 DEF Ordered, listing
    <2>2. rank[alarm] \in Int /\ rank[a] \in Int
      BY <1>4, <1>6, <1>13, ListingIs DEF Ordered
    <2>3. rank[alarm] < rank[a]
      BY <2>1, <2>2
    <2> QED
      BY <1>4, <1>6, <1>13, <2>3 DEF Ordered, listing
  <1>14. time[alarm] \in Now /\ _alt_nticks \in Now /\ (~flag => _alt_nticks <= time[alarm])
    BY <1>3, <1>6 DEF ClockTypes, Times_ahead, beyond
  <1>15. ASSUME expired(alarm, flag)
         PROVE  Walking(rank)'
    <2>1. ~flag /\ time[alarm] <= _alt_nticks
      BY <1>15 DEF expired
    <2>2. time[alarm] = _alt_nticks
      BY <1>14, <2>1, SpanIs DEF Now
    <2>3. ~rollover'[alarm]
      BY <1>7, <2>1
    <2>4. Calling(rank)'
      BY <1>1, <1>2, <1>5, <1>6, <1>9, <1>10, <1>13, <1>14, <1>15, <2>2, <2>3, ListingIs DEF Calling
    <2> QED
      BY <1>2, <1>15, <2>4 DEF Walking
  <1>16. ASSUME ~expired(alarm, flag)
         PROVE  Walking(rank)'
    <2>1. flag \/ ~(time[alarm] <= _alt_nticks)
      BY <1>16 DEF expired
    <2>2. flag \/ time[alarm] # _alt_nticks
      BY <1>14, <2>1, SpanIs DEF Now
    <2>3. \A a \in listing : a = alarm => ~Pending(a)'
      BY <1>1, <1>7, <2>2 DEF Pending, beyond
    <2>4. Looking(rank)'
      BY <1>2, <1>5, <1>9, <1>10, <1>13, <1>16, <2>3, ListingIs DEF Looking
    <2> QED
      BY <1>1, <1>2, <1>16, <2>4 DEF Walking
  <1>17. ClockInv'
    <2>1. Linked(next', previous') /\ Ordered(next', rank)
      BY <1>1, <1>3, <1>4
    <2> QED
      BY <1>11, <1>12, <1>15, <1>16, <2>1 DEF ClockInv
  <1>18. Rests
    <2> SUFFICES ASSUME NEW a \in Alarms
                 PROVE  ticks_left(a)' = ticks_left(a)
      BY DEF Rests
    <2>1. (rollover'[a] /\ _alt_nticks' # 0) <=> (rollover[a] /\ _alt_nticks # 0)
      BY <1>8 DEF beyond
    <2>2. CASE rollover[a] /\ _alt_nticks # 0
      BY <1>1, <2>1, <2>2 DEF ticks_left, listed
    <2>3. CASE ~(rollover[a] /\ _alt_nticks # 0)
      BY <1>1, <2>1, <2>3 DEF ticks_left, listed
    <2> QED
      BY <2>2, <2>3
  <1> QED
    BY <1>17, <1>18

\* A removal, whoever makes it.
LEMMA Removes ==
  ASSUME ClockInv, NEW entry \in Alarms, alt_llist_remove(entry),
         UNCHANGED <<_alt_nticks, time, rollover>>
  PROVE  /\ listing' = listing \ {entry} /\ Linked(next', previous') /\ Times_ahead'
         /\ \A rank : Ordered(next, rank) => Ordered(next', rank)
         /\ \A a \in Alarms : Pending(a)' <=> Pending(a)
         /\ ticks_left(entry)' = Off
         /\ \A a \in Alarms \ {entry} : ticks_left(a)' = ticks_left(a)
  <1>1. Linked(next, previous) /\ Times_ahead
    BY DEF ClockInv
  <1>2. PICK rank : Ordered(next, rank)
    BY DEF ClockInv
  <1>3. Unlinks(next, previous, entry, next', previous')
    BY <1>1, Unlinking
  <1>4. listing' = listing \ {entry} /\ Linked(next', previous')
    BY <1>1, <1>2, <1>3, Removed DEF listing
  <1>5. \A r : Ordered(next, r) => Ordered(next', r)
    BY <1>1, <1>3, Removed
  <1>6. \A a \in Alarms : (Pending(a)' <=> Pending(a)) /\ (beyond(a)' <=> beyond(a))
    BY DEF Pending, beyond
  <1>7. Times_ahead'
    BY <1>1, <1>4, <1>6, ListingIs DEF Times_ahead
  <1>8. \A a \in Alarms : listed(a)' <=> a \in listing /\ a # entry
    BY <1>4 DEF listed, listing, In
  <1>9. ticks_left(entry)' = Off
    BY <1>8 DEF ticks_left
  <1>10. ASSUME NEW a \in Alarms \ {entry}
         PROVE  ticks_left(a)' = ticks_left(a)
    <2>1. listed(a)' <=> listed(a)
      BY <1>8, ListingIs
    <2> QED
      BY <2>1 DEF ticks_left
  <1> QED
    BY <1>4, <1>5, <1>6, <1>7, <1>9, <1>10

LEMMA Stops ==
  ASSUME ClockInv, NEW a \in Alarms, alt_alarm_stop(a)
  PROVE  /\ ClockInv'
         /\ ticks_left(a)' = Off
         /\ \A b \in Alarms \ {a} : ticks_left(b)' = ticks_left(b)
  <1>1. /\ ticking \in {"off", "callback"} /\ ~(ticking = "callback" /\ a = saved)
        /\ alt_llist_remove(a)
        /\ UNCHANGED <<_alt_nticks, time, rollover, alarm, saved, ticking>>
    BY DEF alt_alarm_stop, calling, alarmVars, tickVars
  <1>2. ClockTypes
    BY DEF ClockInv
  <1>3. PICK rank : Ordered(next, rank) /\ Walking(rank)
    BY DEF ClockInv
  <1>4. /\ listing' = listing \ {a} /\ Linked(next', previous') /\ Times_ahead'
        /\ \A r : Ordered(next, r) => Ordered(next', r)
        /\ \A b \in Alarms : Pending(b)' <=> Pending(b)
        /\ ticks_left(a)' = Off
        /\ \A b \in Alarms \ {a} : ticks_left(b)' = ticks_left(b)
    BY <1>1, Removes
  <1>5. ClockTypes'
    BY <1>1, <1>2 DEF ClockTypes
  <1>6. Walking(rank)'
    <2>1. CASE ticking = "off"
      BY <1>1, <1>3, <1>4, <2>1, ListingIs DEF Walking
    <2>2. CASE ticking = "callback"
      <3>1. Calling(rank)
        BY <1>3, <2>2 DEF Walking
      <3>2. Calling(rank)'
        BY <1>1, <1>4, <2>2, <3>1, ListingIs DEF Calling
      <3> QED
        BY <1>1, <2>2, <3>2 DEF Walking
    <2> QED
      BY <1>1, <2>1, <2>2
  <1> QED
    BY <1>3, <1>4, <1>5, <1>6 DEF ClockInv

LEMMA Starts ==
  ASSUME ClockInv, NEW a \in Alarms, NEW nticks \in Delays, alt_alarm_start(a, nticks)
  PROVE  /\ ClockInv'
         /\ ticks_left(a) = Off /\ ticks_left(a)' = nticks + 1
         /\ \A b \in Alarms \ {a} : ticks_left(b)' = ticks_left(b)
  <1> DEFINE t == (nticks + _alt_nticks + 1) % Span
  <1>1. /\ ticking \in {"off", "callback"} /\ a \notin listing /\ ~(ticking = "callback" /\ a = alarm)
        /\ time' = [time EXCEPT ![a] = t]
        /\ rollover' = [rollover EXCEPT ![a] = time'[a] < _alt_nticks]
        /\ alt_llist_insert(a)
        /\ UNCHANGED <<_alt_nticks, alarm, saved, ticking>>
    BY ListingIs DEF alt_alarm_start, calling, tickVars
  <1>2. ClockTypes /\ Linked(next, previous) /\ Times_ahead
    BY DEF ClockInv
  <1>3. PICK rank : Ordered(next, rank) /\ Walking(rank)
    BY DEF ClockInv
  <1>4. /\ _alt_nticks \in Now /\ _alt_nticks \in Nat /\ Span \in Nat
        /\ nticks + 1 \in Nat /\ nticks + 1 >= 1 /\ nticks + 1 <= Span - 1
        /\ nticks + _alt_nticks + 1 = _alt_nticks + (nticks + 1)
    BY <1>2, SpanIs, DelaysAssumption DEF ClockTypes, Now
  <1>5. /\ t \in Now
        /\ t < _alt_nticks => _alt_nticks # 0 /\ t + Span - _alt_nticks = nticks + 1
        /\ ~(t < _alt_nticks) => _alt_nticks < t /\ t - _alt_nticks = nticks + 1
    <2>1. t = (_alt_nticks + (nticks + 1)) % Span
      BY <1>4
    <2> HIDE DEF t
    <2> QED
      BY <1>4, <2>1, Ahead
  <1> HIDE DEF t
  <1>6. /\ time' \in [Alarms -> Now \union {Off}] /\ time'[a] = t
        /\ \A b \in Alarms \ {a} : time'[b] = time[b]
    BY <1>1, <1>2, <1>5 DEF ClockTypes
  <1>7. /\ rollover' \in [Alarms -> BOOLEAN] /\ (rollover'[a] <=> t < _alt_nticks)
        /\ \A b \in Alarms \ {a} : rollover'[b] = rollover[b]
    <2> DEFINE later == time'[a] < _alt_nticks
    <2>1. rollover' = [rollover EXCEPT ![a] = later] /\ rollover \in [Alarms -> BOOLEAN]
      BY <1>1, <1>2 DEF ClockTypes
    <2>2. later \in BOOLEAN /\ (later <=> t < _alt_nticks)
      BY <1>6
    <2> HIDE DEF later
    <2> QED
      BY <2>1, <2>2
  <1>8. next[a] = a /\ Links(next, previous, a, next', previous')
    <2>1. ~listed(a) /\ next[a] = a
      BY <1>1, ListingIs DEF listed
    <2> QED
      BY <1>1, <1>2, <2>1, Linking
  <1>9. Linked(next', previous') /\ listing' = listing \union {a}
    BY <1>2, <1>3, <1>8, Inserted DEF listing
  <1>10. PICK r : Ordered(next', r) /\ \A l \in Nodes \ {a} : r[l] = rank[l]
    BY <1>2, <1>3, <1>8, Inserted
  <1>11. \A b \in Alarms \ {a} : (Pending(b)' <=> Pending(b)) /\ (beyond(b)' <=> beyond(b))
    BY <1>1, <1>6, <1>7 DEF Pending, beyond
  <1>12. beyond(a)' <=> t < _alt_nticks
    BY <1>1, <1>5, <1>7 DEF beyond
  <1>13. ~Pending(a)'
    <2>1. CASE t < _alt_nticks
      BY <1>12, <2>1 DEF Pending
    <2>2. CASE ~(t < _alt_nticks)
      <3>1. _alt_nticks # t
        BY <1>4, <1>5, <2>2, SpanIs DEF Now
      <3> QED
        BY <1>1, <1>6, <1>7, <2>2, <3>1 DEF Pending
    <2> QED
      BY <2>1, <2>2
  <1>14. Times_ahead'
    <2> SUFFICES ASSUME NEW b \in listing'
                 PROVE  time'[b] \in Now /\ (~beyond(b)' => _alt_nticks <= time'[b])
      BY <1>1 DEF Times_ahead
    <2>1. CASE b = a
      <3>1. ~(t < _alt_nticks) => _alt_nticks <= t
        BY <1>4, <1>5, SpanIs DEF Now
      <3> QED
        BY <1>5, <1>6, <1>12, <2>1, <3>1
    <2>2. CASE b # a
      BY <1>2, <1>6, <1>9, <1>11, <2>2, ListingIs DEF Times_ahead
    <2> QED
      BY <2>1, <2>2
  <1>15. ClockTypes'
    BY <1>1, <1>2, <1>6, <1>7 DEF ClockTypes
  <1>16. Walking(r)'
    <2>1. CASE ticking = "off"
      BY <1>1, <1>3, <1>9, <1>11, <1>13, <2>1, ListingIs DEF Walking
    <2>2. CASE ticking = "callback"
      <3>1. Calling(rank) /\ a # alarm /\ alarm \in Alarms
        BY <1>1, <1>3, <2>2 DEF Walking, Calling
      <3>2. saved # a /\ saved \in Nodes
        BY <1>1, <1>2, <3>1, NodesAre DEF Calling, ClockTypes
      <3>3. r[saved] = rank[saved] /\ \A b \in listing : r[b] = rank[b]
        BY <1>1, <1>10, <3>2, ListingIs
      <3>4. time'[alarm] = time[alarm] /\ rollover'[alarm] = rollover[alarm]
        BY <1>6, <1>7, <3>1
      <3>5. \A b \in listing' \ {alarm} : Pending(b)' => b \in listing \ {alarm} /\ Pending(b)
        BY <1>9, <1>11, <1>13, ListingIs
      <3>6. Calling(r)'
        BY <1>1, <1>9, <3>1, <3>3, <3>4, <3>5 DEF Calling
      <3> QED
        BY <1>1, <2>2, <3>6 DEF Walking
    <2> QED
      BY <1>1, <2>1, <2>2
  <1>17. ClockInv'
    BY <1>9, <1>10, <1>14, <1>15, <1>16 DEF ClockInv
  <1>18. ticks_left(a) = Off
    BY <1>1, NotLeft
  <1>19. \A b \in Alarms : listed(b)' <=> b \in listing'
    BY DEF listed, listing, In
  <1>20. ticks_left(a)' = nticks + 1
    <2>1. CASE t < _alt_nticks
      BY <1>1, <1>5, <1>6, <1>7, <1>9, <1>19, <2>1 DEF ticks_left
    <2>2. CASE ~(t < _alt_nticks)
      BY <1>1, <1>5, <1>6, <1>7, <1>9, <1>19, <2>2 DEF ticks_left
    <2> QED
      BY <2>1, <2>2
  <1>21. ASSUME NEW b \in Alarms \ {a}
         PROVE  ticks_left(b)' = ticks_left(b)
    <2>1. listed(b)' <=> listed(b)
      BY <1>9, <1>19, ListingIs
    <2>2. time'[b] = time[b] /\ rollover'[b] = rollover[b]
      BY <1>6, <1>7
    <2> QED
      BY <1>1, <2>1, <2>2 DEF ticks_left
  <1> QED
    BY <1>17, <1>18, <1>20, <1>21

\* The walk goes on with the one it has held on to.
LEMMA GoesOn ==
  ASSUME NEW rank, NEW c \in Alarms, c = alarm, Calling(rank),
         alarm' = saved, c \in listing' => ~Pending(c)',
         listing' \subseteq listing, saved = Head \/ saved \in listing',
         \A a \in Alarms \ {c} : Pending(a)' <=> Pending(a)
  PROVE  Looking(rank)'
  <1>1. \A a \in listing' : Pending(a)' => a \in listing \ {c} /\ Pending(a)
    BY ListingIs
  <1> QED
    BY <1>1 DEF Looking, Calling

\* What the callback of c does to the ticks that are left.
Reruns(c, period) ==
  /\ c \notin listing => ticks_left(c) = Off /\ ticks_left(c)' = Off
  /\ c \in listing => ticks_left(c) = 0 /\ ticks_left(c)' = IF period = 0 THEN Off ELSE period
  /\ \A a \in Alarms \ {c} : ticks_left(a)' = ticks_left(a)

LEMMA RunsAgain ==
  ASSUME ClockInv, NEW period \in Periods, CallbackReturns(period), period # 0,
         NEW c \in Alarms, c = alarm
  PROVE  ClockInv' /\ Reruns(c, period)
  <1> DEFINE again == (time[c] + period) % Span
  <1>1. /\ ticking = "callback" /\ alarm' = saved /\ ticking' = "look"
        /\ time' = [time EXCEPT ![c] = again]
        /\ rollover' = [rollover EXCEPT ![c] = rolls(c, again) \/ rollover[c]]
        /\ UNCHANGED <<_alt_nticks, next, previous, saved>>
    BY DEF CallbackReturns, listVars
  <1>2. ClockTypes /\ Linked(next, previous) /\ Times_ahead
    BY DEF ClockInv
  <1>3. PICK rank : Ordered(next, rank) /\ Calling(rank)
    BY <1>1 DEF ClockInv, Walking
  <1>4. listing' = listing
    BY <1>1 DEF listing, In
  <1>5. time[c] \in Now /\ period \in Nat /\ period >= 1 /\ period <= Span - 1
    BY <1>3, SpanIs, DelaysAssumption DEF Calling
  <1>6. /\ again \in Now
        /\ again < time[c] => time[c] # 0 /\ again + Span - time[c] = period
        /\ ~(again < time[c]) => time[c] < again /\ again - time[c] = period
    BY <1>5, Ahead
  <1> HIDE DEF again
  <1>7. /\ time' \in [Alarms -> Now \union {Off}] /\ time'[c] = again
        /\ \A a \in Alarms \ {c} : time'[a] = time[a]
    BY <1>1, <1>2, <1>6 DEF ClockTypes
  <1>8. /\ rollover' \in [Alarms -> BOOLEAN]
        /\ rollover'[c] <=> again < _alt_nticks \/ rollover[c]
        /\ \A a \in Alarms \ {c} : rollover'[a] = rollover[a]
    <2> DEFINE later == rolls(c, again) \/ rollover[c]
    <2>1. rollover' = [rollover EXCEPT ![c] = later] /\ rollover \in [Alarms -> BOOLEAN]
      BY <1>1, <1>2 DEF ClockTypes
    <2>2. later \in BOOLEAN /\ (later <=> again < _alt_nticks \/ rollover[c])
      BY DEF rolls
    <2> HIDE DEF later
    <2> QED
      BY <2>1, <2>2
  <1>9. \A a \in Alarms \ {c} : (Pending(a)' <=> Pending(a)) /\ (beyond(a)' <=> beyond(a))
    BY <1>1, <1>7, <1>8 DEF Pending, beyond
  <1>10. c \in listing => time[c] = _alt_nticks /\ (beyond(c)' <=> again < _alt_nticks) /\ ~Pending(c)'
    <2> SUFFICES ASSUME c \in listing
                 PROVE  time[c] = _alt_nticks /\ (beyond(c)' <=> again < _alt_nticks) /\ ~Pending(c)'
      OBVIOUS
    <2>1. ~rollover[c] /\ time[c] = _alt_nticks
      BY <1>3 DEF Calling
    <2>2. (rollover'[c] <=> again < _alt_nticks) /\ (again < _alt_nticks => _alt_nticks # 0)
      BY <1>6, <1>8, <2>1
    <2>3. beyond(c)' <=> again < _alt_nticks
      BY <1>1, <2>2 DEF beyond
    <2>4. ~(again < _alt_nticks) => again # _alt_nticks
      BY <1>5, <1>6, <2>1, SpanIs DEF Now
    <2>5. ~Pending(c)'
      BY <1>1, <1>7, <2>2, <2>3, <2>4 DEF Pending
    <2> QED
      BY <2>1, <2>3, <2>5
  <1>11. Times_ahead'
    <2> SUFFICES ASSUME NEW a \in listing
                 PROVE  time'[a] \in Now /\ (~beyond(a)' => _alt_nticks <= time'[a])
      BY <1>1, <1>4 DEF Times_ahead
    <2>1. CASE a = c
      <3>1. ~(again < _alt_nticks) => _alt_nticks <= again
        BY <1>2, <1>6, SpanIs DEF ClockTypes, Now
      <3> QED
        BY <1>6, <1>7, <1>10, <2>1, <3>1
    <2>2. CASE a # c
      BY <1>2, <1>7, <1>9, <2>2, ListingIs DEF Times_ahead
    <2> QED
      BY <2>1, <2>2
  <1>12. ClockTypes'
    BY <1>1, <1>2, <1>7, <1>8 DEF ClockTypes
  <1>13. Walking(rank)'
    <2>1. saved = Head \/ saved \in listing'
      BY <1>3, <1>4 DEF Calling
    <2>2. Looking(rank)'
      BY <1>1, <1>3, <1>4, <1>9, <1>10, <2>1, GoesOn
    <2> QED
      BY <1>1, <2>2 DEF Walking
  <1>14. ClockInv'
    <2>1. Linked(next', previous') /\ Ordered(next', rank)
      BY <1>1, <1>2, <1>3
    <2> QED
      BY <1>11, <1>12, <1>13, <2>1 DEF ClockInv
  <1>15. \A a \in Alarms : (listed(a) <=> a \in listing) /\ (listed(a)' <=> a \in listing)
    BY <1>1, ListingIs DEF listed
  <1>16. ASSUME NEW a \in Alarms \ {c}
         PROVE  ticks_left(a)' = ticks_left(a)
    <2>1. listed(a)' <=> listed(a)
      BY <1>15
    <2>2. time'[a] = time[a] /\ rollover'[a] = rollover[a]
      BY <1>7, <1>8
    <2> QED
      BY <1>1, <2>1, <2>2 DEF ticks_left
  <1>17. ASSUME c \notin listing
         PROVE  ticks_left(c) = Off /\ ticks_left(c)' = Off
    BY <1>15, <1>17 DEF ticks_left
  <1>18. ASSUME c \in listing
         PROVE  ticks_left(c) = 0 /\ ticks_left(c)' = period
    <2>1. ticks_left(c) = 0
      <3>1. ~beyond(c) /\ time[c] = _alt_nticks
        BY <1>3, <1>18 DEF Calling, beyond
      <3> QED
        BY <1>2, <1>18, <3>1, LeftIs
    <2>2. ClockTypes' /\ Times_ahead' /\ c \in listing'
      BY <1>4, <1>11, <1>12, <1>18
    <2>3. listed(c)' /\ (rollover'[c] /\ _alt_nticks' # 0 <=> again < _alt_nticks)
      BY <1>10, <1>15, <1>18 DEF beyond
    <2>4. CASE again < _alt_nticks
      BY <1>1, <1>6, <1>7, <1>10, <1>18, <2>1, <2>3, <2>4 DEF ticks_left
    <2>5. CASE ~(again < _alt_nticks)
      BY <1>1, <1>6, <1>7, <1>10, <1>18, <2>1, <2>3, <2>5 DEF ticks_left
    <2> QED
      BY <2>1, <2>4, <2>5
  <1> QED
    BY <1>14, <1>16, <1>17, <1>18 DEF Reruns

LEMMA RunsNoMore ==
  ASSUME ClockInv, CallbackReturns(0), NEW c \in Alarms, c = alarm
  PROVE  ClockInv' /\ Reruns(c, 0)
  <1>1. /\ ticking = "callback" /\ alarm' = saved /\ ticking' = "look"
        /\ alt_llist_remove(c)
        /\ UNCHANGED <<_alt_nticks, time, rollover, saved>>
    BY DEF CallbackReturns, alarmVars
  <1>2. ClockTypes /\ Linked(next, previous) /\ Times_ahead
    BY DEF ClockInv
  <1>3. PICK rank : Ordered(next, rank) /\ Calling(rank)
    BY <1>1 DEF ClockInv, Walking
  <1>4. /\ listing' = listing \ {c} /\ Linked(next', previous') /\ Times_ahead'
        /\ Ordered(next', rank)
        /\ \A a \in Alarms : Pending(a)' <=> Pending(a)
        /\ ticks_left(c)' = Off
        /\ \A a \in Alarms \ {c} : ticks_left(a)' = ticks_left(a)
    BY <1>1, <1>3, Removes
  <1>5. ClockTypes'
    BY <1>1, <1>2 DEF ClockTypes
  <1>6. Walking(rank)'
    <2>1. saved = Head \/ saved \in listing'
      BY <1>3, <1>4 DEF Calling
    <2>2. Looking(rank)'
      BY <1>1, <1>3, <1>4, <2>1, GoesOn
    <2> QED
      BY <1>1, <2>2 DEF Walking
  <1>7. c \notin listing => ticks_left(c) = Off
    BY NotLeft
  <1>8. c \in listing => ticks_left(c) = 0
    <2> SUFFICES ASSUME c \in listing
                 PROVE  ticks_left(c) = 0
      OBVIOUS
    <2>1. ~beyond(c) /\ time[c] = _alt_nticks
      BY <1>3 DEF Calling, beyond
    <2> QED
      BY <1>2, <2>1, LeftIs
  <1> QED
    BY <1>4, <1>5, <1>6, <1>7, <1>8 DEF ClockInv, Reruns

LEMMA Returns ==
  ASSUME ClockInv, NEW period \in Periods, CallbackReturns(period)
  PROVE  ClockInv' /\ \E c \in Alarms : Reruns(c, period)
  <1>1. alarm \in Alarms
    BY DEF CallbackReturns, ClockInv, Walking, Calling
  <1>2. CASE period = 0
    BY <1>1, <1>2, RunsNoMore
  <1>3. CASE period # 0
    BY <1>1, <1>3, RunsAgain
  <1> QED
    BY <1>2, <1>3

LEMMA Ends ==
  ASSUME ClockInv, TickEnds
  PROVE  ClockInv' /\ Rests
  <1>1. /\ ticking = "look" /\ alarm = Head /\ ticking' = "off" /\ saved' = Head
        /\ UNCHANGED <<_alt_nticks, next, previous, time, rollover, alarm>>
    BY DEF TickEnds, listVars, alarmVars, Head
  <1>2. ClockTypes' /\ Linked(next', previous') /\ Times_ahead'
    BY <1>1, NodesAre DEF ClockInv, ClockTypes, Times_ahead, beyond, listing, In
  <1>3. PICK rank : Ordered(next, rank) /\ Walking(rank)
    BY DEF ClockInv
  <1>4. \A a \in listing' : ~Pending(a)'
    BY <1>1, <1>3 DEF Walking, Looking, Pending, beyond, listing, In
  <1>5. Ordered(next', rank) /\ Walking(rank)'
    BY <1>1, <1>3, <1>4 DEF Walking
  <1>6. Rests
    BY <1>1 DEF Rests, ticks_left, listed
  <1> QED
    BY <1>2, <1>5, <1>6 DEF ClockInv

LEMMA ClockRests ==
  ASSUME ClockInv, UNCHANGED <<_alt_nticks, listVars, alarmVars, tickVars>>
  PROVE  ClockInv' /\ Rests
  <1>1. UNCHANGED <<_alt_nticks, next, previous, time, rollover, alarm, saved, ticking>>
    BY DEF listVars, alarmVars, tickVars
  <1>2. ClockTypes' /\ Linked(next', previous') /\ Times_ahead'
    BY <1>1 DEF ClockInv, ClockTypes, Times_ahead, beyond, listing, In
  <1>3. PICK rank : Ordered(next, rank) /\ Walking(rank)
    BY DEF ClockInv
  <1>4. Ordered(next', rank) /\ Walking(rank)'
    BY <1>1, <1>3 DEF Walking, Looking, Calling, Pending, beyond, listing, In
  <1>5. Rests
    BY <1>1 DEF Rests, ticks_left, listed
  <1> QED
    BY <1>2, <1>4, <1>5 DEF ClockInv

LEMMA ClockInductive == ClockInv /\ [Next]_vars => ClockInv'
  <1> SUFFICES ASSUME ClockInv, [Next]_vars
               PROVE  ClockInv'
    OBVIOUS
  <1>1. CASE TickBegin
    BY <1>1, TickBegins
  <1>2. CASE Look
    BY <1>2, Looks
  <1>3. CASE TickEnds
    BY <1>3, Ends
  <1>4. CASE \E period \in Periods : CallbackReturns(period)
    BY <1>4, Returns
  <1>5. CASE \E a \in Alarms : alt_alarm_stop(a)
    BY <1>5, Stops
  <1>6. CASE \E a \in Alarms, nticks \in Delays : alt_alarm_start(a, nticks)
    BY <1>6, Starts
  <1>7. CASE \E t \in Times : settimeofday(t)
    BY <1>7, ClockRests DEF settimeofday
  <1>8. CASE UNCHANGED vars
    BY <1>8, ClockRests DEF vars
  <1> QED
    BY <1>1, <1>2, <1>3, <1>4, <1>5, <1>6, <1>7, <1>8 DEF Next

LEMMA ClockInvariance == Spec => []ClockInv
  BY ClockStarts, ClockInductive, PTL DEF Spec

-----------------------------------------------------------------------------
(* What follows.                                                           *)

\* Whatever callbacks start and stop while the list is walked, it stays one list
\* from the head back to the head, and the walk in it.
THEOREM ListStaysWhole == Spec => []ListWhole
  <1>1. ClockInv => ListWhole
    <2> SUFFICES ASSUME ClockInv
                 PROVE  ListWhole
      OBVIOUS
    <2>1. \A l \in Nodes : previous[next[l]] = l /\ next[previous[l]] = l
      BY DEF ClockInv, Linked
    <2>2. \A a \in Alarms : listed(a) => time[a] # Off
      BY ListingIs, OffIs DEF ClockInv, Times_ahead
    <2>3. ticking = "look" => alarm = alt_alarm_list \/ listed(alarm)
      BY ListingIs DEF ClockInv, Walking, Looking, Head
    <2> QED
      BY <2>1, <2>2, <2>3 DEF ListWhole
  <1> QED
    BY <1>1, ClockInvariance, PTL

Left == [a \in Alarms |-> ticks_left(a)]

LEMMA SetsLeft ==
  ASSUME NEW c \in Alarms, NEW value, ticks_left(c)' = value,
         \A a \in Alarms \ {c} : ticks_left(a)' = ticks_left(a)
  PROVE  Left' = [Left EXCEPT ![c] = value]
  BY DEF Left

LEMMA LeftRests ==
  ASSUME Rests
  PROVE  Left' = Left
  BY DEF Left, Rests

LEMMA StepsCountDown ==
  ASSUME ClockInv, [Next]_vars
  PROVE  countdown!Next \/ Left' = Left
  <1>1. CASE TickBegin
    <2>1. /\ \A a \in listing : ticks_left(a) # 0 /\ ticks_left(a)' = ticks_left(a) - 1
          /\ listing' = listing
      BY <1>1, TickBegins
    <2>2. \A a \in Alarms \ listing : ticks_left(a) = Off /\ ticks_left(a)' = Off
      BY <2>1, NotLeft, ListingIs DEF ticks_left, listed, listing, In
    <2>3. \A a \in listing : ticks_left(a) # Off
      BY LeftIs, OffAssumption DEF ClockInv
    <2>4. \A a \in Alarms : Left[a] # 0
      BY <2>1, <2>2, OffAssumption DEF Left
    <2>5. Left' = [a \in Alarms |-> IF Left[a] = Off THEN Off ELSE Left[a] - 1]
      BY <2>1, <2>2, <2>3 DEF Left
    <2>6. countdown!Tick
      BY <2>4, <2>5 DEF countdown!Tick, Left
    <2> QED
      BY <2>6 DEF countdown!Next
  <1>2. CASE Look \/ TickEnds
    BY <1>2, Looks, Ends, LeftRests
  <1>3. CASE \E period \in Periods : CallbackReturns(period)
    <2>1. PICK period \in Periods, c \in Alarms : Reruns(c, period)
      BY <1>3, Returns
    <2>2. CASE c \notin listing
      <3>1. Rests
        BY <2>1, <2>2 DEF Reruns, Rests
      <3> QED
        BY <3>1, LeftRests
    <2>3. CASE c \in listing
      <3>1. Left[c] = 0
        BY <2>1, <2>3 DEF Reruns, Left
      <3>2. Left' = [Left EXCEPT ![c] = IF period = 0 THEN Off ELSE period]
        BY <2>1, <2>3, SetsLeft DEF Reruns
      <3>3. countdown!Run(c, period)
        BY <3>1, <3>2 DEF countdown!Run, countdown!Set, Left
      <3> QED
        BY <3>3 DEF countdown!Next
    <2> QED
      BY <2>2, <2>3
  <1>4. CASE \E a \in Alarms : alt_alarm_stop(a)
    <2>1. PICK a \in Alarms : alt_alarm_stop(a)
      BY <1>4
    <2>2. Left' = [Left EXCEPT ![a] = Off]
      BY <2>1, Stops, SetsLeft
    <2>3. countdown!Stop(a)
      BY <2>2 DEF countdown!Stop, countdown!Set, Left
    <2> QED
      BY <2>3 DEF countdown!Next
  <1>5. CASE \E a \in Alarms, nticks \in Delays : alt_alarm_start(a, nticks)
    <2>1. PICK a \in Alarms, nticks \in Delays : alt_alarm_start(a, nticks)
      BY <1>5
    <2>2. Left[a] = Off /\ Left' = [Left EXCEPT ![a] = nticks + 1]
      BY <2>1, Starts, SetsLeft DEF Left
    <2>3. countdown!Start(a, nticks)
      BY <2>2 DEF countdown!Start, countdown!Set, Left
    <2> QED
      BY <2>3 DEF countdown!Next
  <1>6. CASE (\E t \in Times : settimeofday(t)) \/ UNCHANGED vars
    <2>1. UNCHANGED <<_alt_nticks, listVars, alarmVars, tickVars>>
      BY <1>6 DEF settimeofday, vars
    <2> QED
      BY <2>1, ClockRests, LeftRests
  <1> QED
    BY <1>1, <1>2, <1>3, <1>4, <1>5, <1>6 DEF Next

\* Alarms run at their tick and at no other, also across a rollover of the
\* counter, and whatever callbacks start and stop before their turn.
THEOREM AlarmsAreOnTime == Spec => OnTime
  <1>1. Init => countdown!Init
    <2> SUFFICES ASSUME Init
                 PROVE  \A a \in Alarms : ticks_left(a) = Off
      BY DEF countdown!Init
    <2> QED
      BY DEF Init, ticks_left, listed, Nodes
  <1>2. ClockInv /\ [Next]_vars => [countdown!Next]_Left
    BY StepsCountDown
  <1> QED
    BY <1>1, <1>2, ClockInvariance, PTL DEF Spec, OnTime, countdown!Spec, Left
-----------------------------------------------------------------------------
(* The time of day.                                                        *)

Tick == ALT_US \div TickRate

LEMMA Products ==
  ASSUME NEW x \in Int, NEW y \in Int, NEW a \in Nat, x < y
  PROVE  x * a + a <= y * a
  <1>1. PICK k \in Nat : y = x + 1 + k
    <2>1. y - x - 1 \in Nat /\ y = x + 1 + (y - x - 1)
      OBVIOUS
    <2> QED
      BY <2>1
  <1>2. y * a = x * a + a + k * a /\ k * a >= 0
    BY <1>1
  <1> QED
    BY <1>2

LEMMA Divided ==
  ASSUME NEW x \in Nat, NEW a \in Nat, a > 0
  PROVE  /\ x \div a \in Nat /\ x % a \in Nat /\ x % a < a
         /\ x = (x \div a) * a + (x % a)
  OBVIOUS

LEMMA Euclid ==
  ASSUME NEW x \in Nat, NEW a \in Nat, a > 0, NEW q \in Nat, NEW m \in Nat, m < a, x = q * a + m
  PROVE  x % a = m
  <1> DEFINE d == x \div a
             e == x % a
  <1>1. d \in Nat /\ e \in Nat /\ e < a /\ x = d * a + e
    BY Divided
  <1> HIDE DEF d, e
  <1>2. d * a \in Int /\ q * a \in Int
    BY <1>1
  <1>3. CASE d < q
    <2>1. d * a + a <= q * a
      BY <1>1, <1>3, Products
    <2> QED
      BY <1>1, <1>2, <2>1
  <1>4. CASE q < d
    <2>1. q * a + a <= d * a
      BY <1>1, <1>4, Products
    <2> QED
      BY <1>1, <1>2, <2>1
  <1>5. CASE d = q
    BY <1>1, <1>2, <1>5 DEF e
  <1> QED
    BY <1>1, <1>3, <1>4, <1>5

LEMMA Rate ==
  /\ TickRate \in Nat /\ TickRate > 0 /\ ALT_US \in Nat /\ ALT_US > 0
  /\ Tick \in Nat /\ Tick > 0 /\ ALT_US = Tick * TickRate
  <1>1. TickRate \in Nat /\ TickRate > 0 /\ ALT_US \in Nat /\ ALT_US > 0 /\ ALT_US % TickRate = 0
    BY RateAssumption
  <1>2. Tick \in Nat /\ ALT_US = Tick * TickRate + 0
    BY <1>1, Divided DEF Tick
  <1>3. Tick # 0
    BY <1>1, <1>2
  <1> QED
    BY <1>1, <1>2, <1>3

\* The seconds of the ticks, and what is left of them within the second, are
\* the ticks.
LEMMA SecondsOfTicks ==
  ASSUME NEW n \in Nat
  PROVE  /\ n \div TickRate \in Nat /\ usecs(n) \in Nat /\ usecs(n) < ALT_US
         /\ (n \div TickRate) * ALT_US + usecs(n) = n * Tick
  <1> DEFINE q == n \div TickRate
             r == n % TickRate
  <1>1. q \in Nat /\ r \in Nat /\ r < TickRate /\ n = q * TickRate + r
    BY Rate, Divided
  <1> HIDE DEF r
  <1>2. n * Tick = q * ALT_US + r * Tick
    <2>1. n * Tick = q * (Tick * TickRate) + r * Tick
      BY <1>1, Rate
    <2> QED
      BY <2>1, Rate
  <1>3. r * Tick \in Nat /\ r * Tick < ALT_US
    <2>1. r * Tick + Tick <= TickRate * Tick
      BY <1>1, Rate, Products
    <2>2. r * Tick \in Nat /\ TickRate * Tick = ALT_US
      BY <1>1, Rate
    <2> QED
      BY <2>1, <2>2, Rate
  <1>4. n * Tick \in Nat /\ usecs(n) = (n * Tick) % ALT_US
    BY Rate DEF usecs, micros, Tick
  <1>5. usecs(n) = r * Tick
    BY <1>1, <1>2, <1>3, <1>4, Rate, Euclid
  <1>6. q * ALT_US \in Nat
    BY <1>1, Rate
  <1> QED
    BY <1>1, <1>2, <1>3, <1>5, <1>6

\* What alt_resettime holds is the day at tick 0, or less than a second off.
at(n) == alt_resettime.sec * ALT_US + alt_resettime.usec + n * Tick
DayInv ==
  /\ alt_resettime.sec \in Int /\ alt_resettime.usec \in Int
  /\ wall # Off =>
       /\ wall \in Nat
       /\ wall - at(_alt_nticks) \in 1 - ALT_US .. ALT_US - 1
       /\ exact => wall = at(_alt_nticks)

LEMMA SumOfDay ==
  ASSUME NEW s \in Int, NEW u \in Int, NEW n \in Nat
  PROVE  (s + n \div TickRate) * ALT_US + (u + usecs(n)) = s * ALT_US + u + n * Tick
  <1> DEFINE q == n \div TickRate
             r == usecs(n)
  <1>1. q \in Nat /\ r \in Nat /\ q * ALT_US + r = n * Tick
    BY SecondsOfTicks
  <1> HIDE DEF q, r
  <1>2. (s + q) * ALT_US = s * ALT_US + q * ALT_US
    BY <1>1, Rate
  <1>3. (s + q) * ALT_US + (u + r) = s * ALT_US + u + n * Tick
    <2>1. s * ALT_US \in Int /\ q * ALT_US \in Int /\ n * Tick \in Int
      BY <1>1, Rate
    <2> QED
      BY <1>1, <1>2, <2>1
  <1> QED
    BY <1>3 DEF q, r

LEMMA DayInductive == ClockInv /\ ClockInv' /\ DayInv /\ [Next]_vars => DayInv'
  <1> SUFFICES ASSUME ClockInv, ClockInv', DayInv, [Next]_vars
               PROVE  DayInv'
    OBVIOUS
  <1>1. _alt_nticks \in Nat /\ _alt_nticks \in Now
    BY SpanIs DEF ClockInv, ClockTypes, Now
  <1>2. CASE TickBegin
    <2>1. /\ alt_resettime' = alt_resettime /\ exact' = exact
          /\ _alt_nticks' = (_alt_nticks + 1) % Span
          /\ wall' = IF wall = Off \/ _alt_nticks' = 0 THEN Off ELSE wall + Tick
      BY <1>2 DEF TickBegin, Tick
    <2>2. CASE wall = Off \/ _alt_nticks' = 0
      BY <2>1, <2>2 DEF DayInv
    <2>3. CASE wall # Off /\ _alt_nticks' # 0
      <3>1. _alt_nticks' = _alt_nticks + 1
        BY <1>1, <2>1, <2>3, NextNow
      <3>2. (_alt_nticks + 1) * Tick = _alt_nticks * Tick + Tick
        BY <1>1, Rate
      <3>3. /\ alt_resettime.sec \in Int /\ alt_resettime.usec \in Int /\ wall \in Nat
            /\ wall - at(_alt_nticks) \in 1 - ALT_US .. ALT_US - 1
            /\ exact => wall = at(_alt_nticks)
        BY <2>3 DEF DayInv
      <3>4. alt_resettime.sec * ALT_US \in Int /\ _alt_nticks * Tick \in Int
        BY <1>1, <3>3, Rate
      <3>5. at(_alt_nticks) \in Int /\ at(_alt_nticks)' = at(_alt_nticks) + Tick
        BY <2>1, <3>1, <3>2, <3>3, <3>4, Rate DEF at
      <3>6. /\ wall' = wall + Tick /\ wall' \in Nat
            /\ wall' - at(_alt_nticks)' = wall - at(_alt_nticks)
            /\ exact' => wall' = at(_alt_nticks)'
        BY <2>1, <2>3, <3>3, <3>5, Rate
      <3> QED
        BY <2>1, <3>3, <3>6 DEF DayInv
    <2> QED
      BY <2>2, <2>3
  <1>3. CASE \E t \in Times : settimeofday(t)
    <2>1. PICK t \in Times : settimeofday(t)
      BY <1>3
    <2> DEFINE sec == (t \div ALT_US) - (_alt_nticks \div TickRate)
               usec == (t % ALT_US) - usecs(_alt_nticks)
               low == (micros(_alt_nticks) % Span) % ALT_US
    <2>2. /\ alt_resettime'.sec = sec /\ alt_resettime'.usec = (t % ALT_US) - low
          /\ wall' = t /\ exact' = fits(_alt_nticks) /\ _alt_nticks' = _alt_nticks
      BY <2>1 DEF settimeofday
    <2>3. t \in Nat
      BY RateAssumption
    <2>4. /\ t \div ALT_US \in Nat /\ t % ALT_US \in Nat
          /\ t = (t \div ALT_US) * ALT_US + (t % ALT_US)
      BY <2>3, Rate, Divided
    <2>5. _alt_nticks \div TickRate \in Nat /\ usecs(_alt_nticks) \in 0 .. ALT_US - 1
      <3>1. /\ _alt_nticks \div TickRate \in Nat
            /\ usecs(_alt_nticks) \in Nat /\ usecs(_alt_nticks) < ALT_US
        BY <1>1, SecondsOfTicks
      <3>2. \A u \in Nat : u < ALT_US => u \in 0 .. ALT_US - 1
        BY Rate
      <3> QED
        BY <3>1, <3>2
    <2>6. sec \in Int /\ usec \in Int /\ low \in 0 .. ALT_US - 1
      <3>1. micros(_alt_nticks) \in Nat
        BY <1>1, Rate DEF micros, Tick
      <3>2. micros(_alt_nticks) % Span \in Nat
        BY <3>1, SpanIs
      <3>3. low \in 0 .. ALT_US - 1
        BY <3>2, Rate, Divided
      <3> HIDE DEF low
      <3> QED
        BY <2>4, <2>5, <3>3
    <2>7. (sec + (_alt_nticks \div TickRate)) * ALT_US + (usec + usecs(_alt_nticks))
            = sec * ALT_US + usec + _alt_nticks * Tick
      BY <1>1, <2>6, SumOfDay
    <2>8. sec + (_alt_nticks \div TickRate) = t \div ALT_US /\ usec + usecs(_alt_nticks) = t % ALT_US
      BY <2>4, <2>5
    <2>9. fits(_alt_nticks) => low = usecs(_alt_nticks)
      <3> SUFFICES ASSUME fits(_alt_nticks)
                   PROVE  micros(_alt_nticks) % Span = micros(_alt_nticks)
        BY DEF usecs
      <3>1. micros(_alt_nticks) \in Nat
        BY <1>1, Rate DEF micros, Tick
      <3>2. micros(_alt_nticks) < Span
        BY DEF fits
      <3> QED
        BY <3>1, <3>2, SpanIs
    <2> HIDE DEF sec, usec, low
    <2>10. sec * ALT_US + usec + _alt_nticks * Tick = t
      BY <2>4, <2>7, <2>8
    <2>11. (t % ALT_US) - low = usec + usecs(_alt_nticks) - low /\ (t % ALT_US) - low \in Int
      BY <2>4, <2>5, <2>6, <2>8
    <2>12. sec * ALT_US \in Int /\ _alt_nticks * Tick \in Int
      BY <1>1, <2>6, Rate
    <2>13. at(_alt_nticks)' = t + usecs(_alt_nticks) - low
      <3>1. at(_alt_nticks)' = sec * ALT_US + (usec + usecs(_alt_nticks) - low) + _alt_nticks * Tick
        BY <2>2, <2>11 DEF at
      <3> QED
        BY <2>3, <2>5, <2>6, <2>10, <2>12, <3>1
    <2>14. t - at(_alt_nticks)' \in 1 - ALT_US .. ALT_US - 1
      BY <2>3, <2>5, <2>6, <2>13, Rate
    <2>15. fits(_alt_nticks) => t = at(_alt_nticks)'
      BY <2>3, <2>5, <2>9, <2>13
    <2> QED
      BY <2>2, <2>3, <2>6, <2>11, <2>14, <2>15 DEF DayInv
  <1>4. CASE UNCHANGED <<_alt_nticks, dayVars>>
    BY <1>4 DEF DayInv, dayVars, at
  <1>5. CASE Look \/ TickEnds \/ \E period \in Periods : CallbackReturns(period)
    BY <1>4, <1>5 DEF Look, TickEnds, CallbackReturns
  <1>6. CASE \E a \in Alarms : alt_alarm_stop(a) \/ \E nticks \in Delays : alt_alarm_start(a, nticks)
    BY <1>4, <1>6 DEF alt_alarm_stop, alt_alarm_start
  <1>7. CASE UNCHANGED vars
    BY <1>4, <1>7 DEF vars
  <1> QED
    BY <1>2, <1>3, <1>5, <1>6, <1>7 DEF Next

\* gettimeofday gives the time that was set and what has passed since, whatever
\* it borrows and carries on the way, until the counter rolls over; it is less
\* than a second off if the clock was set too late.
THEOREM TheDayGoesOn == Spec => []DayGoesOn
  <1>1. Init => DayInv
    <2> SUFFICES ASSUME Init
                 PROVE  DayInv
      OBVIOUS
    <2>1. /\ alt_resettime.sec = 0 /\ alt_resettime.usec = 0 /\ wall = 0 /\ _alt_nticks = 0
      BY DEF Init
    <2>2. 0 * ALT_US = 0 /\ 0 * Tick = 0
      BY Rate
    <2>3. at(_alt_nticks) = 0
      BY <2>1, <2>2 DEF at
    <2> QED
      BY <2>1, <2>3, Rate DEF DayInv
  <1>2. ClockInv /\ DayInv => DayGoesOn
    <2> SUFFICES ASSUME ClockInv, DayInv, wall # Off
                 PROVE  /\ exact => gettimeofday = wall
                        /\ gettimeofday - wall \in 1 - ALT_US .. ALT_US - 1
      BY DEF DayGoesOn
    <2> DEFINE sec == alt_resettime.sec + _alt_nticks \div TickRate
               usec == alt_resettime.usec + usecs(_alt_nticks)
               sum == at(_alt_nticks)
    <2>1. _alt_nticks \in Nat
      BY SpanIs DEF ClockInv, ClockTypes, Now
    <2>2. /\ alt_resettime.sec \in Int /\ alt_resettime.usec \in Int /\ wall \in Nat
          /\ wall - sum \in 1 - ALT_US .. ALT_US - 1
          /\ exact => wall = sum
      BY DEF DayInv
    <2>3. sec \in Int /\ usec \in Int
      BY <2>1, <2>2, SecondsOfTicks
    <2>4. sec * ALT_US + usec = sum /\ sum \in Int
      <3>1. sec * ALT_US + usec = sum
        BY <2>1, <2>2, SumOfDay DEF at
      <3>2. sec * ALT_US \in Int
        BY <2>3, Rate
      <3> QED
        BY <2>3, <3>1, <3>2
    <2>5. gettimeofday = IF usec < 0 /\ sec <= 0 THEN 0 ELSE sec * ALT_US + usec
      BY DEF gettimeofday
    <2> HIDE DEF sec, usec, sum
    <2>6. usec < 0 /\ sec <= 0 => sum < 0
      <3> SUFFICES ASSUME usec < 0, sec <= 0
                   PROVE  sum < 0
        OBVIOUS
      <3>1. sec * ALT_US <= 0 /\ sec * ALT_US \in Int
        BY <2>3, Rate
      <3> QED
        BY <2>3, <2>4, <3>1
    <2>7. CASE usec < 0 /\ sec <= 0
      <3>1. gettimeofday = 0 /\ sum < 0
        BY <2>5, <2>6, <2>7
      <3>2. wall # sum /\ 0 - wall \in 1 - ALT_US .. ALT_US - 1
        BY <2>2, <2>4, <3>1, Rate
      <3> QED
        BY <2>2, <3>1, <3>2
    <2>8. CASE ~(usec < 0 /\ sec <= 0)
      <3>1. gettimeofday = sum
        BY <2>4, <2>5, <2>8
      <3>2. sum - wall \in 1 - ALT_US .. ALT_US - 1
        BY <2>2, <2>4, Rate
      <3> QED
        BY <2>2, <3>1, <3>2
    <2> QED
      BY <2>7, <2>8
  <1> QED
    BY <1>1, <1>2, ClockInvariance, DayInductive, PTL DEF Spec
=============================================================================
