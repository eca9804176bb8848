------------------------- MODULE SharedTablesProofs -------------------------
(* Proofs about the TTL wheel (TTLWheel), for every wheel size, interval   *)
(* and set of TTLs, and about the ring buffer (RingBuffer), which          *)
(* implements BoundedFIFO for every capacity, payload and read size.       *)
EXTENDS TTLWheel, RingBuffer, SequenceTheorems, TLAPS

LEMMA DivMod ==
  ASSUME NEW a \in Nat, NEW n \in Nat \ {0}
  PROVE  /\ a \div n \in Nat
         /\ a % n \in 0 .. (n - 1)
         /\ a = n * (a \div n) + (a % n)
  OBVIOUS

LEMMA ModUnique ==
  ASSUME NEW n \in Nat \ {0}, NEW q \in Int, NEW rem \in 0 .. (n - 1)
  PROVE  (n * q + rem) % n = rem
  OBVIOUS

\* Steps rounds the TTL up to whole ticks, and to at least one.
LEMMA StepsRoundUp ==
  ASSUME NEW ttl \in TTLs
  PROVE  /\ Effective(ttl) \in Nat \ {0}
         /\ Steps(ttl) \in Nat \ {0}
         /\ Effective(ttl) <= Steps(ttl) * Interval
         /\ Effective(ttl) > (Steps(ttl) - 1) * Interval
<1> DEFINE t == Effective(ttl)
           q == t \div Interval
           rem == t % Interval
<1>1. t \in Nat \ {0} /\ Interval \in Nat \ {0}
  BY WheelAssumption DEF Effective
<1>2. q \in Nat /\ rem \in 0 .. (Interval - 1) /\ t = Interval * q + rem
  BY <1>1, DivMod, Zenon
<1>3. Steps(ttl) = IF q + (IF rem # 0 THEN 1 ELSE 0) < 1 THEN 1
                   ELSE q + (IF rem # 0 THEN 1 ELSE 0)
  BY Zenon DEF Steps
<1> HIDE DEF q, rem, t
<1>4. CASE rem = 0
  <2>1. q >= 1  BY <1>1, <1>2, <1>4
  <2>2. Steps(ttl) = q  BY <1>2, <1>3, <1>4, <2>1
  <2>. QED  BY <1>1, <1>2, <1>4, <2>1, <2>2 DEF t
<1>5. CASE rem # 0
  <2>1. Steps(ttl) = q + 1  BY <1>2, <1>3, <1>5
  <2>2. (q + 1) * Interval = Interval * q + Interval  BY <1>1, <1>2
  <2>3. (q + 1 - 1) * Interval = Interval * q  BY <1>1, <1>2
  <2>. QED  BY <1>1, <1>2, <1>5, <2>1, <2>2, <2>3 DEF t
<1>. QED  BY <1>4, <1>5, Zenon

\* Where Upsert and Touch put an entry: never further away than its ticks, and
\* exactly at its ticks when these fit in one turn or make up whole turns.
LEMMA Placement ==
  ASSUME cursor \in Slots, NEW s \in Nat \ {0}
  PROVE  /\ TargetSlot(s) \in Slots
         /\ Rounds(s) \in Nat
         /\ Ahead(cursor, TargetSlot(s)) \in 1 .. SlotCount
         /\ Ahead(cursor, TargetSlot(s)) + Rounds(s) * SlotCount <= s
         /\ ExactSteps(s) =>
              Ahead(cursor, TargetSlot(s)) + Rounds(s) * SlotCount = s
<1> DEFINE N == SlotCount
           q == s \div N
           m == s % N
           t == TargetSlot(s)
<1>1. N \in Nat \ {0} /\ cursor \in 0 .. (N - 1)
  BY WheelAssumption DEF Slots
<1>2. q \in Nat /\ m \in 0 .. (N - 1) /\ s = N * q + m
  BY <1>1, DivMod, Zenon
<1>3. Rounds(s) = LET rem == IF t <= cursor THEN q - 1 ELSE q
                  IN  IF rem < 0 THEN 0 ELSE rem
  BY Zenon DEF Rounds
<1>4. Ahead(cursor, t) = IF t > cursor THEN t - cursor ELSE t - cursor + N
  BY Zenon DEF Ahead
<1>5. ExactSteps(s) => q = 0 \/ m = 0
  <2>1. SUFFICES ASSUME s <= N, q # 0 PROVE m = 0
    BY Zenon DEF ExactSteps
  <2> HIDE DEF N, q, m
  <2>2. q >= 2 => N * q >= N + N
    BY <1>1, <1>2
  <2>. QED  BY <1>1, <1>2, <2>1, <2>2
<1>6. CASE cursor + m < N
  <2>1. t = cursor + m
    <3>1. cursor + s = N * q + (cursor + m)  BY <1>1, <1>2
    <3>2. (N * q + (cursor + m)) % N = cursor + m
      BY <1>1, <1>2, <1>6, ModUnique
    <3>. QED  BY <3>1, <3>2, Zenon DEF TargetSlot
  <2> HIDE DEF N, q, m, t
  <2>2. CASE m = 0
    <3>1. q >= 1  BY <1>1, <1>2, <2>2
    <3>2. Rounds(s) = q - 1  BY <1>1, <1>2, <1>3, <2>1, <2>2, <3>1
    <3>3. Ahead(cursor, t) = N  BY <1>1, <1>4, <2>1, <2>2
    <3>4. N + (q - 1) * N = N * q  BY <1>1, <1>2
    <3>. QED  BY <1>1, <1>2, <1>5, <2>1, <2>2, <3>1, <3>2, <3>3, <3>4 DEF Slots, N, t
  <2>3. CASE m # 0
    <3>1. Rounds(s) = q  BY <1>1, <1>2, <1>3, <2>1, <2>3
    <3>2. Ahead(cursor, t) = m  BY <1>1, <1>2, <1>4, <2>1, <2>3
    <3>3. q * N = N * q  BY <1>1, <1>2
    <3>. QED  BY <1>1, <1>2, <1>5, <1>6, <2>1, <2>3, <3>1, <3>2, <3>3 DEF Slots, N, t
  <2>. QED  BY <2>2, <2>3, Zenon
<1>7. CASE cursor + m >= N
  <2>1. t = cursor + m - N
    <3>1. cursor + s = N * (q + 1) + (cursor + m - N)  BY <1>1, <1>2
    <3>2. (N * (q + 1) + (cursor + m - N)) % N = cursor + m - N
      <4>1. q + 1 \in Int /\ cursor + m - N \in 0 .. (N - 1)
        BY <1>1, <1>2, <1>7
      <4> HIDE DEF N, q, m
      <4>. QED  BY <1>1, <4>1, ModUnique, Zenon
    <3>. QED  BY <3>1, <3>2, Zenon DEF TargetSlot
  <2> HIDE DEF N, q, m, t
  <2>2. t < cursor /\ Ahead(cursor, t) = m /\ m > 0  BY <1>1, <1>2, <1>4, <1>7, <2>1
  <2>3. Rounds(s) = IF q = 0 THEN 0 ELSE q - 1  BY <1>1, <1>2, <1>3, <2>1, <2>2
  <2>4. q * N = N * q /\ (q - 1) * N = N * q - N  BY <1>1, <1>2
  <2>. QED  BY <1>1, <1>2, <1>5, <1>7, <2>1, <2>2, <2>3, <2>4 DEF Slots, N, t
<1>. QED  BY <1>1, <1>2, <1>6, <1>7

-----------------------------------------------------------------------------
(* What one tick does to the distance of a slot, and of an armed entry.    *)

LEMMA CursorAdvances ==
  ASSUME NEW c \in Slots, NEW s \in Slots, NEW d, d = (c + 1) % SlotCount
  PROVE  /\ d \in Slots
         /\ s = d => Ahead(c, s) = 1 /\ Ahead(d, s) = SlotCount
         /\ s # d => Ahead(c, s) >= 2 /\ Ahead(d, s) = Ahead(c, s) - 1
<1>1. SlotCount \in Nat \ {0} /\ SlotCount >= 4  BY WheelAssumption
<1>2. CASE c + 1 < SlotCount
  <2>1. d = c + 1  BY <1>1, <1>2, ModUnique DEF Slots
  <2>. QED  BY <1>1, <1>2, <2>1 DEF Slots, Ahead
<1>3. CASE c + 1 = SlotCount
  <2>1. d = 0  BY <1>1, <1>3, ModUnique DEF Slots
  <2>. QED  BY <1>1, <1>3, <2>1 DEF Slots, Ahead
<1>. QED  BY <1>1, <1>2, <1>3 DEF Slots

LEMMA EntryFacts ==
  ASSUME TypeOK, NEW k \in Keys, Armed(k)
  PROVE  /\ entries[k] \in Entry
         /\ entries[k].slot \in Slots
         /\ entries[k].rounds \in Nat
         /\ Ahead(cursor, entries[k].slot) \in 1 .. SlotCount
         /\ TicksLeft(k) \in Nat \ {0}
<1>1. entries[k] \in Entry  BY Zenon DEF TypeOK, Armed
<1>2. entries[k].slot \in Slots /\ entries[k].rounds \in Nat  BY <1>1, Zenon DEF Entry
<1>3. SlotCount \in Nat \ {0} /\ cursor \in Slots  BY WheelAssumption DEF TypeOK
<1>4. Ahead(cursor, entries[k].slot) \in 1 .. SlotCount  BY <1>2, <1>3 DEF Ahead, Slots
<1>5. entries[k].rounds * SlotCount \in Nat  BY <1>2, <1>3
<1>. QED  BY <1>1, <1>2, <1>3, <1>4, <1>5 DEF TicksLeft

LEMMA EntryNotAbsent ==
  ASSUME NEW e \in Entry
  PROVE  e # Absent
  BY WheelAssumption DEF Entry, Absent, Slots

\* A tick brings an armed entry one tick closer, or fires it, and it fires
\* exactly the entries that are one tick away.
LEMMA TickMoves ==
  ASSUME TypeOK, MapsAgree, tick, NEW k \in Keys, Armed(k)
  PROVE  /\ k \in Expiring(cursor') => TicksLeft(k) = 1
         /\ k \notin Expiring(cursor') =>
              /\ entries'[k] \in Entry
              /\ entries'[k].slot = entries[k].slot
              /\ TicksLeft(k) >= 2
              /\ TicksLeft(k)' = TicksLeft(k) - 1
<1> DEFINE c == (cursor + 1) % SlotCount
           e == entries[k]
<1>1. cursor' = c /\ cursor \in Slots  BY Zenon DEF tick, TypeOK
<1>2. /\ e \in Entry /\ e.slot \in Slots /\ e.rounds \in Nat
      /\ Ahead(cursor, e.slot) \in 1 .. SlotCount
  BY EntryFacts, Zenon
<1>3. /\ cursor' \in Slots
      /\ e.slot = cursor' => /\ Ahead(cursor, e.slot) = 1
                             /\ Ahead(cursor', e.slot) = SlotCount
      /\ e.slot # cursor' => /\ Ahead(cursor, e.slot) >= 2
                             /\ Ahead(cursor', e.slot) = Ahead(cursor, e.slot) - 1
  BY <1>1, <1>2, CursorAdvances
<1>4. k \in slots[cursor'] <=> e.slot = cursor'  BY <1>3, Zenon DEF MapsAgree
<1>5. k \in Expiring(cursor') <=> e.slot = cursor' /\ e.rounds = 0
  BY <1>4, Zenon DEF Expiring
<1>6. SlotCount \in Nat \ {0} /\ SlotCount >= 4  BY WheelAssumption
<1>7. CASE k \in Expiring(cursor')
  BY <1>2, <1>3, <1>5, <1>6, <1>7 DEF TicksLeft
<1>8. CASE k \notin Expiring(cursor') /\ e.slot = cursor'
  <2>1. entries'[k] = [e EXCEPT !.rounds = @ - 1]
    BY <1>1, <1>4, <1>8, Zenon DEF tick
  <2>2. entries'[k] = [slot |-> e.slot, rounds |-> e.rounds - 1]
    BY <2>1, <1>2, Zenon DEF Entry
  <2>3. e.rounds >= 1  BY <1>2, <1>5, <1>8
  <2>4. entries'[k] \in Entry  BY <1>2, <2>2, <2>3 DEF Entry
  <2>5. TicksLeft(k)' = SlotCount + (e.rounds - 1) * SlotCount
    BY <1>3, <1>8, <2>2 DEF TicksLeft
  <2>6. TicksLeft(k) = 1 + e.rounds * SlotCount  BY <1>3, <1>8, Zenon DEF TicksLeft
  <2> HIDE DEF e
  <2>7. SlotCount + (e.rounds - 1) * SlotCount = e.rounds * SlotCount
    BY <1>2, <1>6
  <2>8. e.rounds * SlotCount \in Nat /\ e.rounds * SlotCount >= 1
    BY <1>2, <1>6, <2>3
  <2>. QED  BY <1>8, <2>2, <2>4, <2>5, <2>6, <2>7, <2>8 DEF e
<1>9. CASE e.slot # cursor'
  <2>1. entries'[k] = e  BY <1>1, <1>4, <1>5, <1>9, Zenon DEF tick
  <2>2. e.rounds * SlotCount \in Nat  BY <1>2, <1>6
  <2>3. TicksLeft(k)' = Ahead(cursor', e.slot) + e.rounds * SlotCount
    BY <2>1, Zenon DEF TicksLeft
  <2>. QED  BY <1>2, <1>3, <1>5, <1>9, <2>1, <2>2, <2>3 DEF TicksLeft
<1>. QED  BY <1>7, <1>8, <1>9, Zenon

-----------------------------------------------------------------------------
(* The inductive invariant.  Neither the type invariant nor the agreement  *)
(* of the maps is inductive alone: a tick decrements the entry of every    *)
(* key it finds in a slot, so it needs MapsAgree to know that there is     *)
(* one, and NotLate to know that a key that stays has TTL left.            *)

IInv == TypeOK /\ MapsAgree /\ NotLate

LEMMA InitIInv == Init => IInv
<1> SUFFICES ASSUME Init PROVE IInv  OBVIOUS
<1>1. TypeOK
  BY WheelAssumption DEF Init, TypeOK, Slots
<1>2. \A k \in Keys : ~Armed(k)  BY Zenon DEF Init, Armed
<1>3. MapsAgree  BY <1>2, Zenon DEF Init, MapsAgree
<1>. QED  BY <1>1, <1>2, <1>3, Zenon DEF IInv, NotLate

\* SlotsWithout(k) takes k out of every slot and leaves the other keys alone.
LEMMA SlotsWithoutRemoves ==
  ASSUME TypeOK, MapsAgree, NEW k \in Keys
  PROVE  /\ SlotsWithout(k) \in [Slots -> SUBSET Keys]
         /\ \A j \in Keys, s \in Slots :
              j \in SlotsWithout(k)[s] <=> j # k /\ j \in slots[s]
<1>1. slots \in [Slots -> SUBSET Keys]  BY Zenon DEF TypeOK
<1>2. CASE Armed(k)
  <2>1. entries[k].slot \in Slots  BY <1>2, EntryFacts, Zenon
  <2>. QED  BY <1>1, <1>2, <2>1 DEF SlotsWithout, MapsAgree
<1>3. CASE ~Armed(k)
  BY <1>1, <1>3, Zenon DEF SlotsWithout, MapsAgree
<1>. QED  BY <1>2, <1>3, Zenon

\* Upsert and Touch: the entry of k is replaced, in both maps.
LEMMA PlaceIInv ==
  ASSUME IInv, NEW k \in Keys, NEW ttl \in TTLs, Place(k, ttl),
         UNCHANGED <<cursor, callbacks, loop>>
  PROVE  /\ IInv'
         /\ Armed(k)'
         /\ \A j \in Keys \ {k} : /\ Armed(j)' <=> Armed(j)
                                  /\ TicksLeft(j)' = TicksLeft(j)
                                  /\ due'[j] = due[j]
         /\ ExactSteps(Steps(ttl)) => due'[k] <= TicksLeft(k)' * Interval
<1> DEFINE st == Steps(ttl)
           t == TargetSlot(st)
           e == [slot |-> t, rounds |-> Rounds(st)]
<1>1. TypeOK /\ MapsAgree /\ NotLate  BY Zenon DEF IInv
<1>2. /\ Effective(ttl) \in Nat \ {0} /\ st \in Nat \ {0}
      /\ Effective(ttl) <= st * Interval
      /\ Effective(ttl) > (st - 1) * Interval
  BY StepsRoundUp, Zenon
<1>3. /\ t \in Slots /\ Rounds(st) \in Nat
      /\ Ahead(cursor, t) \in 1 .. SlotCount
      /\ Ahead(cursor, t) + Rounds(st) * SlotCount <= st
      /\ ExactSteps(st) => Ahead(cursor, t) + Rounds(st) * SlotCount = st
  BY <1>1, <1>2, Placement, Zenon DEF TypeOK
<1>4. /\ slots' = [SlotsWithout(k) EXCEPT ![t] = @ \cup {k}]
      /\ entries' = [entries EXCEPT ![k] = e]
      /\ due' = [due EXCEPT ![k] = Effective(ttl)]
  BY Zenon DEF Place
<1> HIDE DEF st, t
<1>5. e \in Entry /\ e # Absent /\ e.slot = t /\ e.rounds = Rounds(st)
  <2>1. e \in Entry  BY <1>3, Zenon DEF Entry
  <2>. QED  BY <2>1, EntryNotAbsent, Zenon
<1> HIDE DEF e
<1>6. entries'[k] = e /\ \A j \in Keys \ {k} : entries'[j] = entries[j]
  BY <1>1, <1>4, Zenon DEF TypeOK
<1>7. due'[k] = Effective(ttl) /\ \A j \in Keys \ {k} : due'[j] = due[j]
  BY <1>1, <1>4, Zenon DEF TypeOK
<1>8. Armed(k)' /\ \A j \in Keys \ {k} : Armed(j)' <=> Armed(j)
  BY <1>5, <1>6, Zenon DEF Armed
<1>9. /\ TicksLeft(k)' = Ahead(cursor, t) + Rounds(st) * SlotCount
      /\ \A j \in Keys \ {k} : TicksLeft(j)' = TicksLeft(j)
  BY <1>5, <1>6, Zenon DEF TicksLeft
<1>10. /\ SlotsWithout(k) \in [Slots -> SUBSET Keys]
       /\ \A j \in Keys, s \in Slots :
            j \in SlotsWithout(k)[s] <=> j # k /\ j \in slots[s]
  BY <1>1, SlotsWithoutRemoves, Zenon
<1>11. TypeOK'
  BY <1>1, <1>2, <1>3, <1>4, <1>5, <1>10 DEF TypeOK
<1>12. MapsAgree'
  <2> SUFFICES ASSUME NEW j \in Keys, NEW s \in Slots
               PROVE  j \in slots'[s] <=> (Armed(j)' /\ entries'[j].slot = s)
    BY Zenon DEF MapsAgree
  <2>1. j \in slots'[s] <=> (j \in SlotsWithout(k)[s] \/ (s = t /\ j = k))
    BY <1>3, <1>4, <1>10, Zenon
  <2>2. CASE j = k
    BY <1>5, <1>6, <1>8, <1>10, <2>1, <2>2, Zenon
  <2>3. CASE j # k
    BY <1>1, <1>6, <1>8, <1>10, <2>1, <2>3 DEF MapsAgree
  <2>. QED  BY <2>2, <2>3, Zenon
<1>13. SlotCount \in Nat \ {0} /\ Interval \in Nat \ {0}  BY WheelAssumption
<1>14. Rounds(st) * SlotCount \in Nat  BY <1>3, <1>13
<1>15. due'[k] > (TicksLeft(k)' - 1) * Interval
  <2> DEFINE L == TicksLeft(k)'
  <2>1. L \in Nat /\ L <= st  BY <1>3, <1>9, <1>14, <1>13
  <2> HIDE DEF L
  <2>2. (L - 1) * Interval <= (st - 1) * Interval  BY <1>2, <1>13, <2>1
  <2>3. (L - 1) * Interval \in Int /\ (st - 1) * Interval \in Int
    BY <1>2, <1>13, <2>1
  <2>. QED  BY <1>2, <1>7, <2>2, <2>3 DEF L
<1>16. NotLate'
  BY <1>1, <1>7, <1>8, <1>9, <1>15, Zenon DEF NotLate
<1>17. ExactSteps(st) => due'[k] <= TicksLeft(k)' * Interval
  <2> SUFFICES ASSUME ExactSteps(st) PROVE TicksLeft(k)' = st
    BY <1>2, <1>7, Zenon
  <2>. QED  BY <1>2, <1>3, <1>9, <1>13, Zenon
<1>. QED  BY <1>7, <1>8, <1>9, <1>11, <1>12, <1>16, <1>17, Zenon DEF IInv, st

LEMMA RemoveIInv ==
  ASSUME IInv, NEW k \in Keys, Remove(k)
  PROVE  /\ IInv'
         /\ \A j \in Keys : Armed(j)' => /\ Armed(j)
                                         /\ TicksLeft(j)' = TicksLeft(j)
                                         /\ due'[j] = due[j]
<1>1. TypeOK /\ MapsAgree /\ NotLate  BY Zenon DEF IInv
<1>2. /\ slots' = SlotsWithout(k)
      /\ entries' = [entries EXCEPT ![k] = Absent]
      /\ due' = [due EXCEPT ![k] = 0]
      /\ UNCHANGED <<cursor, callbacks, loop>>
  BY Zenon DEF Remove
<1>3. /\ SlotsWithout(k) \in [Slots -> SUBSET Keys]
      /\ \A j \in Keys, s \in Slots :
           j \in SlotsWithout(k)[s] <=> j # k /\ j \in slots[s]
  BY <1>1, SlotsWithoutRemoves, Zenon
<1>4. entries'[k] = Absent /\ \A j \in Keys \ {k} : entries'[j] = entries[j]
  BY <1>1, <1>2, Zenon DEF TypeOK
<1>5. ~Armed(k)' /\ \A j \in Keys \ {k} : Armed(j)' <=> Armed(j)
  BY <1>4, Zenon DEF Armed
<1>6. \A j \in Keys \ {k} : TicksLeft(j)' = TicksLeft(j) /\ due'[j] = due[j]
  BY <1>1, <1>2, <1>4, Zenon DEF TicksLeft, TypeOK
<1>7. TypeOK'  BY <1>1, <1>2, <1>3, Zenon DEF TypeOK
<1>8. MapsAgree'  BY <1>1, <1>2, <1>3, <1>4, <1>5 DEF MapsAgree
<1>9. NotLate'  BY <1>1, <1>5, <1>6, Zenon DEF NotLate
<1>. QED  BY <1>5, <1>6, <1>7, <1>8, <1>9, Zenon DEF IInv

LEMMA TickIInv ==
  ASSUME IInv, tick
  PROVE  /\ IInv'
         /\ \A j \in Keys : Armed(j)' => /\ Armed(j)
                                         /\ TicksLeft(j) >= 2
                                         /\ TicksLeft(j)' = TicksLeft(j) - 1
                                         /\ due'[j] = due[j] - Interval
<1> DEFINE fire == Expiring(cursor')
<1>1. TypeOK /\ MapsAgree /\ NotLate  BY Zenon DEF IInv
<1>2. Interval \in Nat \ {0} /\ cursor' \in Slots
  BY <1>1, WheelAssumption, CursorAdvances DEF tick, TypeOK
<1>3. /\ slots' = [slots EXCEPT ![cursor'] = @ \ fire]
      /\ entries' = [k \in Keys |->
                       IF k \in fire THEN Absent
                       ELSE IF k \in slots[cursor']
                            THEN [entries[k] EXCEPT !.rounds = @ - 1]
                            ELSE entries[k]]
      /\ callbacks' = fire
      /\ due' = [k \in Keys |->
                   IF k \in fire \/ ~Armed(k) THEN 0 ELSE due[k] - Interval]
      /\ UNCHANGED loop
  BY Zenon DEF tick
<1>4. fire \subseteq Keys /\ fire \subseteq slots[cursor']
  BY <1>1, <1>2, Zenon DEF Expiring, TypeOK
<1> HIDE DEF fire
<1>5. \A k \in Keys : ~Armed(k) => k \notin slots[cursor'] /\ entries'[k] = Absent
  BY <1>1, <1>2, <1>3, <1>4, Zenon DEF MapsAgree, Armed
<1>6. \A k \in fire : entries'[k] = Absent
  BY <1>3, <1>4, Zenon
<1>7. ASSUME NEW k \in Keys, Armed(k), k \notin fire
      PROVE  /\ entries'[k] \in Entry
             /\ entries'[k] # Absent
             /\ entries'[k].slot = entries[k].slot
             /\ TicksLeft(k) >= 2
             /\ TicksLeft(k)' = TicksLeft(k) - 1
             /\ due'[k] = due[k] - Interval
             /\ due'[k] \in Nat
             /\ due'[k] > (TicksLeft(k)' - 1) * Interval
  <2> DEFINE L == TicksLeft(k)
  <2>1. /\ entries'[k] \in Entry /\ entries'[k].slot = entries[k].slot
        /\ L >= 2 /\ TicksLeft(k)' = L - 1
    BY <1>1, <1>7, TickMoves, Zenon DEF fire
  <2>2. entries'[k] # Absent  BY <2>1, EntryNotAbsent, Zenon
  <2>3. L \in Nat  BY <1>1, <1>7, EntryFacts, Zenon
  <2>4. due'[k] = due[k] - Interval /\ due[k] \in Nat
    BY <1>1, <1>3, <1>7, Zenon DEF TypeOK
  <2>5. due[k] > (L - 1) * Interval  BY <1>1, <1>7, Zenon DEF NotLate
  <2> HIDE DEF L
  <2>6. (L - 1) * Interval = (L - 1 - 1) * Interval + Interval  BY <1>2, <2>3
  <2>7. (L - 1 - 1) * Interval \in Nat  BY <1>2, <2>1, <2>3
  <2>. QED  BY <1>2, <2>1, <2>2, <2>4, <2>5, <2>6, <2>7 DEF L
<1>8. \A k \in Keys : Armed(k)' <=> Armed(k) /\ k \notin fire
  BY <1>5, <1>6, <1>7, Zenon DEF Armed
<1>9. TypeOK'
  <2>1. slots' \in [Slots -> SUBSET Keys]  BY <1>1, <1>2, <1>3, Zenon DEF TypeOK
  <2>2. \A k \in Keys : entries'[k] \in Entry \cup {Absent}
    BY <1>5, <1>6, <1>7, Zenon
  <2>3. entries' \in [Keys -> Entry \cup {Absent}]  BY <1>3, <2>2, Zenon
  <2>4. \A k \in Keys : due'[k] \in Nat  BY <1>3, <1>7, Zenon
  <2>5. due' \in [Keys -> Nat]  BY <1>3, <2>4, Zenon
  <2>. QED  BY <1>1, <1>2, <1>3, <1>4, <2>1, <2>3, <2>5, Zenon DEF TypeOK
<1>10. MapsAgree'
  <2> SUFFICES ASSUME NEW k \in Keys, NEW s \in Slots
               PROVE  k \in slots'[s] <=> (Armed(k)' /\ entries'[k].slot = s)
    BY Zenon DEF MapsAgree
  <2>1. k \in slots[s] <=> (Armed(k) /\ entries[k].slot = s)
    BY <1>1, Zenon DEF MapsAgree
  <2>2. k \in slots'[s] <=> k \in slots[s] /\ ~(s = cursor' /\ k \in fire)
    BY <1>1, <1>2, <1>3, Zenon DEF TypeOK
  <2>3. k \in fire /\ k \in slots[s] => s = cursor'
    BY <1>1, <1>2, <1>4, <2>1, Zenon DEF MapsAgree
  <2>. QED  BY <1>7, <1>8, <2>1, <2>2, <2>3, Zenon
<1>11. NotLate'  BY <1>7, <1>8, Zenon DEF NotLate
<1>. QED  BY <1>7, <1>8, <1>9, <1>10, <1>11, Zenon DEF IInv

\* The steps that touch neither the wheel's maps nor its cursor.
LEMMA OtherIInv ==
  ASSUME IInv,
         \/ \E k \in Keys : RunCallback(k)
         \/ Close
         \/ runExit
         \/ UNCHANGED vars
  PROVE  /\ IInv'
         /\ UNCHANGED <<cursor, slots, entries, due>>
<1>1. UNCHANGED <<cursor, slots, entries, due>>
  BY Zenon DEF RunCallback, Close, runExit, vars
<1>2. callbacks' \in SUBSET Keys /\ loop' \in {"run", "stop", "exit"}
  BY Zenon DEF RunCallback, Close, runExit, vars, IInv, TypeOK
<1>3. TypeOK'  BY <1>1, <1>2, Zenon DEF IInv, TypeOK
<1>4. MapsAgree' /\ NotLate'
  BY <1>1, Zenon DEF IInv, MapsAgree, NotLate, Armed, TicksLeft
<1>. QED  BY <1>1, <1>3, <1>4, Zenon DEF IInv

LEMMA NextIInv == IInv /\ [Next]_vars => IInv'
<1> SUFFICES ASSUME IInv, [Next]_vars PROVE IInv'  OBVIOUS
<1>1. ASSUME NEW k \in Keys, NEW ttl \in TTLs, Upsert(k, ttl) \/ Touch(k, ttl)
      PROVE  IInv'
  BY <1>1, PlaceIInv, Zenon DEF Upsert, Touch
<1>2. ASSUME NEW k \in Keys, Remove(k) PROVE IInv'
  BY <1>2, RemoveIInv, Zenon
<1>3. CASE tick  BY <1>3, TickIInv, Zenon
<1>4. CASE \/ \E k \in Keys : RunCallback(k)
           \/ Close
           \/ runExit
           \/ UNCHANGED vars
  BY <1>4, OtherIInv, Zenon
<1>. QED  BY <1>1, <1>2, <1>3, <1>4, Zenon DEF Next

LEMMA IInvAlways == Spec => []IInv
  BY InitIInv, NextIInv, PTL DEF Spec

\* Type correctness of the wheel.
THEOREM WheelTypeOK == Spec => []TypeOK
<1>1. IInv => TypeOK  BY Zenon DEF IInv
<1>. QED  BY <1>1, IInvAlways, PTL

\* The slot maps and the entry map never disagree, for any wheel and any TTLs.
THEOREM WheelMapsAgree == Spec => []MapsAgree
<1>1. IInv => MapsAgree  BY Zenon DEF IInv
<1>. QED  BY <1>1, IInvAlways, PTL

\* No entry waits longer than its TTL, for any wheel and any TTLs, also those
\* longer than a turn of the wheel.
THEOREM WheelNotLate == Spec => []NotLate
<1>1. IInv => NotLate  BY Zenon DEF IInv
<1>. QED  BY <1>1, IInvAlways, PTL

-----------------------------------------------------------------------------
(* The other bound needs TTLs of at most one turn, or of whole turns: the  *)
(* code computes one round too few for some of the others.                 *)

OnTimeInv == IInv /\ OnTime

LEMMA NextOnTime ==
  ASSUME ExactTTLs
  PROVE  OnTimeInv /\ [Next]_vars => OnTimeInv'
<1> SUFFICES ASSUME OnTimeInv, [Next]_vars PROVE OnTimeInv'  OBVIOUS
<1>1. IInv /\ IInv'  BY NextIInv, Zenon DEF OnTimeInv
<1>2. \A j \in Keys : Armed(j) => due[j] <= TicksLeft(j) * Interval
  BY Zenon DEF OnTimeInv, OnTime
<1>3. SUFFICES \A j \in Keys : Armed(j)' => due'[j] <= TicksLeft(j)' * Interval
  <2>1. NotLate'  BY <1>1, Zenon DEF IInv
  <2>. QED  BY <1>1, <1>3, <2>1, Zenon DEF OnTimeInv, OnTime
<1>4. ASSUME NEW k \in Keys, NEW ttl \in TTLs, Upsert(k, ttl) \/ Touch(k, ttl)
      PROVE  \A j \in Keys : Armed(j)' => due'[j] <= TicksLeft(j)' * Interval
  <2>1. Place(k, ttl) /\ UNCHANGED <<cursor, callbacks, loop>>
    BY <1>4, Zenon DEF Upsert, Touch
  <2>2. ExactSteps(Steps(ttl))  BY Zenon DEF ExactTTLs
  <2>. QED  BY <1>1, <1>2, <2>1, <2>2, PlaceIInv, Zenon
<1>5. ASSUME NEW k \in Keys, Remove(k)
      PROVE  \A j \in Keys : Armed(j)' => due'[j] <= TicksLeft(j)' * Interval
  BY <1>1, <1>2, <1>5, RemoveIInv, Zenon
<1>6. CASE tick
  <2> SUFFICES ASSUME NEW j \in Keys, Armed(j)'
               PROVE  due'[j] <= TicksLeft(j)' * Interval
    OBVIOUS
  <2> DEFINE L == TicksLeft(j)
  <2>1. Armed(j) /\ L >= 2 /\ TicksLeft(j)' = L - 1 /\ due'[j] = due[j] - Interval
    BY <1>1, <1>6, TickIInv, Zenon
  <2>2. L \in Nat /\ due[j] \in Nat
    BY <1>1, <2>1, EntryFacts, Zenon DEF IInv, TypeOK
  <2>3. due[j] <= L * Interval  BY <1>2, <2>1, Zenon
  <2> HIDE DEF L
  <2>4. Interval \in Nat /\ (L - 1) * Interval = L * Interval - Interval
    BY <2>2, WheelAssumption
  <2>5. L * Interval \in Nat  BY <2>2, <2>4
  <2>. QED  BY <2>1, <2>2, <2>3, <2>4, <2>5
<1>7. CASE \/ \E k \in Keys : RunCallback(k)
           \/ Close
           \/ runExit
           \/ UNCHANGED vars
  BY <1>1, <1>2, <1>7, OtherIInv, Zenon DEF Armed, TicksLeft
<1>. QED  BY <1>4, <1>5, <1>6, <1>7, Zenon DEF Next

LEMMA OnTimeInvAlways ==
  ASSUME ExactTTLs
  PROVE  Spec => []OnTimeInv
<1>1. Init => OnTimeInv
  <2>1. Init => \A k \in Keys : ~Armed(k)  BY Zenon DEF Init, Armed
  <2>. QED  BY <2>1, InitIInv, Zenon DEF OnTimeInv, OnTime, IInv
<1>2. OnTimeInv /\ [Next]_vars => OnTimeInv'  BY NextOnTime, Zenon
<1>. QED  BY <1>1, <1>2, PTL DEF Spec

\* With TTLs of at most one turn of the wheel or of whole turns, the position
\* of every armed entry encodes its remaining TTL exactly.
THEOREM WheelOnTime ==
  ASSUME ExactTTLs
  PROVE  Spec => []OnTime
<1>1. OnTimeInv => OnTime  BY Zenon DEF OnTimeInv
<1>. QED  BY <1>1, OnTimeInvAlways, PTL

\* With TTLs of at most one turn of the wheel or of whole turns, no entry ever
\* expires early.
THEOREM WheelNeverEarly ==
  ASSUME ExactTTLs
  PROVE  Spec => NeverEarly
<1> DEFINE Early(k) == Armed(k) /\ k \in callbacks' \ callbacks
<1>1. ASSUME OnTimeInv, [Next]_vars
      PROVE  [\A k \in Keys : Early(k) => due[k] <= Interval]_vars
  <2> SUFFICES ASSUME NEW k \in Keys, Early(k) PROVE due[k] <= Interval
    OBVIOUS
  <2>1. tick
    BY <1>1, Zenon DEF Next, Upsert, Touch, Remove, RunCallback, Close, runExit, vars
  <2>2. k \in Expiring(cursor')  BY <2>1, Zenon DEF tick
  <2>3. TypeOK /\ MapsAgree /\ due[k] <= TicksLeft(k) * Interval
    BY <1>1, Zenon DEF OnTimeInv, IInv, OnTime
  <2>4. TicksLeft(k) = 1  BY <2>1, <2>2, <2>3, TickMoves, Zenon
  <2>. QED  BY <2>3, <2>4, WheelAssumption
<1>. QED  BY <1>1, OnTimeInvAlways, PTL DEF Spec, NeverEarly

\* With TTLs of at most one turn of the wheel or of whole turns, its two maps agree
\* and the position of every entry is exact.
THEOREM WheelIsSound ==
  ASSUME ExactTTLs
  PROVE  Spec => []WheelSound
<1>1. TypeOK /\ MapsAgree /\ OnTime => WheelSound  BY Zenon DEF WheelSound
<1>. QED  BY <1>1, WheelTypeOK, WheelMapsAgree, WheelOnTime, PTL

-----------------------------------------------------------------------------
(* The ring buffer.                                                        *)

\* The write index is always size cells ahead of the read index.
RingIInv == RingType /\ w = (r + size) % Capacity

\* All indices stay below twice the capacity, where % subtracts once or not.
LEMMA Wrap ==
  ASSUME NEW n \in Nat \ {0}, NEW x \in Nat, x < n + n, NEW c, c = x % n
  PROVE  /\ c \in 0 .. (n - 1)
         /\ x < n => c = x
         /\ x >= n => c = x - n
<1>1. ASSUME NEW q \in Int, NEW t \in 0 .. (n - 1)
      PROVE  (n * q + t) % n = t
  OBVIOUS
<1>2. ASSUME x < n PROVE x % n = x
  <2>1. x % n = (n * 0 + x) % n  OBVIOUS
  <2>. QED  BY <1>1, <1>2, <2>1
<1>3. ASSUME x >= n PROVE x % n = x - n
  <2>1. x = n * 1 + (x - n)  OBVIOUS
  <2>2. x - n \in 0 .. (n - 1)  BY <1>3
  <2>. QED  BY <1>1, <2>1, <2>2
<1>. QED  BY <1>2, <1>3

\* The s cells of array b from cell a on, as a sequence; Content is one.
Window(b, a, s) == [i \in 1 .. s |-> b[(a + i - 1) % Capacity]]

LEMMA WindowFacts ==
  ASSUME NEW b \in [Cells -> Data], NEW a \in Cells, NEW s \in 0 .. Capacity
  PROVE  /\ Window(b, a, s) \in Seq(Data)
         /\ Len(Window(b, a, s)) = s
         /\ \A i \in 1 .. s : Window(b, a, s)[i] = b[(a + i - 1) % Capacity]
<1>1. Capacity \in Nat \ {0}  BY RingAssumption, Zenon
<1>2. ASSUME NEW i \in 1 .. s PROVE (a + i - 1) % Capacity \in Cells
  <2>1. a + i - 1 \in Nat /\ a + i - 1 < Capacity + Capacity
    BY <1>1 DEF Cells
  <2>. QED  BY <1>1, <2>1, Wrap, Zenon DEF Cells
<1>3. s \in Nat  BY <1>1
<1>4. \A i \in 1 .. s : b[(a + i - 1) % Capacity] \in Data
  BY <1>2, Zenon
<1>. QED  BY <1>3, <1>4 DEF Window

LEMMA RingInitIInv == RingInit => RingIInv
<1> SUFFICES ASSUME RingInit PROVE RingIInv  OBVIOUS
<1>1. Capacity \in Nat \ {0}  BY RingAssumption, Zenon
<1>2. 0 % Capacity = 0  BY <1>1, Wrap
<1>3. RingType
  <2>1. closed \in BOOLEAN  BY Zenon DEF RingInit
  <2>2. r \in Cells /\ w \in Cells /\ size \in 0 .. Capacity
    BY <1>1 DEF RingInit, Cells
  <2>. QED  BY <2>1, <2>2, Zenon DEF RingInit, RingType
<1>4. r + size = 0 /\ w = 0  BY DEF RingInit
<1>. QED  BY <1>2, <1>3, <1>4, Zenon DEF RingIInv

\* The number of bytes Write stores.
LEMMA WriteCount ==
  ASSUME RingType, NEW p \in Payloads, NEW n, n = minInt(Len(p), Capacity - size)
  PROVE  /\ p \in Seq(Data) /\ Len(p) \in Nat
         /\ n \in 0 .. Len(p) /\ size + n \in 0 .. Capacity
<1>1. p \in Seq(Data) /\ Capacity \in Nat \ {0}  BY RingAssumption, Zenon
<1>2. Len(p) \in Nat  BY <1>1
<1>. QED  BY <1>1, <1>2 DEF minInt, RingType

\* What the two copies of Write leave in a cell.
LEMMA StoredFacts ==
  ASSUME RingIInv, NEW p \in Payloads, NEW n, n = minInt(Len(p), Capacity - size)
  PROVE  /\ Stored(p, n) \in [Cells -> Data]
         /\ \A i \in 1 .. size :
              Stored(p, n)[(r + i - 1) % Capacity] = buf[(r + i - 1) % Capacity]
         /\ \A i \in 1 .. n :
              Stored(p, n)[(r + (size + i) - 1) % Capacity] = p[i]
<1> DEFINE first == minInt(n, Capacity - w)
<1>1. /\ Capacity \in Nat \ {0} /\ r \in Cells /\ w \in Cells
      /\ size \in 0 .. Capacity /\ buf \in [Cells -> Data]
  BY RingAssumption, Zenon DEF RingIInv, RingType
<1>2. /\ p \in Seq(Data) /\ Len(p) \in Nat
      /\ n \in Nat /\ n <= Len(p) /\ size + n <= Capacity
  BY WriteCount, <1>1 DEF RingIInv
<1>3. first \in 0 .. n /\ first <= Capacity - w /\ (first = n \/ first = Capacity - w)
  BY <1>1, <1>2 DEF minInt, Cells
<1>4. (r + size < Capacity => w = r + size) /\ (r + size >= Capacity => w = r + size - Capacity)
  <2> DEFINE x == r + size
  <2>1. x \in Nat /\ x < Capacity + Capacity  BY <1>1 DEF Cells
  <2> HIDE DEF x
  <2>2. (x < Capacity => x % Capacity = x) /\ (x >= Capacity => x % Capacity = x - Capacity)
    BY <1>1, <2>1, Wrap, Zenon
  <2>. QED  BY <1>1, <2>1, <2>2 DEF x, Cells, RingIInv
<1>5. \A c \in Cells :
        Stored(p, n)[c] = IF w <= c /\ c <= w + first - 1 THEN p[c - w + 1]
                          ELSE IF c < n - first THEN p[first + c + 1]
                          ELSE buf[c]
  BY <1>1, <1>3 DEF Stored, Cells
<1> HIDE DEF first
<1>6. Stored(p, n) \in [Cells -> Data]
  <2>1. Stored(p, n) = [c \in Cells |-> Stored(p, n)[c]]  BY Zenon DEF Stored
  <2>2. ASSUME NEW c \in Cells PROVE Stored(p, n)[c] \in Data
    <3>1. w <= c /\ c <= w + first - 1 => c - w + 1 \in 1 .. Len(p)
      BY <1>1, <1>2, <1>3 DEF Cells
    <3>2. c < n - first => first + c + 1 \in 1 .. Len(p)
      BY <1>1, <1>2, <1>3 DEF Cells
    <3>3. \A i \in 1 .. Len(p) : p[i] \in Data  BY <1>2
    <3>. QED  BY <1>1, <1>5, <3>1, <3>2, <3>3, Zenon
  <2>. QED  BY <2>1, <2>2, Zenon
<1>7. ASSUME NEW i \in Nat \ {0}, i <= size + n, NEW c, c = (r + i - 1) % Capacity
      PROVE  /\ c \in Cells
             /\ i <= size => ~(w <= c /\ c <= w + first - 1) /\ ~(c < n - first)
             /\ i > size /\ i - size <= first =>
                  w <= c /\ c <= w + first - 1 /\ c - w + 1 = i - size
             /\ i > size /\ i - size > first =>
                  /\ ~(w <= c /\ c <= w + first - 1)
                  /\ c < n - first /\ first + c + 1 = i - size
  <2> DEFINE x == r + i - 1
  <2>1. x \in Nat /\ x < Capacity + Capacity  BY <1>1, <1>2, <1>7 DEF Cells
  <2>2. c = x % Capacity  BY <1>7, Zenon
  <2> HIDE DEF x
  <2>3. c \in 0 .. (Capacity - 1) /\ (x < Capacity => c = x) /\ (x >= Capacity => c = x - Capacity)
    BY <1>1, <2>1, <2>2, Wrap, Zenon
  <2>4. x = r + i - 1  BY Zenon DEF x
  <2>5. i \in Nat \ {0} /\ i <= size + n  BY <1>7, Zenon
  <2>. QED  BY <1>1, <1>2, <1>3, <1>4, <2>1, <2>3, <2>4, <2>5 DEF Cells
<1>8. ASSUME NEW i \in 1 .. size
      PROVE  Stored(p, n)[(r + i - 1) % Capacity] = buf[(r + i - 1) % Capacity]
  <2>1. i \in Nat \ {0} /\ i <= size /\ i <= size + n  BY <1>1, <1>2
  <2>. QED  BY <1>5, <1>7, <2>1, Zenon
<1>9. ASSUME NEW i \in 1 .. n
      PROVE  Stored(p, n)[(r + (size + i) - 1) % Capacity] = p[i]
  <2> DEFINE j == size + i
             c == (r + j - 1) % Capacity
  <2>1. j \in Nat \ {0} /\ j <= size + n /\ j > size /\ j - size = i  BY <1>1, <1>2
  <2> HIDE DEF j
  <2>2. /\ c \in Cells
        /\ i <= first => w <= c /\ c <= w + first - 1 /\ c - w + 1 = i
        /\ i > first => /\ ~(w <= c /\ c <= w + first - 1)
                        /\ c < n - first /\ first + c + 1 = i
    BY <1>7, <2>1, Zenon
  <2> HIDE DEF c
  <2>3. Stored(p, n)[c] = p[i]  BY <1>2, <1>3, <1>5, <2>2
  <2>. QED  BY <2>3, Zenon DEF c, j
<1>. QED  BY <1>6, <1>8, <1>9, Zenon

\* A Write that is not refused, and one that is.
LEMMA WriteStep ==
  ASSUME RingIInv, NEW p \in Payloads, Write(p)
  PROVE  RingIInv' /\ FIFO!Write(p)
<1> DEFINE n == minInt(Len(p), Capacity - size)
<1>1. /\ Capacity \in Nat \ {0} /\ r \in Cells /\ w \in Cells
      /\ size \in 0 .. Capacity /\ buf \in [Cells -> Data]
  BY RingAssumption, Zenon DEF RingIInv, RingType
<1>2. /\ p \in Seq(Data) /\ Len(p) \in Nat
      /\ n \in Nat /\ n <= Len(p) /\ size + n <= Capacity
  BY WriteCount, <1>1 DEF RingIInv
<1>3. Content = Window(buf, r, size) /\ Content' = Window(buf', r', size')
  BY Zenon DEF Content, Window
<1>4. Content \in Seq(Data) /\ Len(Content) = size  BY <1>1, <1>3, WindowFacts, Zenon
<1>5. CASE closed \/ p = <<>>
  <2>1. UNCHANGED <<buf, r, w, size, closed>> /\ res' = [in |-> p, max |-> 0, n |-> 0,
                                                         data |-> <<>>, flag |-> FALSE]
    BY <1>5, Zenon DEF Write
  <2>2. Content' = Content  BY <2>1, <1>3, Zenon
  <2>3. Content \o SubSeq(p, 1, 0) = Content
    BY <1>4, SubSeqEmpty, ConcatEmptySeq
  <2>4. RingIInv'
    BY <2>1, Zenon DEF RingIInv, RingType
  <2>5. (IF closed THEN 0 ELSE FIFO!minInt(Len(p), Capacity - Len(Content))) = 0
    <3>1. CASE closed  BY <3>1, Zenon
    <3>2. CASE p = <<>>
      <4>1. Len(p) = 0  BY <3>2, Zenon
      <4>. QED  BY <1>1, <1>4, <4>1 DEF FIFO!minInt
    <3>. QED  BY <1>5, <3>1, <3>2, Zenon
  <2>6. (~closed /\ Len(p) > Capacity - Len(Content)) = FALSE
    <3>1. CASE closed  BY <3>1, Zenon
    <3>2. CASE p = <<>>
      <4>1. Len(p) = 0  BY <3>2, Zenon
      <4>. QED  BY <1>1, <1>4, <4>1
    <3>. QED  BY <1>5, <3>1, <3>2, Zenon
  <2>. QED  BY <2>1, <2>2, <2>3, <2>4, <2>5, <2>6, Zenon DEF FIFO!Write
<1>6. CASE ~closed /\ p # <<>>
  <2>1. /\ buf' = Stored(p, n) /\ w' = (w + n) % Capacity /\ size' = size + n
        /\ res' = [in |-> p, max |-> 0, n |-> n,
                   data |-> <<>>, flag |-> Len(p) > Capacity - size]
        /\ UNCHANGED <<r, closed>>
    BY <1>6, Zenon DEF Write
  <2>2. FIFO!minInt(Len(p), Capacity - Len(Content)) = n
    BY <1>4, Zenon DEF FIFO!minInt, minInt
  <2> HIDE DEF n
  <2>3. /\ Stored(p, n) \in [Cells -> Data]
        /\ \A i \in 1 .. size :
             Stored(p, n)[(r + i - 1) % Capacity] = buf[(r + i - 1) % Capacity]
        /\ \A i \in 1 .. n :
             Stored(p, n)[(r + (size + i) - 1) % Capacity] = p[i]
    BY StoredFacts DEF n
  <2>4. w' \in Cells /\ w' = (r' + size') % Capacity
    <3> DEFINE x == w + n
               y == r + size
               z == r + (size + n)
    <3>1. /\ x \in Nat /\ x < Capacity + Capacity
          /\ y \in Nat /\ y < Capacity + Capacity
          /\ z \in Nat /\ z < Capacity + Capacity
          /\ z = y + n /\ x = w + n
      BY <1>1, <1>2 DEF Cells
    <3>2. w = y % Capacity /\ w' = x % Capacity /\ (r' + size') % Capacity = z % Capacity
      BY <2>1, Zenon DEF RingIInv
    <3> HIDE DEF x, y, z
    <3>3. (y < Capacity => w = y) /\ (y >= Capacity => w = y - Capacity)
      BY <1>1, <3>1, <3>2, Wrap, Zenon
    <3>4. w' \in 0 .. (Capacity - 1) /\ (x < Capacity => w' = x) /\ (x >= Capacity => w' = x - Capacity)
      BY <1>1, <3>1, <3>2, Wrap, Zenon
    <3>5. (z < Capacity => z % Capacity = z) /\ (z >= Capacity => z % Capacity = z - Capacity)
      BY <1>1, <3>1, Wrap, Zenon
    <3>6. w' = z % Capacity  BY <1>1, <1>2, <3>1, <3>3, <3>4, <3>5 DEF Cells
    <3>. QED  BY <3>2, <3>4, <3>6, Zenon DEF Cells
  <2>5. size' \in 0 .. Capacity  BY <1>1, <1>2, <2>1
  <2>6. RingIInv'  BY <2>1, <2>3, <2>4, <2>5, Zenon DEF RingIInv, RingType
  <2>7. Content' = Content \o SubSeq(p, 1, n)
    <3> DEFINE q == SubSeq(p, 1, n)
    <3>1. q \in Seq(Data) /\ Len(q) = n /\ \A i \in 1 .. n : q[i] = p[i]
      BY <1>2, SubSeqProperties
    <3>2. /\ Content \o q \in Seq(Data)
          /\ Len(Content \o q) = size + n
          /\ \A i \in 1 .. size + n :
               (Content \o q)[i] = IF i <= size THEN Content[i] ELSE q[i - size]
      <4> HIDE DEF q
      <4>1. Content \in Seq(Data) /\ Len(Content) = size
        BY <1>4, Zenon
      <4>2. /\ Content \o q \in Seq(Data) /\ Len(Content \o q) = Len(Content) + Len(q)
            /\ \A i \in 1 .. Len(Content) + Len(q) :
                 (Content \o q)[i] = IF i <= Len(Content) THEN Content[i] ELSE q[i - Len(Content)]
        BY <3>1, <4>1, ConcatProperties, Zenon
      <4> QED BY <3>1, <4>1, <4>2, Zenon
    <3>3. /\ Content' \in Seq(Data) /\ Len(Content') = size + n
          /\ \A i \in 1 .. size + n :
               Content'[i] = Stored(p, n)[(r + i - 1) % Capacity]
      BY <1>1, <1>3, <2>1, <2>3, <2>5, WindowFacts, ZenonT(30)
    <3>4. \A i \in 1 .. size : Content[i] = buf[(r + i - 1) % Capacity]
      BY <1>1, <1>3, WindowFacts, Zenon
    <3>5. ASSUME NEW i \in 1 .. size + n PROVE Content'[i] = (Content \o q)[i]
      <4>1. CASE i <= size
        <5>1. i \in 1 .. size  BY <1>1, <1>2, <4>1
        <5>. QED  BY <2>3, <3>2, <3>3, <3>4, <4>1, <5>1, Zenon
      <4>2. CASE i > size
        <5> DEFINE j == i - size
        <5>1. j \in 1 .. n /\ i = size + j /\ ~(i <= size)  BY <1>1, <1>2, <4>2
        <5>2. (Content \o q)[i] = p[j]  BY <3>1, <3>2, <5>1, Zenon
        <5> HIDE DEF j
        <5>3. Stored(p, n)[(r + i - 1) % Capacity] = p[j]  BY <2>3, <5>1, Zenon
        <5>4. Content'[i] = Stored(p, n)[(r + i - 1) % Capacity]  BY <3>3, Zenon
        <5>. QED  BY <5>2, <5>3, <5>4, Zenon
      <4>3. i <= size \/ i > size  BY <1>1, <1>2
      <4>. QED  BY <4>1, <4>2, <4>3, Zenon
    <3> HIDE DEF q
    <3>6. Content' = Content \o q  BY <3>2, <3>3, <3>5, SeqEqual, Zenon
    <3>. QED  BY <3>6, Zenon DEF q
  <2>8. (IF closed THEN 0 ELSE FIFO!minInt(Len(p), Capacity - Len(Content))) = n
    BY <1>6, <2>2, Zenon
  <2>9. (~closed /\ Len(p) > Capacity - Len(Content)) = (Len(p) > Capacity - size)
    BY <1>4, <1>6
  <2>10. UNCHANGED closed  BY <2>1, Zenon
  <2>11. res' = [in |-> p, max |-> 0, n |-> n, data |-> <<>>,
                 flag |-> ~closed /\ Len(p) > Capacity - Len(Content)]
    BY <2>1, <2>9, Zenon
  <2>. QED  BY <2>6, <2>7, <2>8, <2>10, <2>11, Zenon DEF FIFO!Write
<1>. QED  BY <1>5, <1>6, Zenon

\* What the two copies of Read return.
LEMMA CopiedFacts ==
  ASSUME RingIInv, NEW n \in 0 .. size
  PROVE  Copied(n) = SubSeq(Content, 1, n)
<1> DEFINE first == minInt(n, Capacity - r)
<1>1. /\ Capacity \in Nat \ {0} /\ r \in Cells
      /\ size \in 0 .. Capacity /\ buf \in [Cells -> Data] /\ n \in Nat /\ n <= size
  BY RingAssumption DEF RingIInv, RingType
<1>2. first \in 0 .. n /\ first <= Capacity - r /\ (first = n \/ first = Capacity - r)
  BY <1>1 DEF minInt, Cells
<1>3. Content = Window(buf, r, size)  BY Zenon DEF Content, Window
<1>4. /\ Content \in Seq(Data) /\ Len(Content) = size
      /\ \A i \in 1 .. size : Content[i] = buf[(r + i - 1) % Capacity]
  BY <1>1, <1>3, WindowFacts, Zenon
<1>5. Copied(n) = [i \in 1 .. n |-> IF i <= first THEN buf[r + i - 1] ELSE buf[i - first - 1]]
  BY Zenon DEF Copied
<1> HIDE DEF first
<1>6. ASSUME NEW i \in 1 .. n PROVE Copied(n)[i] = Content[i]
  <2> DEFINE x == r + i - 1
  <2>1. x \in Nat /\ x < Capacity + Capacity  BY <1>1 DEF Cells
  <2>2. Copied(n)[i] = IF i <= first THEN buf[x] ELSE buf[i - first - 1]  BY <1>5, Zenon
  <2>3. Content[i] = buf[x % Capacity]
    <3>1. i \in 1 .. size  BY <1>1
    <3>. QED  BY <1>4, <3>1, Zenon
  <2>4. x = r + i - 1  OBVIOUS
  <2> HIDE DEF x
  <2>5. (x < Capacity => x % Capacity = x) /\ (x >= Capacity => x % Capacity = x - Capacity)
    BY <1>1, <2>1, Wrap, Zenon
  <2>6. CASE i <= first
    <3>1. x < Capacity  BY <1>1, <1>2, <2>4, <2>6 DEF Cells
    <3>. QED  BY <2>2, <2>3, <2>5, <2>6, <3>1, Zenon
  <2>7. CASE ~(i <= first)
    <3>1. x >= Capacity /\ i - first - 1 = x - Capacity
      BY <1>1, <1>2, <2>4, <2>7 DEF Cells
    <3>. QED  BY <2>2, <2>3, <2>5, <2>7, <3>1, Zenon
  <2>. QED  BY <2>6, <2>7, Zenon
<1>7. \A i \in 1 .. n : Content[i] \in Data
  <2>1. \A i \in 1 .. n : i \in 1 .. Len(Content)  BY <1>1, <1>4
  <2>. QED  BY <1>4, <2>1, ElementOfSeq, Zenon
<1>8. Copied(n) \in Seq(Data) /\ Len(Copied(n)) = n
  <2>1. Copied(n) = [i \in 1 .. n |-> Copied(n)[i]]  BY <1>5, Zenon
  <2>2. \A i \in 1 .. n : Copied(n)[i] \in Data  BY <1>6, <1>7, Zenon
  <2>. QED  BY <1>1, <2>1, <2>2
<1>9. /\ SubSeq(Content, 1, n) \in Seq(Data) /\ Len(SubSeq(Content, 1, n)) = n
      /\ \A i \in 1 .. n : SubSeq(Content, 1, n)[i] = Content[i]
  BY <1>1, <1>7, SubSeqProperties
<1>. QED  BY <1>6, <1>8, <1>9, SeqEqual, Zenon

LEMMA ReadStep ==
  ASSUME RingIInv, NEW max \in Maxes, Read(max)
  PROVE  RingIInv' /\ FIFO!Read(max)
<1>1. /\ Capacity \in Nat \ {0} /\ r \in Cells /\ w \in Cells
      /\ size \in 0 .. Capacity /\ buf \in [Cells -> Data] /\ max \in Int
  BY RingAssumption, Zenon DEF RingIInv, RingType
<1>2. Content = Window(buf, r, size) /\ Content' = Window(buf', r', size')
  BY Zenon DEF Content, Window
<1>3. /\ Content \in Seq(Data) /\ Len(Content) = size
      /\ \A i \in 1 .. size : Content[i] = buf[(r + i - 1) % Capacity]
  BY <1>1, <1>2, WindowFacts, Zenon
<1> DEFINE n == IF max <= 0 THEN 0 ELSE FIFO!minInt(max, Len(Content))
<1>4. n \in Nat /\ n <= size  BY <1>1, <1>3 DEF FIFO!minInt
<1>5. CASE max <= 0 \/ size = 0
  <2>1. n = 0  BY <1>1, <1>3, <1>5 DEF FIFO!minInt
  <2>2. UNCHANGED <<buf, r, w, size, closed>>
    BY <1>1, <1>5 DEF Read
  <2>3. res' = [in |-> <<>>, max |-> max, n |-> 0,
                data |-> <<>>, flag |-> closed /\ size = 0]
    BY <1>1, <1>5 DEF Read
  <2>4. Content' = Content /\ RingIInv'  BY <1>2, <2>2, Zenon DEF RingIInv, RingType
  <2>5. SubSeq(Content, 1, 0) = <<>> /\ SubSeq(Content, 0 + 1, Len(Content)) = Content
    BY <1>3, SubSeqEmpty, SubSeqFull
  <2>6. (closed /\ size = 0) = (closed /\ 0 = Len(Content))  BY <1>3, Zenon
  <2>7. res' = [in |-> <<>>, max |-> max, n |-> 0,
                data |-> SubSeq(Content, 1, 0), flag |-> closed /\ 0 = Len(Content)]
    BY <2>3, <2>5, <2>6, Zenon
  <2> HIDE DEF n
  <2>8. /\ Content' = SubSeq(Content, n + 1, Len(Content))
        /\ res' = [in |-> <<>>, max |-> max, n |-> n,
                   data |-> SubSeq(Content, 1, n), flag |-> closed /\ n = Len(Content)]
        /\ UNCHANGED closed
    BY <2>1, <2>2, <2>4, <2>5, <2>7, Zenon
  <2>. QED  BY <2>4, <2>8, Zenon DEF FIFO!Read, n
<1>6. CASE max > 0 /\ size # 0
  <2>1. n = minInt(max, size)  BY <1>1, <1>3, <1>6 DEF FIFO!minInt, minInt
  <2>2. /\ r' = (r + n) % Capacity /\ size' = size - n
        /\ res' = [in |-> <<>>, max |-> max, n |-> n,
                   data |-> Copied(n), flag |-> closed /\ size - n = 0]
        /\ UNCHANGED <<buf, w, closed>>
    BY <1>1, <1>6, <2>1 DEF Read
  <2> HIDE DEF n
  <2>3. Copied(n) = SubSeq(Content, 1, n)  BY <1>1, <1>4, CopiedFacts
  <2>4. (closed /\ size - n = 0) = (closed /\ n = Len(Content))
    BY <1>1, <1>3, <1>4
  <2>5. res' = [in |-> <<>>, max |-> max, n |-> n,
                data |-> SubSeq(Content, 1, n), flag |-> closed /\ n = Len(Content)]
    BY <2>2, <2>3, <2>4, Zenon
  <2>6. size' \in 0 .. Capacity  BY <1>1, <1>4, <2>2
  <2>7. /\ r' \in Cells
        /\ r + n < Capacity => r' = r + n
        /\ r + n >= Capacity => r' = r + n - Capacity
    <3> DEFINE x == r + n
    <3>1. x \in Nat /\ x < Capacity + Capacity /\ x = r + n  BY <1>1, <1>4 DEF Cells
    <3>2. r' = x % Capacity  BY <2>2, Zenon
    <3> HIDE DEF x
    <3>3. r' \in 0 .. (Capacity - 1) /\ (x < Capacity => r' = x) /\ (x >= Capacity => r' = x - Capacity)
      BY <1>1, <3>1, <3>2, Wrap, Zenon
    <3>. QED  BY <1>1, <1>4, <3>1, <3>3 DEF Cells
  <2>8. ASSUME NEW j \in Nat, n + j <= size
        PROVE  (r' + j) % Capacity = (r + (n + j)) % Capacity
    <3> DEFINE x == r' + j
               y == r + (n + j)
    <3> DEFINE s == r'
    <3>1. /\ s \in 0 .. (Capacity - 1)
          /\ r + n < Capacity => s = r + n
          /\ r + n >= Capacity => s = r + n - Capacity
      BY <2>7, Zenon DEF Cells
    <3>2. x = s + j /\ y = r + (n + j)  OBVIOUS
    <3>3. n + j <= size  BY <2>8, Zenon
    <3> HIDE DEF s, x, y
    <3>4. /\ x \in Nat /\ x < Capacity + Capacity
          /\ y \in Nat /\ y < Capacity + Capacity
      BY <1>1, <1>4, <3>1, <3>2, <3>3 DEF Cells
    <3>5. (x < Capacity => x % Capacity = x) /\ (x >= Capacity => x % Capacity = x - Capacity)
      BY <1>1, <3>4, Wrap, Zenon
    <3>6. (y < Capacity => y % Capacity = y) /\ (y >= Capacity => y % Capacity = y - Capacity)
      BY <1>1, <3>4, Wrap, Zenon
    <3>7. x % Capacity = y % Capacity
      BY <1>1, <1>4, <3>1, <3>2, <3>3, <3>4, <3>5, <3>6 DEF Cells
    <3>. QED  BY <3>7, Zenon DEF x, y, s
  <2>9. RingIInv'
    <3> DEFINE j == size - n
    <3>1. j \in Nat /\ n + j = size  BY <1>1, <1>4
    <3>2. (r' + j) % Capacity = (r + (n + j)) % Capacity  BY <1>1, <2>8, <3>1
    <3>3. w' = (r + size) % Capacity  BY <2>2, Zenon DEF RingIInv
    <3>4. w' = (r' + size') % Capacity  BY <2>2, <3>1, <3>2, <3>3, Zenon
    <3>. QED  BY <2>2, <2>6, <2>7, <3>4, Zenon DEF RingIInv, RingType
  <2>10. Content' = SubSeq(Content, n + 1, Len(Content))
    <3> DEFINE q == SubSeq(Content, n + 1, size)
    <3>1. \A i \in n + 1 .. size : Content[i] \in Data
      <4>1. \A i \in n + 1 .. size : i \in 1 .. Len(Content)  BY <1>1, <1>3, <1>4
      <4>. QED  BY <1>3, <4>1, ElementOfSeq, Zenon
    <3>2. n + 1 \in Int /\ size \in Int  BY <1>1, <1>4
    <3>3. /\ q \in Seq(Data)
          /\ Len(q) = (IF n + 1 <= size THEN size - (n + 1) + 1 ELSE 0)
          /\ \A i \in 1 .. size - (n + 1) + 1 : q[i] = Content[n + 1 + i - 1]
      BY <3>1, <3>2, SubSeqProperties
    <3>4. Len(q) = size - n  BY <1>1, <1>4, <3>3
    <3>5. /\ Content' \in Seq(Data) /\ Len(Content') = size - n
          /\ \A i \in 1 .. size - n : Content'[i] = buf[(r' + i - 1) % Capacity]
      BY <1>1, <1>2, <2>2, <2>6, <2>7, WindowFacts, ZenonT(30)
    <3>6. ASSUME NEW i \in 1 .. size - n PROVE Content'[i] = q[i]
      <4> DEFINE j == i - 1
      <4>1. /\ j \in Nat /\ n + j <= size /\ n + i \in 1 .. size
            /\ i \in 1 .. size - (n + 1) + 1 /\ n + 1 + i - 1 = n + i
        BY <1>1, <1>4
      <4>2. q[i] = Content[n + i]  BY <3>3, <4>1, Zenon
      <4>3. Content[n + i] = buf[(r + (n + i) - 1) % Capacity]  BY <1>3, <4>1, Zenon
      <4>4. r + (n + i) - 1 = r + (n + j) /\ r' + i - 1 = r' + j
        BY <1>1, <1>4, <2>7 DEF Cells
      <4>5. (r' + j) % Capacity = (r + (n + j)) % Capacity  BY <2>8, <4>1, Zenon
      <4> HIDE DEF j
      <4>6. Content'[i] = buf[(r' + i - 1) % Capacity]  BY <3>5, Zenon
      <4>. QED  BY <4>2, <4>3, <4>4, <4>5, <4>6, Zenon
    <3> HIDE DEF q
    <3>7. Content' = q  BY <3>3, <3>4, <3>5, <3>6, SeqEqual, Zenon
    <3>. QED  BY <1>3, <3>7, Zenon DEF q
  <2>11. UNCHANGED closed  BY <2>2, Zenon
  <2>. QED  BY <2>5, <2>9, <2>10, <2>11, Zenon DEF FIFO!Read, n
<1>7. (max <= 0 \/ size = 0) \/ (max > 0 /\ size # 0)  BY <1>1
<1>. QED  BY <1>5, <1>6, <1>7, Zenon

LEMMA CloseStep ==
  ASSUME RingIInv, CloseRing
  PROVE  RingIInv' /\ FIFO!Close
<1>1. Content' = Content  BY Zenon DEF CloseRing, Content
<1>2. UNCHANGED <<buf, r, w, size, res>> /\ closed' = TRUE  BY Zenon DEF CloseRing
<1>3. closed' \in BOOLEAN  BY <1>2, Zenon
<1>4. RingIInv'  BY <1>2, <1>3, Zenon DEF RingIInv, RingType
<1>. QED  BY <1>1, <1>2, <1>4, Zenon DEF FIFO!Close

LEMMA RingStep ==
  ASSUME RingIInv, [RingNext]_ringVars
  PROVE  RingIInv' /\ [FIFO!Next]_(FIFO!vars)
<1>1. ASSUME NEW p \in Payloads, Write(p) PROVE RingIInv' /\ FIFO!Next
  BY <1>1, WriteStep, Zenon DEF FIFO!Next
<1>2. ASSUME NEW max \in Maxes, Read(max) PROVE RingIInv' /\ FIFO!Next
  BY <1>2, ReadStep, Zenon DEF FIFO!Next
<1>3. CASE CloseRing  BY <1>3, CloseStep, Zenon DEF FIFO!Next
<1>4. CASE UNCHANGED ringVars
  <2>1. UNCHANGED <<buf, r, w, size, closed, res>>  BY <1>4, Zenon DEF ringVars
  <2>2. Content' = Content  BY <2>1, Zenon DEF Content
  <2>. QED  BY <2>1, <2>2, Zenon DEF RingIInv, RingType, FIFO!vars
<1>. QED  BY <1>1, <1>2, <1>3, <1>4, Zenon DEF RingNext

LEMMA RingIInvAlways == RingSpec => []RingIInv
<1>1. RingIInv /\ [RingNext]_ringVars => RingIInv'  BY RingStep, Zenon
<1>. QED  BY <1>1, RingInitIInv, PTL DEF RingSpec

\* The indices and the size of the ring buffer stay in range.
THEOREM RingTypeOK == RingSpec => []RingType
<1>1. RingIInv => RingType  BY Zenon DEF RingIInv
<1>. QED  BY <1>1, RingIInvAlways, PTL

\* The ring buffer implements the bounded queue: what Write stores, what Read
\* returns and when each reports overflow or the end of the stream.
THEOREM RingImplementsFIFO == RingSpec => ImplementsFIFO
<1>1. RingInit => FIFO!Init
  <2> SUFFICES ASSUME RingInit PROVE FIFO!Init  OBVIOUS
  <2>1. Content = <<>>  BY DEF RingInit, Content
  <2>2. closed = FALSE /\ res = FIFO!NoResult  BY Zenon DEF RingInit, NoResult, FIFO!NoResult
  <2>. QED  BY <2>1, <2>2, Zenon DEF FIFO!Init
<1>2. RingIInv /\ [RingNext]_ringVars => [FIFO!Next]_(FIFO!vars)  BY RingStep, Zenon
<1>. QED  BY <1>1, <1>2, RingIInvAlways, PTL DEF RingSpec, FIFO!Spec, ImplementsFIFO
=============================================================================
