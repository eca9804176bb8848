------------------------------ MODULE TTLWheel ------------------------------
(***************************************************************************)
(* The hashed timing wheel of internal/store/ttl_wheel.go.                 *)
(*                                                                         *)
(* One goroutine (run) advances the cursor once per interval, collects the *)
(* callbacks of the entries that are due and runs them, one after the      *)
(* other, after it has released the wheel's mutex.  Upsert, Touch and      *)
(* Remove are called by other goroutines; each holds the mutex throughout  *)
(* and is one action.  A tick is atomic up to the unlock; every callback   *)
(* is a later step of the same goroutine, so the other operations          *)
(* interleave with the callbacks and a slow callback delays the next tick. *)
(***************************************************************************)
EXTENDS Integers, FiniteSets

CONSTANTS Keys,       \* relay and session keys
          SlotCount,  \* len(w.slots)
          Interval,   \* w.interval, in the time unit of the TTLs
          TTLs        \* the durations callers pass

ASSUME WheelAssumption ==
  /\ SlotCount \in Nat /\ SlotCount >= 4      \* NewWheel raises less to 4
  /\ Interval \in Nat \ {0}                   \* NewWheel replaces <= 0
  /\ TTLs \subseteq Int

VARIABLES cursor,     \* w.cursor
          slots,      \* w.slots: the keys of each slot's map
          entries,    \* w.entries: the entry of each key, or Absent
          callbacks,  \* keys whose callback the current tick still has to run
          loop,       \* "run" until Close; "stop" once stopCh is closed; "exit"
          due         \* history: what is left of the TTL last set for the key

vars == <<cursor, slots, entries, callbacks, loop, due>>

Slots == 0 .. SlotCount - 1
Entry == [slot : Slots, rounds : Nat]
Absent == [slot |-> -1, rounds |-> 0]
Armed(k) == entries[k] # Absent

TypeOK ==
  /\ cursor \in Slots
  /\ slots \in [Slots -> SUBSET Keys]
  /\ entries \in [Keys -> Entry \cup {Absent}]
  /\ callbacks \in SUBSET Keys
  /\ loop \in {"run", "stop", "exit"}
  /\ due \in [Keys -> Nat]

-----------------------------------------------------------------------------
(* Placement: how many ticks a TTL stands for, and the slot and the number *)
(* of full rounds that Upsert and Touch compute for them.                  *)

\* A TTL that is not positive counts as one interval.
Effective(ttl) == IF ttl <= 0 THEN Interval ELSE ttl

\* The TTL in ticks, rounded up.
Steps(ttl) ==
  LET t == Effective(ttl)
      up == (t \div Interval) + (IF t % Interval # 0 THEN 1 ELSE 0)
  IN  IF up < 1 THEN 1 ELSE up

TargetSlot(steps) == (cursor + steps) % SlotCount

\* A plausible slip: the wrap-around correction is forgotten.
RoundsNoWrap(steps) == steps \div SlotCount

Rounds(steps) ==
  LET r == IF TargetSlot(steps) <= cursor THEN (steps \div SlotCount) - 1
                                          ELSE steps \div SlotCount
  IN  IF r < 0 THEN 0 ELSE r

\* slots without k in the slot its entry names (removeLocked)
SlotsWithout(k) ==
  IF Armed(k) THEN [slots EXCEPT ![entries[k].slot] = @ \ {k}] ELSE slots

\* The new entry of k replaces the old one, in both maps.
Place(k, ttl) ==
  LET steps == Steps(ttl)
      t == TargetSlot(steps)
      cleared == SlotsWithout(k)
  IN  /\ slots' = [cleared EXCEPT ![t] = @ \cup {k}]
      /\ entries' = [entries EXCEPT ![k] = [slot |-> t, rounds |-> Rounds(steps)]]
      /\ due' = [due EXCEPT ![k] = Effective(ttl)]

-----------------------------------------------------------------------------
Init ==
  /\ cursor = 0
  /\ slots = [s \in Slots |-> {}]
  /\ entries = [k \in Keys |-> Absent]
  /\ callbacks = {}
  /\ loop = "run"
  /\ due = [k \in Keys |-> 0]

Upsert(k, ttl) ==
  /\ Place(k, ttl)
  /\ UNCHANGED <<cursor, callbacks, loop>>

\* Touch returns false, and does nothing, for a key with no entry.
Touch(k, ttl) ==
  /\ Armed(k)
  /\ Place(k, ttl)
  /\ UNCHANGED <<cursor, callbacks, loop>>

Remove(k) ==
  /\ Armed(k)
  /\ slots' = SlotsWithout(k)
  /\ entries' = [entries EXCEPT ![k] = Absent]
  /\ due' = [due EXCEPT ![k] = 0]
  /\ UNCHANGED <<cursor, callbacks, loop>>

\* The keys that expire when the cursor reaches slot c.
Expiring(c) == {k \in slots[c] : entries[k].rounds = 0}

\* The ticker fired: everything tick does before it unlocks.
tick ==
  /\ loop # "exit" /\ callbacks = {}
  /\ LET c == (cursor + 1) % SlotCount
         fire == Expiring(c)
     IN  /\ cursor' = c
         /\ slots' = [slots EXCEPT ![c] = @ \ fire]
         /\ entries' = [k \in Keys |->
                          IF k \in fire THEN Absent
                          ELSE IF k \in slots[c]
                               THEN [entries[k] EXCEPT !.rounds = @ - 1]
                               ELSE entries[k]]
         /\ callbacks' = fire
         /\ due' = [k \in Keys |->
                      IF k \in fire \/ ~Armed(k) THEN 0 ELSE due[k] - Interval]
  /\ UNCHANGED loop

\* One of the collected callbacks runs, in map order, that is, in any order.
RunCallback(k) ==
  /\ k \in callbacks
  /\ callbacks' = callbacks \ {k}
  /\ UNCHANGED <<cursor, slots, entries, loop, due>>

Close ==
  /\ loop = "run"
  /\ loop' = "stop"
  /\ UNCHANGED <<cursor, slots, entries, callbacks, due>>

\* A plausible slip: the goroutine waits for an empty wheel before it stops.
runExitWhenEmpty ==
  /\ loop = "stop" /\ callbacks = {}
  /\ \A k \in Keys : ~Armed(k)
  /\ loop' = "exit"
  /\ UNCHANGED <<cursor, slots, entries, callbacks, due>>

\* run sees stopCh, which only happens between two ticks.  Close waits for it.
runExit ==
  /\ loop = "stop" /\ callbacks = {}
  /\ loop' = "exit"
  /\ UNCHANGED <<cursor, slots, entries, callbacks, due>>

Next ==
  \/ \E k \in Keys, ttl \in TTLs : Upsert(k, ttl) \/ Touch(k, ttl)
  \/ \E k \in Keys : Remove(k) \/ RunCallback(k)
  \/ tick
  \/ Close
  \/ runExit

Spec == Init /\ [][Next]_vars

\* The ticker keeps firing and callbacks return.  Between two ticks run's
\* select picks among the ready channels at random, so stopCh, ready again and
\* again, is taken in the end: strong fairness.
Fairness ==
  /\ WF_vars(tick)
  /\ \A k \in Keys : WF_vars(RunCallback(k))
  /\ SF_vars(runExit)

FairSpec == Spec /\ Fairness

-----------------------------------------------------------------------------
(* Properties *)

\* A number of ticks for which Rounds is right at every cursor position: at
\* most one turn of the wheel, or a whole number of turns.
ExactSteps(steps) == steps <= SlotCount \/ steps % SlotCount = 0

ExactTTLs == \A ttl \in TTLs : ExactSteps(Steps(ttl))

\* The two maps of the wheel describe the same entries: a key is in the map of
\* exactly the slot its entry names, and in no other, whatever sequence of
\* Upsert, Touch, Remove and tick led here.
MapsAgree ==
  \A k \in Keys, s \in Slots : k \in slots[s] <=> (Armed(k) /\ entries[k].slot = s)

\* Ticks from slot c until the cursor reaches slot s, 1 .. SlotCount.
Ahead(c, s) == IF s > c THEN s - c ELSE s - c + SlotCount

\* Ticks until the entry of k expires.
TicksLeft(k) == Ahead(cursor, entries[k].slot) + entries[k].rounds * SlotCount

\* No armed entry waits for longer than the TTL given by its last Upsert or
\* Touch, rounded up to whole ticks, whatever the length of the TTL.
NotLate ==
  \A k \in Keys : Armed(k) => due[k] > (TicksLeft(k) - 1) * Interval

\* The wheel position of every armed entry encodes exactly what is left of its
\* TTL, in whole ticks: rounding, placement, cursor wrap-around and the rounds
\* counter together neither lose nor add a tick.
OnTime ==
  NotLate /\ \A k \in Keys : Armed(k) => due[k] <= TicksLeft(k) * Interval

\* An entry's callback is collected only by the tick at which the TTL of its
\* last Upsert or Touch has run out: an entry never expires early.
NeverEarly ==
  [][\A k \in Keys : (Armed(k) /\ k \in callbacks' \ callbacks) => due[k] <= Interval]_vars

\* Close returns: once stopCh is closed the wheel's goroutine ends, however many
\* entries are still armed and whatever ticks and callbacks come in between.
CloseReturns == (loop = "stop") ~> (loop = "exit")

\* The wheel's bookkeeping is exact: both maps name the same entries, and where an
\* entry stands says when its TTL is over, whatever Upsert, Touch, Remove and
\* ticks came before.
WheelSound == TypeOK /\ MapsAgree /\ OnTime
=============================================================================
