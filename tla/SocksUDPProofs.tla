--------------------------- MODULE SocksUDPProofs ---------------------------
(* UDP associations of the SOCKS client.                                   *)
EXTENDS SocksUDP, FiniteSetTheorems, TLAPS

-----------------------------------------------------------------------------
(* The inductive invariant.                                                *)

Entries == [target : Targets, open : BOOLEAN, idle : BOOLEAN, reverse : {"none", "run", "done"}, late : BOOLEAN]
Numbers(a) == 1 .. Len(entries[a])
Used(a) == {t \in Targets : nat[a][t] # 0}

UTypes ==
  /\ items \subseteq Assocs /\ assocGauge \in Int /\ natGauge \in Int /\ dropped \in Int
  /\ handler \in [Assocs -> {"none", "reply", "serve", "returned"}]
  /\ closer \in [Assocs -> {"no", "closing", "entries", "done"}]
  /\ snapshot \in [Assocs -> SUBSET Nat]
  /\ nat \in [Assocs -> [Targets -> 0 .. MaxEntries]]
  /\ entries \in [Assocs -> Seq(Entries)]
  /\ reader \in [Assocs -> [pc : {"read", "dial", "insert", "send", "close", "done"}, target : Targets \cup {"none"}, entry : Nat]]
  /\ copier \in [Assocs -> {"copy", "close", "done"}]
  /\ janitor \in [Assocs -> [pc : {"wait", "close", "done"}, stale : SUBSET Nat]]

\* An association is counted from Create to the end of Close.
Admitted(a) ==
  /\ handler[a] \in {"none", "reply"} => closer[a] = "no"
  /\ handler[a] = "none" => a \notin items
  /\ handler[a] \in {"reply", "serve"} /\ closer[a] = "no" => a \in items
  /\ closer[a] \in {"closing", "entries"} => a \in items
  /\ closer[a] = "done" => a \notin items

\* What the goroutines hold are entries, and a table has an entry under its target.
Held(a) ==
  /\ Len(entries[a]) <= MaxEntries
  /\ snapshot[a] \subseteq Numbers(a) /\ janitor[a].stale \subseteq Numbers(a)
  /\ \A t \in Targets : nat[a][t] # 0 => nat[a][t] \in Numbers(a) /\ Entry(a, nat[a][t]).target = t
  /\ reader[a].pc \in {"insert", "send"} => reader[a].entry \in Numbers(a)
  /\ reader[a].pc = "insert" => Entry(a, reader[a].entry).target = reader[a].target

\* readClientPackets alone inserts: what it found free stays so until it does.
RoomLeft(a) ==
  /\ handler[a] # "serve" => reader[a].pc \in {"read", "done"}
  /\ Cardinality(Used(a)) <= MaxNAT
  /\ reader[a].pc = "dial" => Len(entries[a]) < MaxEntries
  /\ reader[a].pc \in {"dial", "insert"} =>
       reader[a].target \in Targets /\ nat[a][reader[a].target] = 0 /\ Cardinality(Used(a)) < MaxNAT

\* Where an open entry that is not late is.
Placed(a) ==
  \A e \in Numbers(a) : Entry(a, e).open /\ ~Entry(a, e).late =>
    \/ closer[a] \in {"no", "closing"} /\ nat[a][Entry(a, e).target] = e
    \/ closer[a] = "entries" /\ e \in snapshot[a]
    \/ reader[a].pc = "insert" /\ reader[a].entry = e

Sound(a) == Admitted(a) /\ Held(a) /\ RoomLeft(a) /\ Placed(a)

UIInv == UTypes /\ (\A a \in Assocs : Sound(a)) /\ Cardinality(items) <= MaxAssoc /\ GaugeDrift

-----------------------------------------------------------------------------
\* The entries of one association are those of no other.
Only(a) ==
  \A b \in Assocs : b # a =>
    /\ (b \in items' <=> b \in items) /\ handler'[b] = handler[b] /\ closer'[b] = closer[b]
    /\ snapshot'[b] = snapshot[b] /\ nat'[b] = nat[b] /\ entries'[b] = entries[b]
    /\ reader'[b] = reader[b] /\ janitor'[b] = janitor[b]

LEMMA OthersSound ==
  ASSUME UIInv, NEW a \in Assocs, Only(a), Sound(a)'
  PROVE  \A b \in Assocs : Sound(b)'
<1> SUFFICES ASSUME NEW b \in Assocs, b # a PROVE Sound(b)'
  OBVIOUS
<1>1. /\ (b \in items' <=> b \in items) /\ handler'[b] = handler[b] /\ closer'[b] = closer[b]
      /\ snapshot'[b] = snapshot[b] /\ nat'[b] = nat[b] /\ entries'[b] = entries[b]
      /\ reader'[b] = reader[b] /\ janitor'[b] = janitor[b]
  BY Zenon DEF Only
<1>2. Sound(b)
  BY Zenon DEF UIInv
<1>3. Used(b)' = Used(b) /\ Numbers(b)' = Numbers(b)
  BY <1>1, Zenon DEF Used, Numbers
<1>4. Admitted(b)'
  BY <1>1, <1>2, Zenon DEF Sound, Admitted
<1>5. Held(b)'
  BY <1>1, <1>2, <1>3 DEF Sound, Held, Entry
<1>6. RoomLeft(b)'
  BY <1>1, <1>2, <1>3, Zenon DEF Sound, RoomLeft
<1>7. Placed(b)'
  BY <1>1, <1>2, <1>3 DEF Sound, Placed, Entry
<1> QED BY <1>4, <1>5, <1>6, <1>7, Zenon DEF Sound

\* A table that loses entries has the room that it had.
LEMMA UsedFacts ==
  ASSUME UTypes, NEW a \in Assocs
  PROVE  /\ IsFiniteSet(Used(a)) /\ Cardinality(Used(a)) \in Nat
         /\ (\A t \in Targets : nat'[a][t] \in {nat[a][t], 0}) => Cardinality(Used(a)') <= Cardinality(Used(a)) /\ Cardinality(Used(a)') \in Nat
<1>1. IsFiniteSet(Used(a)) /\ Cardinality(Used(a)) \in Nat
  BY SocksUDPAssumption, FS_Subset, FS_CardinalityType, Zenon DEF Used
<1>2. ASSUME \A t \in Targets : nat'[a][t] \in {nat[a][t], 0}
      PROVE  Cardinality(Used(a)') <= Cardinality(Used(a)) /\ Cardinality(Used(a)') \in Nat
  <2>1. Used(a)' \in SUBSET Used(a)
    BY <1>2, Zenon DEF Used
  <2> QED BY <1>1, <2>1, FS_Subset, FS_CardinalityType, Zenon
<1> QED BY <1>1, <1>2, Zenon

\* A step that takes no entry out of a table but those that it closes, and that
\* neither inserts one nor takes the whole table.
Quietly(a) ==
  /\ Len(entries'[a]) = Len(entries[a])
  /\ \A e \in Numbers(a) :
       /\ entries'[a][e].target = Entry(a, e).target /\ entries'[a][e].late = Entry(a, e).late
       /\ entries'[a][e].open => Entry(a, e).open /\ (nat[a][Entry(a, e).target] = e => nat'[a][Entry(a, e).target] = e)
       /\ entries'[a][e].open /\ e \in snapshot[a] => e \in snapshot'[a]
  /\ \A t \in Targets : nat'[a][t] \in {nat[a][t], 0}
  /\ closer'[a] = closer[a] \/ (closer[a] = "no" /\ closer'[a] = "closing")
  /\ snapshot'[a] \subseteq snapshot[a] /\ janitor'[a].stale \subseteq Numbers(a)
  /\ \/ reader'[a] = reader[a]
     \/ reader[a].pc # "insert" /\ reader'[a].pc \in {"read", "close", "done"}
     \/ reader[a].pc # "insert" /\ reader'[a].pc = "send" /\ reader'[a].entry \in Numbers(a)
  /\ handler'[a] # "serve" => reader'[a].pc \in {"read", "done"}

LEMMA QuietlySound ==
  ASSUME UIInv, NEW a \in Assocs, Quietly(a)
  PROVE  Held(a)' /\ RoomLeft(a)' /\ Placed(a)'
<1>0. Sound(a) /\ UTypes
  BY Zenon DEF UIInv
<1>1. Numbers(a)' = Numbers(a)
  BY Zenon DEF Quietly, Numbers
<1>2. Held(a)'
  <2>1. \A t \in Targets : nat'[a][t] # 0 => nat'[a][t] \in Numbers(a) /\ entries'[a][nat'[a][t]].target = t
    BY <1>0 DEF Sound, Held, Quietly
  <2>2. Len(entries'[a]) <= MaxEntries /\ snapshot'[a] \subseteq Numbers(a) /\ janitor'[a].stale \subseteq Numbers(a)
    BY <1>0, Zenon DEF Sound, Held, Quietly
  <2>3. reader'[a].pc \in {"insert", "send"} => reader'[a].entry \in Numbers(a)
    BY <1>0, Zenon DEF Sound, Held, Quietly
  <2>4. reader'[a].pc = "insert" => entries'[a][reader'[a].entry].target = reader'[a].target
    <3>1. reader'[a].pc = "insert" => reader'[a] = reader[a]
      BY Zenon DEF Quietly
    <3> QED BY <1>0, <3>1 DEF Sound, Held, Quietly
  <2> QED BY <1>1, <2>1, <2>2, <2>3, <2>4 DEF Held, Entry
<1>3. RoomLeft(a)'
  <2>1. Cardinality(Used(a)') <= Cardinality(Used(a)) /\ Cardinality(Used(a)') \in Nat /\ Cardinality(Used(a)) \in Nat
    BY <1>0, UsedFacts, Zenon DEF Quietly
  <2>2. reader'[a].pc \in {"dial", "insert"} => reader'[a] = reader[a]
    BY Zenon DEF Quietly
  <2>3. \A t \in Targets : nat[a][t] = 0 => nat'[a][t] = 0
    BY Zenon DEF Quietly
  <2>4. Cardinality(Used(a)') <= MaxNAT /\ (Cardinality(Used(a)) < MaxNAT => Cardinality(Used(a)') < MaxNAT)
    BY <1>0, <2>1, SocksUDPAssumption DEF Sound, RoomLeft
  <2>5. reader'[a].pc = "dial" => Len(entries'[a]) < MaxEntries
    BY <1>0, <2>2, Zenon DEF Sound, RoomLeft, Quietly
  <2>6. handler'[a] # "serve" => reader'[a].pc \in {"read", "done"}
    BY Zenon DEF Quietly
  <2> QED BY <1>0, <2>2, <2>3, <2>4, <2>5, <2>6, Zenon DEF Sound, RoomLeft
<1>4. Placed(a)'
  <2> SUFFICES ASSUME NEW e \in Numbers(a), entries'[a][e].open, ~entries'[a][e].late
               PROVE  \/ closer'[a] \in {"no", "closing"} /\ nat'[a][entries'[a][e].target] = e
                      \/ closer'[a] = "entries" /\ e \in snapshot'[a]
                      \/ reader'[a].pc = "insert" /\ reader'[a].entry = e
    BY <1>1, Zenon DEF Placed, Entry
  <2>1. /\ entries'[a][e].target = Entry(a, e).target /\ entries'[a][e].late = Entry(a, e).late
        /\ Entry(a, e).open /\ (nat[a][Entry(a, e).target] = e => nat'[a][Entry(a, e).target] = e)
        /\ e \in snapshot[a] => e \in snapshot'[a]
    BY Zenon DEF Quietly
  <2>2. \/ closer[a] \in {"no", "closing"} /\ nat[a][Entry(a, e).target] = e
        \/ closer[a] = "entries" /\ e \in snapshot[a]
        \/ reader[a].pc = "insert" /\ reader[a].entry = e
    BY <1>0, <2>1, Zenon DEF Sound, Placed
  <2>3. (closer[a] \in {"no", "closing"} => closer'[a] \in {"no", "closing"}) /\ (closer[a] = "entries" => closer'[a] = "entries")
    BY Zenon DEF Quietly
  <2>4. reader[a].pc = "insert" => reader'[a] = reader[a]
    BY Zenon DEF Quietly
  <2> QED BY <2>1, <2>2, <2>3, <2>4, Zenon
<1> QED BY <1>2, <1>3, <1>4, Zenon

-----------------------------------------------------------------------------
(* Entries and tables.                                                     *)

\* An entry changes.
LEMMA EntryFacts ==
  ASSUME UTypes, NEW a \in Assocs, NEW e \in Numbers(a), NEW r \in Entries, entries' = [entries EXCEPT ![a][e] = r]
  PROVE  /\ entries' \in [Assocs -> Seq(Entries)] /\ Len(entries'[a]) = Len(entries[a])
         /\ entries'[a][e] = r /\ \A d \in Numbers(a) : d # e => entries'[a][d] = entries[a][d]
         /\ \A b \in Assocs : b # a => entries'[b] = entries[b]
<1> DEFINE q == entries[a]
<1>1. q \in Seq(Entries) /\ e \in 1 .. Len(q)
  BY Zenon DEF UTypes, Numbers
<1>2. entries' = [entries EXCEPT ![a] = [q EXCEPT ![e] = r]]
  OBVIOUS
<1>3. /\ [q EXCEPT ![e] = r] \in Seq(Entries) /\ Len([q EXCEPT ![e] = r]) = Len(q)
      /\ [q EXCEPT ![e] = r][e] = r /\ \A d \in 1 .. Len(q) : d # e => [q EXCEPT ![e] = r][d] = q[d]
  BY <1>1
<1> QED BY <1>2, <1>3 DEF UTypes, Numbers

\* An entry is a record.
LEMMA EntryType ==
  ASSUME UTypes, NEW a \in Assocs, NEW e \in Numbers(a)
  PROVE  Entry(a, e) \in Entries
<1>1. entries[a] \in Seq(Entries) /\ e \in 1 .. Len(entries[a])
  BY Zenon DEF UTypes, Numbers
<1> QED BY <1>1 DEF Entry

\* What is in the tables is finite; it loses a pair, or gains one.
LEMMA TableFacts ==
  /\ IsFiniteSet(InTables) /\ Cardinality(InTables) \in Nat
  /\ \A p \in InTables : Cardinality(InTables \ {p}) = Cardinality(InTables) - 1
  /\ \A p : p \notin InTables => Cardinality(InTables \cup {p}) = Cardinality(InTables) + 1
<1>1. IsFiniteSet(Assocs \X Targets)
  BY SocksUDPAssumption, FS_Product, Zenon
<1>2. IsFiniteSet(InTables)
  BY <1>1, FS_Subset, Zenon DEF InTables
<1>3. Cardinality(InTables) \in Nat
  BY <1>2, FS_CardinalityType, Zenon
<1>4. \A p \in InTables : Cardinality(InTables \ {p}) = Cardinality(InTables) - 1
  BY <1>2, FS_RemoveElement, Zenon
<1>5. \A p : p \notin InTables => Cardinality(InTables \cup {p}) = Cardinality(InTables) + 1
  BY <1>2, FS_AddElement, Zenon
<1> QED BY <1>2, <1>3, <1>4, <1>5, Zenon

\* closeEntry: an entry ends, and leaves the table if it is there.
LEMMA CloseFacts ==
  ASSUME UIInv, NEW a \in Assocs, NEW e \in Numbers(a), NEW rev \in {"none", "run", "done"}, closeEntry(a, e, rev)
  PROVE  /\ entries' \in [Assocs -> Seq(Entries)] /\ nat' \in [Assocs -> [Targets -> 0 .. MaxEntries]] /\ natGauge' \in Int
         /\ Len(entries'[a]) = Len(entries[a])
         /\ \A d \in Numbers(a) :
              /\ entries'[a][d].target = Entry(a, d).target /\ entries'[a][d].late = Entry(a, d).late
              /\ entries'[a][d].open => d # e /\ Entry(a, d).open
              /\ entries'[a][d].open /\ nat[a][Entry(a, d).target] = d => nat'[a][Entry(a, d).target] = d
         /\ \A t \in Targets : nat'[a][t] \in {nat[a][t], 0}
         /\ \A b \in Assocs : b # a => entries'[b] = entries[b] /\ nat'[b] = nat[b]
         /\ dropped' = dropped => natGauge' = Cardinality(InTables') + dropped'
<1> DEFINE r == [Entry(a, e) EXCEPT !.open = FALSE, !.idle = FALSE, !.reverse = rev]
           t == Entry(a, e).target
<1>0. UTypes /\ Entry(a, e) \in Entries
  BY EntryType, Zenon DEF UIInv
<1>1. r \in Entries /\ r.target = t /\ r.late = Entry(a, e).late /\ ~r.open /\ t \in Targets
  BY <1>0, Zenon DEF Entries
<1>2. entries' = [entries EXCEPT ![a][e] = r]
  BY Zenon DEF closeEntry, Entry
<1> HIDE DEF r
<1>3. /\ entries' \in [Assocs -> Seq(Entries)] /\ Len(entries'[a]) = Len(entries[a])
      /\ entries'[a][e] = r /\ \A d \in Numbers(a) : d # e => entries'[a][d] = entries[a][d]
      /\ \A b \in Assocs : b # a => entries'[b] = entries[b]
  BY <1>0, <1>1, <1>2, EntryFacts, Zenon
<1>4. \A d \in Numbers(a) :
        /\ entries'[a][d].target = Entry(a, d).target /\ entries'[a][d].late = Entry(a, d).late
        /\ entries'[a][d].open => d # e /\ Entry(a, d).open
  BY <1>1, <1>3, Zenon DEF Entry
<1>5. natGauge \in Int /\ dropped \in Int /\ natGauge = Cardinality(InTables) + dropped
  BY Zenon DEF UIInv, UTypes, GaugeDrift
<1>6. CASE Entry(a, e).open /\ nat[a][t] = e
  <2>1. nat' = [nat EXCEPT ![a][t] = 0] /\ natGauge' = natGauge - 1
    BY <1>6, Zenon DEF closeEntry
  <2>2. /\ nat'[a][t] = 0 /\ \A u \in Targets : u # t => nat'[a][u] = nat[a][u]
        /\ \A b \in Assocs : b # a => nat'[b] = nat[b]
    BY <1>0, <1>1, <2>1 DEF UTypes
  <2>3. nat' \in [Assocs -> [Targets -> 0 .. MaxEntries]]
    <3>1. 0 \in 0 .. MaxEntries
      BY SocksUDPAssumption
    <3> QED BY <1>0, <1>1, <2>1, <3>1, Zenon DEF UTypes
  <2>4. e # 0
    BY DEF Numbers
  <2>5. InTables' = InTables \ {<<a, t>>} /\ <<a, t>> \in InTables
    BY <1>1, <1>6, <2>2, <2>4 DEF InTables
  <2>6. dropped' = dropped => natGauge' = Cardinality(InTables') + dropped'
    BY <1>5, <2>1, <2>5, TableFacts
  <2>7. \A d \in Numbers(a) : d # e /\ nat[a][Entry(a, d).target] = d => nat'[a][Entry(a, d).target] = d
    <3>1. \A d \in Numbers(a) : Entry(a, d).target \in Targets
      BY <1>0, EntryType, Zenon DEF Entries
    <3> QED BY <1>6, <2>2, <3>1, Zenon
  <2> QED BY <1>3, <1>4, <1>5, <2>1, <2>2, <2>3, <2>6, <2>7
<1>7. CASE ~(Entry(a, e).open /\ nat[a][t] = e)
  <2>1. UNCHANGED <<nat, natGauge>>
    BY <1>7, Zenon DEF closeEntry
  <2>2. InTables' = InTables
    BY <2>1, Zenon DEF InTables
  <2> QED BY <1>0, <1>3, <1>4, <1>5, <2>1, <2>2, Zenon DEF UTypes
<1> QED BY <1>6, <1>7, Zenon

\* Neither gauge moves.
LEMMA GaugesStay ==
  ASSUME UIInv, UNCHANGED <<items, assocGauge, natGauge, dropped, nat>>
  PROVE  GaugeDrift' /\ Cardinality(items') <= MaxAssoc
<1>1. InTables' = InTables
  BY Zenon DEF InTables
<1> QED BY <1>1, Zenon DEF UIInv, GaugeDrift

\* A step that calls closeEntry once and otherwise moves a goroutine.
Closes(a, e, rev) ==
  /\ closeEntry(a, e, rev)
  /\ UNCHANGED <<items, assocGauge, dropped, handler, closer, copier>>
  /\ snapshot' \in [Assocs -> SUBSET Nat]
  /\ reader' \in [Assocs -> [pc : {"read", "dial", "insert", "send", "close", "done"}, target : Targets \cup {"none"}, entry : Nat]]
  /\ janitor' \in [Assocs -> [pc : {"wait", "close", "done"}, stale : SUBSET Nat]]
  /\ snapshot'[a] \subseteq snapshot[a] /\ snapshot[a] \ snapshot'[a] \subseteq {e}
  /\ janitor'[a].stale \subseteq janitor[a].stale
  /\ reader'[a] = reader[a] \/ (reader[a].pc = "send" /\ reader'[a].pc = "read")
  /\ \A b \in Assocs : b # a => snapshot'[b] = snapshot[b] /\ reader'[b] = reader[b] /\ janitor'[b] = janitor[b]

LEMMA ClosesKeeps ==
  ASSUME UIInv, NEW a \in Assocs, NEW e \in Numbers(a), NEW rev \in {"none", "run", "done"}, Closes(a, e, rev)
  PROVE  UIInv'
<1>0. Sound(a) /\ UTypes
  BY Zenon DEF UIInv
<1>1. /\ entries' \in [Assocs -> Seq(Entries)] /\ nat' \in [Assocs -> [Targets -> 0 .. MaxEntries]] /\ natGauge' \in Int
      /\ Len(entries'[a]) = Len(entries[a])
      /\ \A d \in Numbers(a) :
           /\ entries'[a][d].target = Entry(a, d).target /\ entries'[a][d].late = Entry(a, d).late
           /\ entries'[a][d].open => d # e /\ Entry(a, d).open
           /\ entries'[a][d].open /\ nat[a][Entry(a, d).target] = d => nat'[a][Entry(a, d).target] = d
      /\ \A t \in Targets : nat'[a][t] \in {nat[a][t], 0}
      /\ \A b \in Assocs : b # a => entries'[b] = entries[b] /\ nat'[b] = nat[b]
      /\ dropped' = dropped => natGauge' = Cardinality(InTables') + dropped'
  BY CloseFacts DEF Closes
<1>2. UTypes'
  BY <1>0, <1>1, Zenon DEF UTypes, Closes
<1>3. Only(a)
  BY <1>1, Zenon DEF Only, Closes
<1>4. Quietly(a)
  <2>1. handler'[a] # "serve" => reader'[a].pc \in {"read", "done"}
    BY <1>0, Zenon DEF Closes, Sound, RoomLeft
  <2>2. janitor'[a].stale \subseteq Numbers(a)
    BY <1>0, Zenon DEF Closes, Sound, Held
  <2>3. \A d \in Numbers(a) : entries'[a][d].open /\ d \in snapshot[a] => d \in snapshot'[a]
    BY <1>1, Zenon DEF Closes
  <2> QED BY <1>1, <2>1, <2>2, <2>3, Zenon DEF Quietly, Closes
<1>5. Admitted(a)'
  BY <1>0, Zenon DEF Admitted, Sound, Closes
<1>6. Sound(a)'
  BY <1>4, <1>5, QuietlySound, Zenon DEF Sound
<1>7. GaugeDrift' /\ Cardinality(items') <= MaxAssoc
  BY <1>1, Zenon DEF UIInv, GaugeDrift, Closes
<1> QED BY <1>2, <1>3, <1>6, <1>7, OthersSound DEF UIInv

\* A step that closes no entry, and at most marks one or moves a goroutine.
Moves(a) ==
  /\ UNCHANGED <<items, assocGauge, natGauge, dropped, nat, snapshot>>
  /\ UTypes' /\ Only(a) /\ Admitted(a)'
  /\ Len(entries'[a]) = Len(entries[a])
  /\ \A e \in Numbers(a) :
       entries'[a][e].target = Entry(a, e).target /\ entries'[a][e].late = Entry(a, e).late /\ entries'[a][e].open = Entry(a, e).open
  /\ closer'[a] = closer[a] \/ (closer[a] = "no" /\ closer'[a] = "closing")
  /\ janitor'[a].stale \subseteq Numbers(a)
  /\ \/ reader'[a] = reader[a]
     \/ reader[a].pc # "insert" /\ reader'[a].pc \in {"read", "close", "done"}
     \/ reader[a].pc # "insert" /\ reader'[a].pc = "send" /\ reader'[a].entry \in Numbers(a)
  /\ handler'[a] # "serve" => reader'[a].pc \in {"read", "done"}

LEMMA MovesKeeps ==
  ASSUME UIInv, NEW a \in Assocs, Moves(a)
  PROVE  UIInv'
<1>1. Quietly(a)
  BY Zenon DEF Quietly, Moves
<1>2. Sound(a)'
  BY <1>1, QuietlySound, Zenon DEF Sound, Moves
<1>3. GaugeDrift' /\ Cardinality(items') <= MaxAssoc
  BY GaugesStay, Zenon DEF Moves
<1> QED BY <1>2, <1>3, OthersSound, Zenon DEF UIInv, Moves

-----------------------------------------------------------------------------
(* The steps of an association.                                            *)

\* Create.
LEMMA CreateKeeps ==
  ASSUME UIInv, NEW a \in Assocs, Create(a)
  PROVE  UIInv'
<1>0. Sound(a) /\ UTypes /\ handler[a] = "none" /\ IsFiniteSet(items) /\ Cardinality(items) \in Nat
  BY SocksUDPAssumption, FS_Subset, FS_CardinalityType, Zenon DEF UIInv, UTypes, Create
<1>1. UNCHANGED <<natGauge, dropped, closer, snapshot, nat, entries, threads>>
  BY Zenon DEF Create
<1>2. handler' = [handler EXCEPT ![a] = "returned"] \/ handler' = [handler EXCEPT ![a] = "reply"]
  BY Zenon DEF Create
<1>3. closer[a] = "no" /\ reader[a].pc \in {"read", "done"}
  BY <1>0, Zenon DEF Sound, Admitted, RoomLeft
<1>4. /\ \/ handler'[a] = "returned" /\ UNCHANGED <<items, assocGauge>>
         \/ handler'[a] = "reply" /\ items' = items \cup {a} /\ assocGauge' = assocGauge + 1 /\ Cardinality(items) < MaxAssoc
      /\ \A b \in Assocs : b # a => handler'[b] = handler[b]
  BY <1>0, SocksUDPAssumption DEF Create, UTypes
<1>5. UTypes'
  <2>1. handler' \in [Assocs -> {"none", "reply", "serve", "returned"}]
    <3>1. /\ handler \in [Assocs -> {"none", "reply", "serve", "returned"}]
          /\ "returned" \in {"none", "reply", "serve", "returned"} /\ "reply" \in {"none", "reply", "serve", "returned"}
      BY <1>0, Zenon DEF UTypes
    <3> QED BY <1>2, <3>1
  <2>2. items' \subseteq Assocs /\ assocGauge' \in Int
    BY <1>0, <1>4 DEF UTypes
  <2> QED BY <1>0, <1>1, <2>1, <2>2, Zenon DEF UTypes, threads
<1>6. Only(a)
  BY <1>1, <1>4, Zenon DEF Only, threads
<1>7. Quietly(a)
  BY <1>0, <1>1, <1>3, Zenon DEF Quietly, Entry, threads, Sound, Held
<1>8. Admitted(a)'
  BY <1>1, <1>3, <1>4, Zenon DEF Admitted
<1>9. Sound(a)'
  BY <1>7, <1>8, QuietlySound, Zenon DEF Sound
<1>10. assocGauge' = Cardinality(items') /\ Cardinality(items') <= MaxAssoc
  <2>1. Cardinality(items \cup {a}) = IF a \in items THEN Cardinality(items) ELSE Cardinality(items) + 1
    BY <1>0, FS_AddElement, Zenon
  <2>2. assocGauge = Cardinality(items) /\ Cardinality(items) <= MaxAssoc
    BY Zenon DEF UIInv, GaugeDrift
  <2>3. a \in items => FALSE
    BY <1>0, Zenon DEF UIInv, Sound, Admitted, GaugeDrift
  <2> QED BY <1>0, <1>4, <2>1, <2>2, <2>3, SocksUDPAssumption
<1>11. GaugeDrift'
  <2>1. InTables' = InTables
    BY <1>1, Zenon DEF InTables
  <2> QED BY <1>1, <1>10, <2>1, Zenon DEF UIInv, GaugeDrift
<1> QED BY <1>5, <1>6, <1>9, <1>10, <1>11, OthersSound, Zenon DEF UIInv

\* Close of an association is called, for the first time or not.
LEMMA CallFacts ==
  ASSUME UIInv, NEW a \in Assocs, CallClose(a), handler[a] \in {"reply", "serve"}, UNCHANGED items,
         handler'[a] \in {"serve", "returned"}
  PROVE  /\ closer' \in [Assocs -> {"no", "closing", "entries", "done"}] /\ \A b \in Assocs : b # a => closer'[b] = closer[b]
         /\ closer'[a] = closer[a] \/ (closer[a] = "no" /\ closer'[a] = "closing")
         /\ Admitted(a)'
<1>0. UTypes /\ Admitted(a)
  BY Zenon DEF UIInv, Sound
<1>1. /\ closer[a] = "no" => closer' = [closer EXCEPT ![a] = "closing"]
      /\ closer[a] # "no" => closer' = [closer EXCEPT ![a] = closer[a]]
  BY Zenon DEF CallClose
<1>2. /\ closer' \in [Assocs -> {"no", "closing", "entries", "done"}] /\ \A b \in Assocs : b # a => closer'[b] = closer[b]
      /\ (closer[a] # "no" /\ closer'[a] = closer[a]) \/ (closer[a] = "no" /\ closer'[a] = "closing")
  BY <1>0, <1>1, Zenon DEF UTypes
<1>3. Admitted(a)'
  BY <1>0, <1>2, Zenon DEF Admitted
<1> QED BY <1>2, <1>3, Zenon

\* readClientPackets reads the next datagram, or not.
LEMMA ReadFacts ==
  ASSUME UTypes, NEW a \in Assocs, NEW place \in {"read", "close", "done"}, Read(a, place)
  PROVE  /\ reader' \in [Assocs -> [pc : {"read", "dial", "insert", "send", "close", "done"}, target : Targets \cup {"none"}, entry : Nat]]
         /\ reader'[a].pc = place /\ \A b \in Assocs : b # a => reader'[b] = reader[b]
BY Zenon DEF UTypes, Read

\* Nothing happens to the entries.
LEMMA EntriesStay ==
  ASSUME UIInv, NEW a \in Assocs, UNCHANGED <<items, assocGauge, natGauge, dropped, nat, snapshot, entries>>,
         handler' \in [Assocs -> {"none", "reply", "serve", "returned"}],
         closer' \in [Assocs -> {"no", "closing", "entries", "done"}],
         reader' \in [Assocs -> [pc : {"read", "dial", "insert", "send", "close", "done"}, target : Targets \cup {"none"}, entry : Nat]],
         copier' \in [Assocs -> {"copy", "close", "done"}],
         janitor' \in [Assocs -> [pc : {"wait", "close", "done"}, stale : SUBSET Nat]],
         \A b \in Assocs : b # a => /\ handler'[b] = handler[b] /\ closer'[b] = closer[b]
                                    /\ reader'[b] = reader[b] /\ janitor'[b] = janitor[b],
         Admitted(a)', closer'[a] = closer[a] \/ (closer[a] = "no" /\ closer'[a] = "closing"),
         janitor'[a].stale \subseteq Numbers(a),
         \/ reader'[a] = reader[a]
         \/ reader[a].pc # "insert" /\ reader'[a].pc \in {"read", "close", "done"}
         \/ reader[a].pc # "insert" /\ reader'[a].pc = "send" /\ reader'[a].entry \in Numbers(a),
         handler'[a] # "serve" => reader'[a].pc \in {"read", "done"}
  PROVE  UIInv'
<1>1. UTypes' /\ Only(a)
  BY Zenon DEF UIInv, UTypes, Only
<1>2. Moves(a)
  BY <1>1, Zenon DEF Moves, Entry
<1> QED BY <1>2, MovesKeeps, Zenon

\* The reply is written or not; Serve has waited for everyone.
LEMMA HandlerKeeps ==
  ASSUME UIInv, NEW a \in Assocs, writeReply(a) \/ Serve(a)
  PROVE  UIInv'
<1>0. UTypes /\ Sound(a) /\ janitor[a].stale \subseteq Numbers(a)
  BY Zenon DEF UIInv, Sound, Held
<1>1. CASE writeReply(a)
  <2>1. handler[a] = "reply" /\ UNCHANGED <<tables, snapshot, nat, entries, threads>>
    BY <1>1, Zenon DEF writeReply
  <2>2. \/ handler' = [handler EXCEPT ![a] = "serve"] /\ UNCHANGED closer
        \/ handler' = [handler EXCEPT ![a] = "returned"] /\ CallClose(a)
    BY <1>1, Zenon DEF writeReply
  <2>3. /\ handler' \in [Assocs -> {"none", "reply", "serve", "returned"}] /\ handler'[a] \in {"serve", "returned"}
        /\ \A b \in Assocs : b # a => handler'[b] = handler[b]
    BY <1>0, <2>2, Zenon DEF UTypes
  <2>4. reader[a].pc \in {"read", "done"} /\ closer[a] = "no" /\ a \in items
    BY <1>0, <2>1, Zenon DEF Sound, RoomLeft, Admitted
  <2>5. /\ closer' \in [Assocs -> {"no", "closing", "entries", "done"}] /\ \A b \in Assocs : b # a => closer'[b] = closer[b]
        /\ closer'[a] = closer[a] \/ (closer[a] = "no" /\ closer'[a] = "closing")
        /\ Admitted(a)'
    <3>1. CASE UNCHANGED closer
      BY <1>0, <2>1, <2>3, <2>4, <3>1 DEF UTypes, Admitted, tables
    <3>2. CASE CallClose(a)
      BY <2>1, <2>3, <3>2, CallFacts DEF tables
    <3> QED BY <2>2, <3>1, <3>2, Zenon
  <2> QED BY <1>0, <2>1, <2>3, <2>4, <2>5, EntriesStay, Zenon DEF UTypes, tables, threads
<1>2. CASE Serve(a)
  <2>1. /\ handler[a] = "serve" /\ reader[a].pc = "done" /\ handler' = [handler EXCEPT ![a] = "returned"]
        /\ UNCHANGED <<tables, closer, snapshot, nat, entries, threads>> /\ closer[a] # "no"
    BY <1>2, Zenon DEF Serve, Closing
  <2>2. /\ handler' \in [Assocs -> {"none", "reply", "serve", "returned"}] /\ handler'[a] = "returned"
        /\ \A b \in Assocs : b # a => handler'[b] = handler[b]
    BY <1>0, <2>1, Zenon DEF UTypes
  <2>3. Admitted(a)'
    BY <1>0, <2>1, <2>2 DEF Sound, Admitted, tables
  <2> QED BY <1>0, <2>1, <2>2, <2>3, EntriesStay, Zenon DEF UTypes, tables, threads
<1> QED BY <1>1, <1>2, Zenon

\* The control connection ends.
LEMMA ControlKeeps ==
  ASSUME UIInv, NEW a \in Assocs, copyControl(a)
  PROVE  UIInv'
<1>0. UTypes /\ Sound(a) /\ janitor[a].stale \subseteq Numbers(a)
  BY Zenon DEF UIInv, Sound, Held
<1>1. handler[a] = "serve" /\ UNCHANGED <<tables, handler, snapshot, nat, entries, reader, janitor>>
  BY Zenon DEF copyControl
<1>2. copier' \in [Assocs -> {"copy", "close", "done"}]
  BY <1>0 DEF copyControl, UTypes
<1>3. /\ closer' \in [Assocs -> {"no", "closing", "entries", "done"}] /\ \A b \in Assocs : b # a => closer'[b] = closer[b]
      /\ closer'[a] = closer[a] \/ (closer[a] = "no" /\ closer'[a] = "closing")
      /\ Admitted(a)'
  <2>1. CASE UNCHANGED closer
    BY <1>0, <1>1, <2>1, Zenon DEF UTypes, Sound, Admitted, tables
  <2>2. CASE CallClose(a)
    BY <1>1, <2>2, CallFacts, Zenon DEF tables
  <2> QED BY <2>1, <2>2, Zenon DEF copyControl
<1>4. handler'[a] = "serve"
  BY <1>1, Zenon
<1> QED BY <1>0, <1>1, <1>2, <1>3, <1>4, EntriesStay, Zenon DEF UTypes, tables

\* The janitor finds stale entries, or stops.
LEMMA JanitorKeeps ==
  ASSUME UIInv, NEW a \in Assocs, janitorLoop(a)
  PROVE  UIInv'
<1>0. UTypes /\ Sound(a) /\ janitor[a].stale \subseteq Numbers(a) /\ Numbers(a) \subseteq Nat
  BY DEF UIInv, Sound, Held, Numbers
<1>1. handler[a] = "serve" /\ UNCHANGED <<tables, handler, closer, snapshot, nat, entries, reader, copier>>
  BY Zenon DEF janitorLoop
<1>2. \/ janitor' = [janitor EXCEPT ![a].pc = "done"]
      \/ \E st \in SUBSET Numbers(a) : janitor' = [janitor EXCEPT ![a] = [pc |-> "close", stale |-> st]]
  BY Zenon DEF janitorLoop, Numbers
<1>3. /\ janitor' \in [Assocs -> [pc : {"wait", "close", "done"}, stale : SUBSET Nat]]
      /\ janitor'[a].stale \subseteq Numbers(a) /\ \A b \in Assocs : b # a => janitor'[b] = janitor[b]
  <2>1. janitor[a] \in [pc : {"wait", "close", "done"}, stale : SUBSET Nat]
    BY <1>0, Zenon DEF UTypes
  <2>2. CASE janitor' = [janitor EXCEPT ![a].pc = "done"]
    BY <1>0, <2>1, <2>2, Zenon DEF UTypes
  <2>3. CASE \E st \in SUBSET Numbers(a) : janitor' = [janitor EXCEPT ![a] = [pc |-> "close", stale |-> st]]
    BY <1>0, <2>3 DEF UTypes
  <2> QED BY <1>2, <2>2, <2>3, Zenon
<1>4. handler'[a] = "serve" /\ Admitted(a)'
  BY <1>0, <1>1, Zenon DEF Sound, Admitted, tables
<1> QED BY <1>0, <1>1, <1>3, <1>4, EntriesStay, Zenon DEF UTypes, tables

\* readClientPackets: the datagram's entry is found, or one is to be dialled.
LEMMA DatagramKeeps ==
  ASSUME UIInv, NEW a \in Assocs, readDatagram(a)
  PROVE  UIInv'
<1>0. UTypes /\ Sound(a) /\ janitor[a].stale \subseteq Numbers(a)
  BY Zenon DEF UIInv, Sound, Held
<1>1. handler[a] = "serve" /\ reader[a].pc = "read" /\ UNCHANGED <<tables, handler, closer, snapshot, nat, entries, copier, janitor>>
  BY Zenon DEF readDatagram, Reading
<1>2. handler'[a] = "serve" /\ Admitted(a)'
  BY <1>0, <1>1, Zenon DEF Sound, Admitted, tables
<1>3. PICK t \in Targets :
        \/ nat[a][t] # 0 /\ reader' = [reader EXCEPT ![a] = [pc |-> "send", target |-> t, entry |-> nat[a][t]]]
        \/ /\ nat[a][t] = 0 /\ room(a) /\ Len(entries[a]) < MaxEntries
           /\ reader' = [reader EXCEPT ![a] = [pc |-> "dial", target |-> t, entry |-> 0]]
  BY Zenon DEF readDatagram
<1>4. CASE nat[a][t] # 0 /\ reader' = [reader EXCEPT ![a] = [pc |-> "send", target |-> t, entry |-> nat[a][t]]]
  <2>1. nat[a][t] \in Numbers(a) /\ nat[a][t] \in Nat
    BY <1>0, <1>4 DEF Sound, Held, Numbers
  <2>2. /\ reader' \in [Assocs -> [pc : {"read", "dial", "insert", "send", "close", "done"}, target : Targets \cup {"none"}, entry : Nat]]
        /\ reader'[a].pc = "send" /\ reader'[a].entry = nat[a][t] /\ \A b \in Assocs : b # a => reader'[b] = reader[b]
    BY <1>0, <1>4, <2>1, Zenon DEF UTypes
  <2> QED BY <1>0, <1>1, <1>2, <2>1, <2>2, EntriesStay, Zenon DEF UTypes, tables
<1>5. CASE /\ nat[a][t] = 0 /\ room(a) /\ Len(entries[a]) < MaxEntries
           /\ reader' = [reader EXCEPT ![a] = [pc |-> "dial", target |-> t, entry |-> 0]]
  <2>1. /\ reader' \in [Assocs -> [pc : {"read", "dial", "insert", "send", "close", "done"}, target : Targets \cup {"none"}, entry : Nat]]
        /\ reader'[a].pc = "dial" /\ reader'[a].target = t /\ \A b \in Assocs : b # a => reader'[b] = reader[b]
    BY <1>0, <1>5, Zenon DEF UTypes
  <2>2. UTypes' /\ Only(a)
    BY <1>0, <1>1, <2>1, Zenon DEF UTypes, Only, tables
  <2>3. Used(a)' = Used(a) /\ Numbers(a)' = Numbers(a)
    BY <1>1, Zenon DEF Used, Numbers
  <2>4. Held(a)'
    BY <1>0, <1>1, <2>1, <2>3 DEF Sound, Held, Entry
  <2>5. RoomLeft(a)'
    BY <1>0, <1>1, <1>2, <1>5, <2>1, <2>3, Zenon DEF Sound, RoomLeft, room, Used
  <2>6. Placed(a)'
    BY <1>0, <1>1, <2>1, <2>3 DEF Sound, Placed, Entry
  <2>7. GaugeDrift' /\ Cardinality(items') <= MaxAssoc
    BY <1>1, GaugesStay, Zenon DEF tables
  <2> QED BY <1>2, <2>2, <2>4, <2>5, <2>6, <2>7, OthersSound, Zenon DEF UIInv, Sound
<1> QED BY <1>3, <1>4, <1>5, Zenon

\* readClientPackets: the socket is closed or fails; no entry can be had.
LEMMA ReadingKeeps ==
  ASSUME UIInv, NEW a \in Assocs, readFails(a) \/ readClosed(a) \/ (dialEntry(a) /\ Read(a, "read") /\ UNCHANGED entries)
  PROVE  UIInv'
<1>0. UTypes /\ Sound(a) /\ janitor[a].stale \subseteq Numbers(a)
  BY Zenon DEF UIInv, Sound, Held
<1>1. handler[a] = "serve" /\ reader[a].pc \in {"read", "close", "dial"} /\ UNCHANGED <<tables, handler, snapshot, nat, entries, copier, janitor>>
  BY Zenon DEF readFails, readClosed, dialEntry, Reading
<1>2. PICK place \in {"read", "close", "done"} : Read(a, place)
  BY Zenon DEF readFails, readClosed
<1>3. /\ reader' \in [Assocs -> [pc : {"read", "dial", "insert", "send", "close", "done"}, target : Targets \cup {"none"}, entry : Nat]]
      /\ reader'[a].pc = place /\ \A b \in Assocs : b # a => reader'[b] = reader[b]
  BY <1>0, <1>2, ReadFacts, Zenon
<1>4. /\ closer' \in [Assocs -> {"no", "closing", "entries", "done"}] /\ \A b \in Assocs : b # a => closer'[b] = closer[b]
      /\ closer'[a] = closer[a] \/ (closer[a] = "no" /\ closer'[a] = "closing")
      /\ Admitted(a)'
  <2>1. CASE UNCHANGED closer
    BY <1>0, <1>1, <2>1, Zenon DEF UTypes, Sound, Admitted, tables
  <2>2. CASE CallClose(a)
    BY <1>1, <2>2, CallFacts, Zenon DEF tables
  <2> QED BY <2>1, <2>2, Zenon DEF readFails, readClosed, dialEntry
<1>5. handler'[a] = "serve" /\ reader[a].pc # "insert" /\ reader'[a].pc \in {"read", "close", "done"}
  BY <1>1, <1>3, Zenon
<1> QED BY <1>0, <1>1, <1>3, <1>4, <1>5, EntriesStay, Zenon DEF UTypes, tables

\* One entry is marked: its reverse loop ends, or it is idle or no longer.
LEMMA MarkKeeps ==
  ASSUME UIInv, NEW a \in Assocs, NEW e \in Numbers(a), NEW r \in Entries, entries' = [entries EXCEPT ![a][e] = r],
         r.target = Entry(a, e).target, r.late = Entry(a, e).late, r.open = Entry(a, e).open,
         UNCHANGED <<items, assocGauge, natGauge, dropped, nat, snapshot, handler, closer, copier, janitor>>,
         UNCHANGED reader \/ (reader[a].pc = "send" /\ Read(a, "read"))
  PROVE  UIInv'
<1>0. UTypes /\ Sound(a) /\ janitor[a].stale \subseteq Numbers(a)
  BY Zenon DEF UIInv, Sound, Held
<1>1. /\ entries' \in [Assocs -> Seq(Entries)] /\ Len(entries'[a]) = Len(entries[a])
      /\ entries'[a][e] = r /\ \A d \in Numbers(a) : d # e => entries'[a][d] = entries[a][d]
      /\ \A b \in Assocs : b # a => entries'[b] = entries[b]
  BY <1>0, EntryFacts, Zenon
<1>2. /\ reader' \in [Assocs -> [pc : {"read", "dial", "insert", "send", "close", "done"}, target : Targets \cup {"none"}, entry : Nat]]
      /\ \A b \in Assocs : b # a => reader'[b] = reader[b]
      /\ reader'[a] = reader[a] \/ (reader[a].pc = "send" /\ reader'[a].pc = "read")
  <2>1. CASE UNCHANGED reader
    BY <1>0, <2>1, Zenon DEF UTypes
  <2>2. CASE reader[a].pc = "send" /\ Read(a, "read")
    BY <1>0, <2>2, ReadFacts, Zenon
  <2> QED BY <2>1, <2>2, Zenon
<1>3. UTypes' /\ Only(a)
  BY <1>0, <1>1, <1>2, Zenon DEF UTypes, Only
<1>4. \A d \in Numbers(a) :
        entries'[a][d].target = Entry(a, d).target /\ entries'[a][d].late = Entry(a, d).late /\ entries'[a][d].open = Entry(a, d).open
  BY <1>1, Zenon DEF Entry
<1>5. Admitted(a)' /\ (handler'[a] # "serve" => reader'[a].pc \in {"read", "done"})
  BY <1>0, <1>2, Zenon DEF Sound, Admitted, RoomLeft
<1>6. Moves(a)
  BY <1>0, <1>1, <1>2, <1>3, <1>4, <1>5 DEF Moves
<1> QED BY <1>6, MovesKeeps, Zenon

\* An entry goes idle.
LEMMA IdleKeeps ==
  ASSUME UIInv, NEW a \in Assocs, goesIdle(a)
  PROVE  UIInv'
<1>1. PICK e \in Numbers(a) : entries' = [entries EXCEPT ![a][e].idle = TRUE]
  BY Zenon DEF goesIdle, Numbers
<1> DEFINE r == [Entry(a, e) EXCEPT !.idle = TRUE]
<1>2. entries' = [entries EXCEPT ![a][e] = r]
  BY <1>1, Zenon DEF Entry
<1>3. Entry(a, e) \in Entries
  BY EntryType, Zenon DEF UIInv
<1>4. r \in Entries /\ r.target = Entry(a, e).target /\ r.late = Entry(a, e).late /\ r.open = Entry(a, e).open
  BY <1>3, Zenon DEF Entries
<1>5. UNCHANGED <<items, assocGauge, natGauge, dropped, nat, snapshot, handler, closer, copier, janitor>> /\ UNCHANGED reader
  BY Zenon DEF goesIdle, tables, threads
<1> HIDE DEF r
<1> QED BY <1>2, <1>4, <1>5, MarkKeeps, Zenon

\* A datagram is sent over an entry; if that fails the entry is closed.
LEMMA SendKeeps ==
  ASSUME UIInv, NEW a \in Assocs, Send(a)
  PROVE  UIInv'
<1> DEFINE e == reader[a].entry
<1>0. UTypes /\ Sound(a)
  BY Zenon DEF UIInv
<1>1. reader[a].pc = "send" /\ Read(a, "read") /\ UNCHANGED <<items, assocGauge, dropped, handler, closer, snapshot, copier, janitor>>
  BY Zenon DEF Send, Reading
<1>2. e \in Numbers(a)
  BY <1>0, <1>1 DEF Sound, Held
<1>3. Entry(a, e) \in Entries
  BY <1>0, <1>2, EntryType
<1>4. CASE entries' = [entries EXCEPT ![a][e].idle = FALSE] /\ UNCHANGED <<nat, natGauge>>
  <2> DEFINE r == [Entry(a, e) EXCEPT !.idle = FALSE]
  <2>1. entries' = [entries EXCEPT ![a][e] = r]
    BY <1>4, Zenon DEF Entry
  <2>2. r \in Entries /\ r.target = Entry(a, e).target /\ r.late = Entry(a, e).late /\ r.open = Entry(a, e).open
    BY <1>3, Zenon DEF Entries
  <2> HIDE DEF r, e
  <2> QED BY <1>1, <1>2, <1>4, <2>1, <2>2, MarkKeeps, Zenon
<1>5. CASE closeEntry(a, e, Entry(a, e).reverse)
  <2>1. Entry(a, e).reverse \in {"none", "run", "done"}
    BY <1>3, Zenon DEF Entries
  <2>2. /\ reader' \in [Assocs -> [pc : {"read", "dial", "insert", "send", "close", "done"}, target : Targets \cup {"none"}, entry : Nat]]
        /\ reader'[a].pc = "read" /\ \A b \in Assocs : b # a => reader'[b] = reader[b]
    BY <1>0, <1>1, ReadFacts
  <2>3. Closes(a, e, Entry(a, e).reverse)
    BY <1>0, <1>1, <1>5, <2>2 DEF Closes, UTypes
  <2> HIDE DEF e
  <2> QED BY <1>2, <2>1, <2>3, ClosesKeeps
<1> QED BY <1>4, <1>5, Zenon DEF Send

\* A reverse loop receives, fails, or ends because the association is closing.
LEMMA ReverseKeeps ==
  ASSUME UIInv, NEW a \in Assocs, NEW e \in Numbers(a), reverseLoop(a, e)
  PROVE  UIInv'
<1>0. UTypes /\ Entry(a, e) \in Entries
  BY EntryType, Zenon DEF UIInv
<1>1. UNCHANGED <<items, assocGauge, dropped, handler, closer, snapshot, threads>>
  BY Zenon DEF reverseLoop
<1>2. CASE entries' = [entries EXCEPT ![a][e].idle = FALSE] /\ UNCHANGED <<nat, natGauge>>
  <2> DEFINE r == [Entry(a, e) EXCEPT !.idle = FALSE]
  <2>1. entries' = [entries EXCEPT ![a][e] = r]
    BY <1>2, Zenon DEF Entry
  <2>2. r \in Entries /\ r.target = Entry(a, e).target /\ r.late = Entry(a, e).late /\ r.open = Entry(a, e).open
    BY <1>0, Zenon DEF Entries
  <2> HIDE DEF r
  <2> QED BY <1>1, <1>2, <2>1, <2>2, MarkKeeps, Zenon DEF threads
<1>3. CASE entries' = [entries EXCEPT ![a][e].reverse = "done"] /\ UNCHANGED <<nat, natGauge>>
  <2> DEFINE r == [Entry(a, e) EXCEPT !.reverse = "done"]
  <2>1. entries' = [entries EXCEPT ![a][e] = r]
    BY <1>3, Zenon DEF Entry
  <2>2. r \in Entries /\ r.target = Entry(a, e).target /\ r.late = Entry(a, e).late /\ r.open = Entry(a, e).open
    BY <1>0, Zenon DEF Entries
  <2> HIDE DEF r
  <2> QED BY <1>1, <1>3, <2>1, <2>2, MarkKeeps, Zenon DEF threads
<1>4. CASE closeEntry(a, e, "done")
  <2>1. Closes(a, e, "done")
    BY <1>0, <1>1, <1>4 DEF Closes, UTypes, threads
  <2> QED BY <2>1, ClosesKeeps
<1> QED BY <1>2, <1>3, <1>4 DEF reverseLoop

\* Close ends an entry that it has taken; the janitor one that it has found stale.
LEMMA SweepKeeps ==
  ASSUME UIInv, NEW a \in Assocs, closeEntries(a) \/ closeStale(a)
  PROVE  UIInv'
<1>0. UTypes /\ Sound(a)
  BY Zenon DEF UIInv
<1>1. CASE closeEntries(a)
  <2>1. PICK e \in snapshot[a] : closeEntry(a, e, Entry(a, e).reverse) /\ snapshot' = [snapshot EXCEPT ![a] = @ \ {e}]
    BY <1>1, Zenon DEF closeEntries
  <2>2. UNCHANGED <<items, assocGauge, dropped, handler, closer, threads>>
    BY <1>1, Zenon DEF closeEntries
  <2>3. e \in Numbers(a)
    BY <1>0, Zenon DEF Sound, Held
  <2>4. Entry(a, e).reverse \in {"none", "run", "done"}
    BY <1>0, <2>3, EntryType DEF Entries
  <2>5. snapshot' \in [Assocs -> SUBSET Nat] /\ snapshot'[a] = snapshot[a] \ {e} /\ \A b \in Assocs : b # a => snapshot'[b] = snapshot[b]
    BY <1>0, <2>1 DEF UTypes
  <2>6. Closes(a, e, Entry(a, e).reverse)
    BY <1>0, <2>1, <2>2, <2>5 DEF Closes, UTypes, threads
  <2> QED BY <2>3, <2>4, <2>6, ClosesKeeps
<1>2. CASE closeStale(a)
  <2>1. PICK e \in janitor[a].stale :
          /\ closeEntry(a, e, Entry(a, e).reverse)
          /\ janitor' = [janitor EXCEPT ![a] = [pc |-> IF @.stale = {e} THEN "wait" ELSE "close", stale |-> @.stale \ {e}]]
    BY <1>2, Zenon DEF closeStale
  <2>2. UNCHANGED <<items, assocGauge, dropped, handler, closer, snapshot, reader, copier>>
    BY <1>2, Zenon DEF closeStale
  <2>3. e \in Numbers(a)
    BY <1>0, Zenon DEF Sound, Held
  <2>4. Entry(a, e).reverse \in {"none", "run", "done"}
    BY <1>0, <2>3, EntryType DEF Entries
  <2>5. \E place \in {"wait", "close"} : janitor' = [janitor EXCEPT ![a] = [pc |-> place, stale |-> janitor[a].stale \ {e}]]
    BY <2>1, Zenon
  <2>6. /\ janitor' \in [Assocs -> [pc : {"wait", "close", "done"}, stale : SUBSET Nat]]
        /\ janitor'[a].stale \subseteq janitor[a].stale /\ \A b \in Assocs : b # a => janitor'[b] = janitor[b]
    <3>1. janitor[a].stale \subseteq Nat
      BY <1>0, Zenon DEF UTypes
    <3> QED BY <1>0, <2>5, <3>1 DEF UTypes
  <2>7. Closes(a, e, Entry(a, e).reverse)
    BY <1>0, <2>1, <2>2, <2>6, Zenon DEF Closes, UTypes
  <2> QED BY <2>3, <2>4, <2>7, ClosesKeeps
<1> QED BY <1>1, <1>2, Zenon

\* A session and a flow are opened for a new entry.
LEMMA DialKeeps ==
  ASSUME UIInv, NEW a \in Assocs, dialEntry(a), ~(Read(a, "read") /\ UNCHANGED entries)
  PROVE  UIInv'
<1> DEFINE t == reader[a].target
           n == Len(entries[a]) + 1
<1>0. UTypes /\ Sound(a)
  BY Zenon DEF UIInv
<1>1. /\ handler[a] = "serve" /\ reader[a].pc = "dial" /\ entries' = [entries EXCEPT ![a] = Append(@, NewEntry(t))]
      /\ reader' = [reader EXCEPT ![a].pc = "insert", ![a].entry = Len(entries'[a])]
      /\ UNCHANGED <<tables, handler, closer, snapshot, nat, copier, janitor>>
  BY Zenon DEF dialEntry, Reading
<1>2. t \in Targets /\ nat[a][t] = 0 /\ Cardinality(Used(a)) < MaxNAT /\ Len(entries[a]) < MaxEntries
  BY <1>0, <1>1, Zenon DEF Sound, RoomLeft
<1>3. NewEntry(t) \in Entries /\ NewEntry(t).target = t
  BY <1>2, Zenon DEF NewEntry, Entries
<1>4. entries[a] \in Seq(Entries) /\ Len(entries[a]) \in Nat
  BY <1>0 DEF UTypes
<1>5. /\ Append(entries[a], NewEntry(t)) \in Seq(Entries) /\ Len(Append(entries[a], NewEntry(t))) = n
      /\ \A d \in 1 .. Len(entries[a]) : Append(entries[a], NewEntry(t))[d] = entries[a][d]
      /\ Append(entries[a], NewEntry(t))[n] = NewEntry(t)
  BY <1>3, <1>4
<1>6. /\ entries' \in [Assocs -> Seq(Entries)] /\ Len(entries'[a]) = n
      /\ \A d \in Numbers(a) : entries'[a][d] = entries[a][d]
      /\ entries'[a][n] = NewEntry(t) /\ \A b \in Assocs : b # a => entries'[b] = entries[b]
  BY <1>0, <1>1, <1>5, Zenon DEF UTypes, Numbers
<1>7. /\ reader' \in [Assocs -> [pc : {"read", "dial", "insert", "send", "close", "done"}, target : Targets \cup {"none"}, entry : Nat]]
      /\ reader'[a].pc = "insert" /\ reader'[a].entry = n /\ reader'[a].target = t
      /\ \A b \in Assocs : b # a => reader'[b] = reader[b]
  <2>1. reader[a] \in [pc : {"read", "dial", "insert", "send", "close", "done"}, target : Targets \cup {"none"}, entry : Nat]
    BY <1>0, Zenon DEF UTypes
  <2> DEFINE q == [reader[a] EXCEPT !.pc = "insert", !.entry = n]
  <2>2. reader' = [reader EXCEPT ![a] = q]
    BY <1>1, <1>6, Zenon
  <2>3. n \in Nat
    BY <1>4
  <2>4. /\ q \in [pc : {"read", "dial", "insert", "send", "close", "done"}, target : Targets \cup {"none"}, entry : Nat]
        /\ q.pc = "insert" /\ q.entry = n /\ q.target = t
    <3> HIDE DEF n
    <3> QED BY <2>1, <2>3, Zenon
  <2> HIDE DEF n, t, q
  <2> QED BY <1>0, <2>2, <2>4, Zenon DEF UTypes
<1>8. UTypes' /\ Only(a)
  BY <1>0, <1>1, <1>6, <1>7, Zenon DEF UTypes, Only, tables
<1>9. Numbers(a)' = Numbers(a) \cup {n} /\ n \in Nat /\ n \notin Numbers(a)
  BY <1>4, <1>6 DEF Numbers
<1>10. Used(a)' = Used(a)
  BY <1>1, Zenon DEF Used
<1> HIDE DEF n, t
<1>11. Held(a)'
  <2>1. Len(entries'[a]) <= MaxEntries
    BY <1>2, <1>4, <1>6, SocksUDPAssumption DEF n
  <2>2. \A u \in Targets : nat[a][u] # 0 => nat[a][u] \in Numbers(a) /\ entries'[a][nat[a][u]].target = u
    BY <1>0, <1>6 DEF Sound, Held, Entry
  <2>3. snapshot[a] \subseteq Numbers(a) /\ janitor[a].stale \subseteq Numbers(a)
    BY <1>0, Zenon DEF Sound, Held
  <2>4. snapshot'[a] \subseteq Numbers(a)' /\ janitor'[a].stale \subseteq Numbers(a)'
    BY <1>1, <1>9, <2>3
  <2>5. \A u \in Targets : nat'[a][u] # 0 => nat'[a][u] \in Numbers(a)' /\ entries'[a][nat'[a][u]].target = u
    BY <1>1, <1>9, <2>2, Zenon
  <2>6. reader'[a].entry \in Numbers(a)' /\ entries'[a][reader'[a].entry].target = reader'[a].target
    BY <1>3, <1>6, <1>7, <1>9
  <2> QED BY <2>1, <2>4, <2>5, <2>6 DEF Held, Entry
<1>12. RoomLeft(a)'
  BY <1>0, <1>1, <1>2, <1>7, <1>10 DEF Sound, RoomLeft
<1>13. Placed(a)'
  <2> SUFFICES ASSUME NEW e \in Numbers(a)', entries'[a][e].open, ~entries'[a][e].late
               PROVE  \/ closer[a] \in {"no", "closing"} /\ nat[a][entries'[a][e].target] = e
                      \/ closer[a] = "entries" /\ e \in snapshot[a]
                      \/ reader'[a].pc = "insert" /\ reader'[a].entry = e
    BY <1>1, Zenon DEF Placed, Entry
  <2>1. CASE e = n
    BY <1>7, <2>1
  <2>2. CASE e \in Numbers(a)
    BY <1>0, <1>1, <1>6, <2>2, ZenonT(30) DEF Sound, Placed, Entry
  <2> QED BY <1>9, <2>1, <2>2
<1>14. GaugeDrift' /\ Cardinality(items') <= MaxAssoc
  BY <1>1, GaugesStay DEF tables
<1>15. Admitted(a)'
  BY <1>0, <1>1 DEF Sound, Admitted, tables
<1> QED BY <1>8, <1>11, <1>12, <1>13, <1>14, <1>15, OthersSound, Zenon DEF UIInv, Sound

\* The entry is inserted, whether the association is closing or not.
LEMMA InsertKeeps ==
  ASSUME UIInv, NEW a \in Assocs, insertEntry(a)
  PROVE  UIInv'
<1> DEFINE t == reader[a].target
           e == reader[a].entry
           l == closer[a] \in {"entries", "done"}
           r == [Entry(a, e) EXCEPT !.reverse = "run", !.late = l]
<1>0. UTypes /\ Sound(a)
  BY Zenon DEF UIInv
<1>1. /\ handler[a] = "serve" /\ reader[a].pc = "insert" /\ nat' = [nat EXCEPT ![a][t] = e] /\ natGauge' = natGauge + 1
      /\ reader' = [reader EXCEPT ![a].pc = "send"]
      /\ UNCHANGED <<items, assocGauge, dropped, handler, closer, snapshot, copier, janitor>>
  BY Zenon DEF insertEntry, Reading
<1>2. t \in Targets /\ nat[a][t] = 0 /\ Cardinality(Used(a)) < MaxNAT /\ e \in Numbers(a) /\ Entry(a, e).target = t
  BY <1>0, <1>1, Zenon DEF Sound, RoomLeft, Held
<1>3. Entry(a, e) \in Entries
  BY <1>0, <1>2, EntryType
<1>4. r \in Entries /\ r.target = t /\ r.open = Entry(a, e).open /\ (r.late <=> closer[a] \in {"entries", "done"})
  <2>1. l \in BOOLEAN
    OBVIOUS
  <2> HIDE DEF l
  <2>2. r \in Entries /\ r.target = t /\ r.open = Entry(a, e).open /\ r.late = l
    BY <1>2, <1>3, <2>1, Zenon DEF Entries
  <2> QED BY <2>1, <2>2, Zenon DEF l
<1>5. entries' = [entries EXCEPT ![a][e] = r]
  BY Zenon DEF insertEntry, Entry
<1> HIDE DEF r
<1>6. /\ entries' \in [Assocs -> Seq(Entries)] /\ Len(entries'[a]) = Len(entries[a])
      /\ entries'[a][e] = r /\ \A d \in Numbers(a) : d # e => entries'[a][d] = entries[a][d]
      /\ \A b \in Assocs : b # a => entries'[b] = entries[b]
  BY <1>0, <1>2, <1>4, <1>5, EntryFacts, Zenon
<1>7. /\ reader' \in [Assocs -> [pc : {"read", "dial", "insert", "send", "close", "done"}, target : Targets \cup {"none"}, entry : Nat]]
      /\ reader'[a].pc = "send" /\ reader'[a].entry = e /\ \A b \in Assocs : b # a => reader'[b] = reader[b]
  <2>1. reader[a] \in [pc : {"read", "dial", "insert", "send", "close", "done"}, target : Targets \cup {"none"}, entry : Nat]
    BY <1>0, Zenon DEF UTypes
  <2> QED BY <1>0, <1>1, <2>1, Zenon DEF UTypes
<1> HIDE DEF t, e
<1>8. e \in 0 .. MaxEntries /\ e # 0 /\ Numbers(a)' = Numbers(a)
  <2>1. Len(entries[a]) <= MaxEntries /\ Len(entries[a]) \in Nat
    BY <1>0 DEF Sound, Held, UTypes
  <2> QED BY <1>2, <1>6, <2>1, SocksUDPAssumption DEF Numbers
<1>9. /\ nat' \in [Assocs -> [Targets -> 0 .. MaxEntries]] /\ nat'[a][t] = e
      /\ \A u \in Targets : u # t => nat'[a][u] = nat[a][u]
      /\ \A b \in Assocs : b # a => nat'[b] = nat[b]
  BY <1>0, <1>1, <1>2, <1>8 DEF UTypes
<1>10. UTypes' /\ Only(a)
  BY <1>0, <1>1, <1>6, <1>7, <1>9 DEF UTypes, Only
<1>11. Held(a)'
  <2>1. \A u \in Targets : nat'[a][u] # 0 => nat'[a][u] \in Numbers(a) /\ entries'[a][nat'[a][u]].target = u
    <3>1. \A d \in Numbers(a) : entries'[a][d].target = Entry(a, d).target
      BY <1>2, <1>4, <1>6, Zenon DEF Entry
    <3> QED BY <1>0, <1>2, <1>9, <3>1 DEF Sound, Held
  <2>2. /\ Len(entries'[a]) <= MaxEntries /\ snapshot'[a] \subseteq Numbers(a) /\ janitor'[a].stale \subseteq Numbers(a)
    BY <1>0, <1>1, <1>6, Zenon DEF Sound, Held
  <2> QED BY <1>2, <1>7, <1>8, <2>1, <2>2 DEF Held, Entry
<1>12. RoomLeft(a)'
  <2>1. Used(a)' = Used(a) \cup {t}
    BY <1>2, <1>8, <1>9, Zenon DEF Used
  <2>2. IsFiniteSet(Used(a)) /\ Cardinality(Used(a)) \in Nat /\ t \notin Used(a)
    BY <1>0, <1>2, UsedFacts, Zenon DEF Used
  <2>3. Cardinality(Used(a)') = Cardinality(Used(a)) + 1
    BY <2>1, <2>2, FS_AddElement, Zenon
  <2>4. Cardinality(Used(a)') <= MaxNAT
    BY <1>2, <2>2, <2>3, SocksUDPAssumption
  <2>5. handler'[a] = "serve" /\ reader'[a].pc = "send"
    BY <1>1, <1>7, Zenon
  <2> QED BY <2>4, <2>5, Zenon DEF RoomLeft
<1>13. Placed(a)'
  <2> SUFFICES ASSUME NEW d \in Numbers(a), entries'[a][d].open, ~entries'[a][d].late
               PROVE  \/ closer[a] \in {"no", "closing"} /\ nat'[a][entries'[a][d].target] = d
                      \/ closer[a] = "entries" /\ d \in snapshot[a]
    BY <1>1, <1>8 DEF Placed, Entry
  <2>1. CASE d = e
    <3>1. closer[a] \in {"no", "closing", "entries", "done"}
      BY <1>0, Zenon DEF UTypes
    <3> QED BY <1>4, <1>6, <1>9, <2>1, <3>1
  <2>2. CASE d # e
    <3>1. entries'[a][d] = Entry(a, d) /\ Entry(a, d).target \in Targets
      BY <1>0, <1>6, <2>2, EntryType, Zenon DEF Entry, Entries
    <3>2. \/ closer[a] \in {"no", "closing"} /\ nat[a][Entry(a, d).target] = d
          \/ closer[a] = "entries" /\ d \in snapshot[a]
      BY <1>0, <2>2, <3>1 DEF Sound, Placed, e
    <3>3. d # 0
      BY DEF Numbers
    <3> QED BY <1>2, <1>9, <3>1, <3>2, <3>3
  <2> QED BY <2>1, <2>2, Zenon
<1>14. GaugeDrift' /\ Cardinality(items') <= MaxAssoc
  <2>1. InTables' = InTables \cup {<<a, t>>} /\ <<a, t>> \notin InTables
    BY <1>2, <1>8, <1>9 DEF InTables
  <2>2. Cardinality(InTables') = Cardinality(InTables) + 1 /\ Cardinality(InTables) \in Nat
    BY <2>1, TableFacts, Zenon
  <2>3. natGauge = Cardinality(InTables) + dropped /\ dropped \in Int
    BY Zenon DEF UIInv, GaugeDrift, UTypes
  <2>4. natGauge' = Cardinality(InTables') + dropped'
    BY <1>1, <2>2, <2>3
  <2> QED BY <1>1, <2>4 DEF UIInv, GaugeDrift
<1>15. Admitted(a)'
  BY <1>0, <1>1, Zenon DEF Sound, Admitted
<1> QED BY <1>10, <1>11, <1>12, <1>13, <1>14, <1>15, OthersSound DEF UIInv, Sound

\* Close takes the table: what was counted there is counted as dropped.
LEMMA TakenCount ==
  ASSUME UIInv, NEW a \in Assocs
  PROVE  LET taken == {nat[a][t] : t \in Targets} \ {0}
         IN  /\ Cardinality(taken) \in Nat
             /\ Cardinality(InTables \ ({a} \X Targets)) = Cardinality(InTables) - Cardinality(taken)
<1> DEFINE taken == {nat[a][t] : t \in Targets} \ {0}
           K == InTables \cap ({a} \X Targets)
           f == [p \in K |-> nat[a][p[2]]]
<1>0. Held(a)
  BY Zenon DEF UIInv, Sound
<1>1. \A p \in K : p = <<a, p[2]>> /\ p[2] \in Targets /\ nat[a][p[2]] # 0 /\ Entry(a, nat[a][p[2]]).target = p[2]
  BY <1>0 DEF InTables, Held
<1>2. f \in [K -> taken]
  BY <1>1, Zenon
<1>3. \A p, q \in K : f[p] = f[q] => p = q
  BY <1>1
<1>4. \A v \in taken : \E p \in K : f[p] = v
  <2> SUFFICES ASSUME NEW t \in Targets, nat[a][t] # 0 PROVE \E p \in K : f[p] = nat[a][t]
    OBVIOUS
  <2>1. <<a, t>> \in K
    BY Zenon DEF InTables
  <2>2. f[<<a, t>>] = nat[a][t]
    BY <2>1, Zenon
  <2> QED BY <2>1, <2>2, Zenon
<1>5. f \in Bijection(K, taken)
  <2> HIDE DEF f, K, taken
  <2> QED BY <1>2, <1>3, <1>4, Zenon DEF Bijection, Injection, Surjection, IsInjective
<1>6. IsFiniteSet(K)
  BY TableFacts, FS_Subset, Zenon
<1>7. Cardinality(taken) = Cardinality(K) /\ Cardinality(K) \in Nat
  <2> HIDE DEF f, K, taken
  <2>1. ExistsBijection(K, taken)
    BY <1>5, Zenon DEF ExistsBijection
  <2> QED BY <1>6, <2>1, FS_Bijection, FS_CardinalityType, Zenon
<1>8. Cardinality(InTables \ ({a} \X Targets)) = Cardinality(InTables) - Cardinality(K)
  BY TableFacts, FS_Difference, Zenon
<1> QED BY <1>7, <1>8, Zenon

LEMMA TakeTableKeeps ==
  ASSUME UIInv, NEW a \in Assocs, closeTake(a)
  PROVE  UIInv'
<1> DEFINE taken == {nat[a][t] : t \in Targets} \ {0}
<1>0. UTypes /\ Sound(a) /\ 0 \in 0 .. MaxEntries
  BY SocksUDPAssumption DEF UIInv
<1>1. /\ closer[a] = "closing" /\ snapshot' = [snapshot EXCEPT ![a] = taken] /\ dropped' = dropped + Cardinality(snapshot'[a])
      /\ nat' = [nat EXCEPT ![a] = [t \in Targets |-> 0]] /\ closer' = [closer EXCEPT ![a] = "entries"]
      /\ UNCHANGED <<items, assocGauge, natGauge, handler, entries, threads>>
  BY Zenon DEF closeTake
<1>2. taken \subseteq Numbers(a) /\ Numbers(a) \subseteq Nat
  BY <1>0 DEF Sound, Held, Numbers
<1>3. /\ Cardinality(taken) \in Nat
      /\ Cardinality(InTables \ ({a} \X Targets)) = Cardinality(InTables) - Cardinality(taken)
  BY TakenCount, Zenon
<1>4. \A t \in Targets : nat[a][t] # 0 => nat[a][t] \in taken
  OBVIOUS
<1> HIDE DEF taken
<1>5. /\ snapshot' \in [Assocs -> SUBSET Nat] /\ snapshot'[a] = taken /\ \A b \in Assocs : b # a => snapshot'[b] = snapshot[b]
  BY <1>0, <1>1, <1>2 DEF UTypes
<1>6. /\ nat' \in [Assocs -> [Targets -> 0 .. MaxEntries]] /\ (\A t \in Targets : nat'[a][t] = 0)
      /\ \A b \in Assocs : b # a => nat'[b] = nat[b]
  BY <1>0, <1>1 DEF UTypes
<1>7. /\ closer' \in [Assocs -> {"no", "closing", "entries", "done"}] /\ closer'[a] = "entries"
      /\ \A b \in Assocs : b # a => closer'[b] = closer[b]
  BY <1>0, <1>1 DEF UTypes
<1>8. dropped' \in Int
  BY <1>0, <1>1, <1>3, <1>5 DEF UTypes
<1>9. UTypes' /\ Only(a)
  BY <1>0, <1>1, <1>5, <1>6, <1>7, <1>8, Zenon DEF UTypes, Only, threads
<1>10. Numbers(a)' = Numbers(a)
  BY <1>1, Zenon DEF Numbers
<1>11. Held(a)'
  BY <1>0, <1>1, <1>2, <1>5, <1>6, <1>10 DEF Sound, Held, Entry, threads
<1>12. RoomLeft(a)'
  <2>1. Cardinality(Used(a)') <= Cardinality(Used(a)) /\ Cardinality(Used(a)') \in Nat /\ Cardinality(Used(a)) \in Nat
    BY <1>0, <1>6, UsedFacts, Zenon
  <2>2. Cardinality(Used(a)') <= MaxNAT /\ (Cardinality(Used(a)) < MaxNAT => Cardinality(Used(a)') < MaxNAT)
    BY <1>0, <2>1, SocksUDPAssumption DEF Sound, RoomLeft
  <2> QED BY <1>0, <1>1, <1>6, <2>2, Zenon DEF Sound, RoomLeft, threads
<1>13. Placed(a)'
  <2> SUFFICES ASSUME NEW e \in Numbers(a), Entry(a, e).open, ~Entry(a, e).late
               PROVE  e \in taken \/ (reader[a].pc = "insert" /\ reader[a].entry = e)
    BY <1>1, <1>5, <1>7, <1>10 DEF Placed, Entry, threads
  <2>1. nat[a][Entry(a, e).target] = e \/ (reader[a].pc = "insert" /\ reader[a].entry = e)
    BY <1>0, <1>1, Zenon DEF Sound, Placed
  <2>2. Entry(a, e).target \in Targets /\ e # 0
    BY <1>0, EntryType DEF Entries, Numbers
  <2> QED BY <1>4, <2>1, <2>2
<1>14. GaugeDrift' /\ Cardinality(items') <= MaxAssoc
  <2>1. InTables' = InTables \ ({a} \X Targets)
    BY <1>6, Zenon DEF InTables
  <2>2. natGauge = Cardinality(InTables) + dropped /\ dropped \in Int /\ Cardinality(InTables) \in Nat
    BY TableFacts, Zenon DEF UIInv, GaugeDrift, UTypes
  <2>3. natGauge' = Cardinality(InTables') + dropped'
    BY <1>1, <1>3, <1>5, <2>1, <2>2
  <2> QED BY <1>1, <2>3, Zenon DEF UIInv, GaugeDrift
<1>15. Admitted(a)'
  BY <1>0, <1>1, <1>7, Zenon DEF Sound, Admitted
<1> QED BY <1>9, <1>11, <1>12, <1>13, <1>14, <1>15, OthersSound, Zenon DEF UIInv, Sound

\* Close ends: the manager forgets the association.
LEMMA ForgetKeeps ==
  ASSUME UIInv, NEW a \in Assocs, onClose(a)
  PROVE  UIInv'
<1>0. UTypes /\ Sound(a)
  BY Zenon DEF UIInv
<1>1. /\ closer[a] = "entries" /\ snapshot[a] = {} /\ items' = items \ {a} /\ assocGauge' = assocGauge - 1
      /\ closer' = [closer EXCEPT ![a] = "done"]
      /\ UNCHANGED <<natGauge, dropped, handler, snapshot, nat, entries, threads>>
  BY Zenon DEF onClose
<1>2. /\ closer' \in [Assocs -> {"no", "closing", "entries", "done"}] /\ closer'[a] = "done"
      /\ \A b \in Assocs : b # a => closer'[b] = closer[b]
  BY <1>0, <1>1, Zenon DEF UTypes
<1>3. UTypes' /\ Only(a)
  BY <1>0, <1>1, <1>2 DEF UTypes, Only, threads
<1>4. Numbers(a)' = Numbers(a) /\ Used(a)' = Used(a)
  BY <1>1, Zenon DEF Numbers, Used
<1>5. Held(a)' /\ RoomLeft(a)'
  BY <1>0, <1>1, <1>4, Zenon DEF Sound, Held, RoomLeft, Entry, threads
<1>6. Placed(a)'
  BY <1>0, <1>1, <1>2, <1>4 DEF Sound, Placed, Entry, threads
<1>7. a \in items /\ Admitted(a)'
  BY <1>0, <1>1, <1>2 DEF Sound, Admitted
<1>8. assocGauge' = Cardinality(items') /\ Cardinality(items') <= MaxAssoc
  <2>1. IsFiniteSet(items) /\ Cardinality(items) \in Nat
    BY <1>0, SocksUDPAssumption, FS_Subset, FS_CardinalityType DEF UTypes
  <2>2. Cardinality(items \ {a}) = Cardinality(items) - 1
    BY <1>7, <2>1, FS_RemoveElement, Zenon
  <2>3. assocGauge = Cardinality(items) /\ Cardinality(items) <= MaxAssoc
    BY Zenon DEF UIInv, GaugeDrift
  <2> QED BY <1>1, <2>1, <2>2, <2>3, SocksUDPAssumption
<1>9. GaugeDrift'
  <2>1. InTables' = InTables
    BY <1>1, Zenon DEF InTables
  <2> QED BY <1>1, <1>8, <2>1 DEF UIInv, GaugeDrift
<1> QED BY <1>3, <1>5, <1>6, <1>7, <1>8, <1>9, OthersSound, Zenon DEF UIInv, Sound

-----------------------------------------------------------------------------
\* The inductive invariant holds at the start,
LEMMA UInitIInv == UInit => UIInv
<1> SUFFICES ASSUME UInit PROVE UIInv
  OBVIOUS
<1>1. 0 \in 0 .. MaxEntries /\ <<>> \in Seq(Entries) /\ Len(<<>>) = 0 /\ Cardinality({}) = 0
  BY SocksUDPAssumption, FS_EmptySet
<1>2. UTypes
  BY <1>1 DEF UInit, UTypes
<1>3. ASSUME NEW a \in Assocs PROVE Sound(a)
  <2>1. Used(a) = {} /\ Numbers(a) = {}
    BY <1>1 DEF UInit, Used, Numbers
  <2>2. Admitted(a) /\ Held(a)
    BY <1>1, <2>1, SocksUDPAssumption DEF UInit, Admitted, Held
  <2>3. RoomLeft(a) /\ Placed(a)
    BY <1>1, <2>1, SocksUDPAssumption DEF UInit, RoomLeft, Placed
  <2> QED BY <2>2, <2>3, Zenon DEF Sound
<1>4. GaugeDrift /\ Cardinality(items) <= MaxAssoc
  <2>1. InTables = {}
    BY Zenon DEF UInit, InTables
  <2> QED BY <1>1, <2>1, SocksUDPAssumption DEF UInit, GaugeDrift
<1> QED BY <1>2, <1>3, <1>4 DEF UIInv

\* and every step keeps it.
LEMMA UStepIInv == UIInv /\ [UNext]_uvars => UIInv'
<1> SUFFICES ASSUME UIInv, [UNext]_uvars PROVE UIInv'
  OBVIOUS
<1>1. CASE UNCHANGED uvars
  <2>1. UTypes'
    BY <1>1, Zenon DEF UIInv, UTypes, uvars, tables, threads
  <2>2. ASSUME NEW a \in Assocs PROVE Sound(a)'
    <3>1. Used(a)' = Used(a) /\ Numbers(a)' = Numbers(a)
      BY <1>1, Zenon DEF Used, Numbers, uvars
    <3>2. Sound(a)
      BY Zenon DEF UIInv
    <3>3. Admitted(a)' /\ Held(a)'
      BY <1>1, <3>1, <3>2 DEF Sound, Admitted, Held, Entry, uvars, tables, threads
    <3>4. RoomLeft(a)' /\ Placed(a)'
      BY <1>1, <3>1, <3>2 DEF Sound, RoomLeft, Placed, Entry, uvars, tables, threads
    <3> QED BY <3>3, <3>4, Zenon DEF Sound
  <2>3. GaugeDrift' /\ Cardinality(items') <= MaxAssoc
    BY <1>1, GaugesStay DEF uvars, tables
  <2> QED BY <2>1, <2>2, <2>3, Zenon DEF UIInv
<1>2. ASSUME NEW a \in Assocs, Create(a) \/ writeReply(a) \/ Serve(a) \/ closeAssociation(a) PROVE UIInv'
  BY <1>2, CreateKeeps, HandlerKeeps, TakeTableKeeps, SweepKeeps, ForgetKeeps DEF closeAssociation
<1>3. ASSUME NEW a \in Assocs, readClientPackets(a) PROVE UIInv'
  BY <1>3, DatagramKeeps, ReadingKeeps, SendKeeps DEF readClientPackets
<1>4. ASSUME NEW a \in Assocs, getOrCreateEntry(a) PROVE UIInv'
  BY <1>4, ReadingKeeps, DialKeeps, InsertKeeps DEF getOrCreateEntry
<1>5. ASSUME NEW a \in Assocs, copyControl(a) \/ goesIdle(a) \/ janitorLoop(a) \/ closeStale(a) PROVE UIInv'
  BY <1>5, ControlKeeps, IdleKeeps, JanitorKeeps, SweepKeeps
<1>6. ASSUME NEW a \in Assocs, NEW e \in 1 .. Len(entries[a]), reverseLoop(a, e) PROVE UIInv'
  BY <1>6, ReverseKeeps DEF Numbers
<1> QED BY <1>1, <1>2, <1>3, <1>4, <1>5, <1>6, Zenon DEF UNext

\* What the invariant says of an association that has ended.
LEMMA UIInvKept == UIInv => AssociationsKept
<1> SUFFICES ASSUME UIInv PROVE AssociationsKept
  OBVIOUS
<1>1. UTypes /\ \A a \in Assocs : Sound(a)
  BY Zenon DEF UIInv
<1>2. UTypeOK
  <2>1. \A a \in Assocs : snapshot[a] \subseteq 1 .. Len(entries[a]) /\ janitor[a].stale \subseteq 1 .. Len(entries[a])
    BY <1>1, Zenon DEF Sound, Held, Numbers
  <2>2. \A a \in Assocs : nat[a] \in [Targets -> 0 .. MaxEntries] /\ reader[a].pc \in {"read", "dial", "insert", "send", "close", "done"}
    BY <1>1, Zenon DEF UTypes
  <2> QED BY <1>1, <2>1, <2>2, Zenon DEF UTypeOK, UTypes
<1>3. LimitsKept
  BY <1>1, Zenon DEF UIInv, Sound, RoomLeft, Used, LimitsKept
<1>4. LeftOverIsLate
  <2> SUFFICES ASSUME NEW a \in Assocs, handler[a] = "returned", closer[a] = "done"
               PROVE  a \notin items /\ \A e \in 1 .. Len(entries[a]) : Entry(a, e).open => Entry(a, e).late
    BY Zenon DEF LeftOverIsLate
  <2>1. a \notin items /\ reader[a].pc # "insert"
    BY <1>1, Zenon DEF Sound, Admitted, RoomLeft
  <2> QED BY <1>1, <2>1, Zenon DEF Sound, Placed, Numbers
<1> QED BY <1>2, <1>3, <1>4 DEF AssociationsKept, UIInv

\* The SOCKS client keeps its associations: they and the entries of each stay within
\* their limits although the limit is checked before a dial and the entry inserted
\* after it, the count of entries is off exactly by those that Close took, and
\* an entry that Serve leaves open was inserted after Close had taken the table.
THEOREM SocksAssociationsKept == USpec => []AssociationsKept
<1>1. UInit => UIInv
  BY UInitIInv, Zenon
<1>2. UIInv /\ [UNext]_uvars => UIInv'
  BY UStepIInv, Zenon
<1>3. UIInv => AssociationsKept
  BY UIInvKept, Zenon
<1> QED BY <1>1, <1>2, <1>3, PTL DEF USpec

=============================================================================
