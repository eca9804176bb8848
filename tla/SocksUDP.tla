------------------------------ MODULE SocksUDP ------------------------------
(***************************************************************************)
(* UDP associations of the SOCKS client (cmd/socks_client/main.go).  Each  *)
(* has a goroutine that reads the client's datagrams and opens a session   *)
(* and a flow per target, one that waits for the control connection to     *)
(* end, a janitor, and one per flow that sends its datagrams back.         *)
(*                                                                         *)
(* closeEntry runs under the entry's Once and is one step; Close is as     *)
(* many as it has critical sections.  Admission and dialling are in        *)
(* FlowCap and PolicyMode: an entry that is "open" here has its session,   *)
(* its flow and its registration with the controller.                      *)
(***************************************************************************)
EXTENDS Integers, Sequences, FiniteSets

CONSTANTS Assocs, Targets,
          MaxAssoc,      \* --udp-max-associations
          MaxNAT,        \* --udp-max-nat, per association
          MaxEntries,    \* bound on the entries that an association ever has
          Serving        \* associations that may be served; the others are closed
                         \* because their reply cannot be written

ASSUME SocksUDPAssumption ==
  /\ IsFiniteSet(Assocs) /\ IsFiniteSet(Targets)
  /\ MaxAssoc \in Nat /\ MaxNAT \in Nat /\ MaxEntries \in Nat

VARIABLES
  items,                 \* udpAssociationManager.items
  assocGauge, natGauge,  \* activeAssociations, activeNATEntries
  handler,               \* handleUDPAssociate of each association
  closer,                \* Close, under its Once; it begins by closing a.closing
  snapshot,              \* entries that Close still has to close
  nat,                   \* a.nat: entry of each target, 0 if there is none
  entries,               \* all entries of an association, in the order of registerFlow
  reader,                \* readClientPackets and getOrCreateEntry
  copier,                \* the goroutine on the control connection
  janitor,               \* janitorLoop, and the entries it has found stale
  dropped                \* history: entries that Close has taken out of the tables

tables == <<items, assocGauge, natGauge, dropped>>
threads == <<reader, copier, janitor>>
uvars == <<tables, handler, closer, snapshot, nat, entries, threads>>

NewEntry(t) == [target |-> t, open |-> TRUE, idle |-> FALSE, reverse |-> "none", late |-> FALSE]
Entry(a, e) == entries[a][e]
Closing(a) == closer[a] # "no"

UTypeOK ==
  /\ items \subseteq Assocs
  /\ handler \in [Assocs -> {"none", "reply", "serve", "returned"}]
  /\ closer \in [Assocs -> {"no", "closing", "entries", "done"}]
  /\ \A a \in Assocs : snapshot[a] \subseteq 1 .. Len(entries[a]) /\ janitor[a].stale \subseteq 1 .. Len(entries[a])
  /\ \A a \in Assocs : nat[a] \in [Targets -> 0 .. MaxEntries]
  /\ \A a \in Assocs : reader[a].pc \in {"read", "dial", "insert", "send", "close", "done"}
  /\ copier \in [Assocs -> {"copy", "close", "done"}]

UInit ==
  /\ items = {} /\ assocGauge = 0 /\ natGauge = 0 /\ dropped = 0
  /\ handler = [a \in Assocs |-> "none"] /\ closer = [a \in Assocs |-> "no"]
  /\ snapshot = [a \in Assocs |-> {}]
  /\ nat = [a \in Assocs |-> [t \in Targets |-> 0]]
  /\ entries = [a \in Assocs |-> <<>>]
  /\ reader = [a \in Assocs |-> [pc |-> "read", target |-> "none", entry |-> 0]]
  /\ copier = [a \in Assocs |-> "copy"]
  /\ janitor = [a \in Assocs |-> [pc |-> "wait", stale |-> {}]]

-----------------------------------------------------------------------------
(* Create, Close and Serve.                                                *)

Create(a) ==
  /\ handler[a] = "none"
  /\ IF Cardinality(items) >= MaxAssoc
     THEN handler' = [handler EXCEPT ![a] = "returned"] /\ UNCHANGED <<items, assocGauge>>
     ELSE /\ items' = items \cup {a} /\ assocGauge' = assocGauge + 1
          /\ handler' = [handler EXCEPT ![a] = "reply"]
  /\ UNCHANGED <<natGauge, dropped, closer, snapshot, nat, entries, threads>>

\* The first caller runs Close, the others wait for it.
CallClose(a) == closer' = [closer EXCEPT ![a] = IF @ = "no" THEN "closing" ELSE @]

writeReply(a) ==
  /\ handler[a] = "reply"
  /\ \/ a \in Serving /\ handler' = [handler EXCEPT ![a] = "serve"] /\ UNCHANGED closer
     \/ handler' = [handler EXCEPT ![a] = "returned"] /\ CallClose(a)
  /\ UNCHANGED <<tables, snapshot, nat, entries, threads>>

\* A plausible slip: the table is replaced before its entries are copied.
closeForgets(a) ==
  /\ closer[a] = "closing"
  /\ dropped' = dropped + Cardinality({nat[a][t] : t \in Targets} \ {0})
  /\ nat' = [nat EXCEPT ![a] = [t \in Targets |-> 0]]
  /\ closer' = [closer EXCEPT ![a] = "entries"]
  /\ UNCHANGED <<items, assocGauge, natGauge, handler, snapshot, entries, threads>>

\* Close takes the entries and replaces the table under the lock.
closeTake(a) ==
  /\ closer[a] = "closing"
  /\ snapshot' = [snapshot EXCEPT ![a] = {nat[a][t] : t \in Targets} \ {0}]
  /\ dropped' = dropped + Cardinality(snapshot'[a])
  /\ nat' = [nat EXCEPT ![a] = [t \in Targets |-> 0]]
  /\ closer' = [closer EXCEPT ![a] = "entries"]
  /\ UNCHANGED <<items, assocGauge, natGauge, handler, entries, threads>>

\* Once: the entry leaves the table if it is still the one there, and its flow,
\* its session and its registration end.  reverse: what its reverseLoop does.
closeEntry(a, e, reverse) ==
  /\ entries' = [entries EXCEPT ![a][e] = [@ EXCEPT !.open = FALSE, !.idle = FALSE, !.reverse = reverse]]
  /\ IF Entry(a, e).open /\ nat[a][Entry(a, e).target] = e
     THEN /\ nat' = [nat EXCEPT ![a][Entry(a, e).target] = 0]
          /\ natGauge' = natGauge - 1
     ELSE UNCHANGED <<nat, natGauge>>

closeEntries(a) ==
  /\ closer[a] = "entries"
  /\ \E e \in snapshot[a] : closeEntry(a, e, Entry(a, e).reverse) /\ snapshot' = [snapshot EXCEPT ![a] = @ \ {e}]
  /\ UNCHANGED <<items, assocGauge, dropped, handler, closer, threads>>

onClose(a) ==
  /\ closer[a] = "entries" /\ snapshot[a] = {}
  /\ items' = items \ {a} /\ assocGauge' = assocGauge - 1
  /\ closer' = [closer EXCEPT ![a] = "done"]
  /\ UNCHANGED <<natGauge, dropped, handler, snapshot, nat, entries, threads>>

\* wg.Wait: the three goroutines of Serve and those of the entries
Serve(a) ==
  /\ handler[a] = "serve" /\ Closing(a)
  /\ reader[a].pc = "done" /\ janitor[a].pc = "done" /\ copier[a] = "done"
  /\ \A e \in 1 .. Len(entries[a]) : Entry(a, e).reverse # "run"
  /\ handler' = [handler EXCEPT ![a] = "returned"]
  /\ UNCHANGED <<tables, closer, snapshot, nat, entries, threads>>

closeAssociation(a) == closeTake(a) \/ closeEntries(a) \/ onClose(a)

-----------------------------------------------------------------------------
(* readClientPackets and getOrCreateEntry.                                 *)

Reading(a, pc) == handler[a] = "serve" /\ reader[a].pc = pc
Read(a, pc) == reader' = [reader EXCEPT ![a] = [pc |-> pc, target |-> "none", entry |-> 0]]

room(a) == Cardinality({t \in Targets : nat[a][t] # 0}) < MaxNAT

\* A datagram: its entry is found, or one is wanted, or there is no room.  The
\* look-up may come after Close has emptied the table: the reader then dials, as
\* it does for a target that had no entry.
readDatagram(a) ==
  /\ Reading(a, "read") /\ ~Closing(a)
  /\ \E t \in Targets :
       \/ /\ nat[a][t] # 0
          /\ reader' = [reader EXCEPT ![a] = [pc |-> "send", target |-> t, entry |-> nat[a][t]]]
       \/ /\ nat[a][t] = 0 /\ room(a) /\ Len(entries[a]) < MaxEntries
          /\ reader' = [reader EXCEPT ![a] = [pc |-> "dial", target |-> t, entry |-> 0]]
  /\ UNCHANGED <<tables, handler, closer, snapshot, nat, entries, copier, janitor>>

\* The socket is closed, or it fails and the association with it.
readFails(a) ==
  /\ Reading(a, "read")
  /\ IF Closing(a) THEN Read(a, "done") /\ UNCHANGED closer ELSE Read(a, "close") /\ CallClose(a)
  /\ UNCHANGED <<tables, handler, snapshot, nat, entries, copier, janitor>>

readClosed(a) ==
  /\ Reading(a, "close") /\ closer[a] = "done"
  /\ Read(a, "done")
  /\ UNCHANGED <<tables, handler, closer, snapshot, nat, entries, copier, janitor>>

\* Admission, Dial, OpenUDPFlow and registerFlow, or one of them fails.
dialEntry(a) ==
  /\ Reading(a, "dial")
  /\ \/ /\ entries' = [entries EXCEPT ![a] = Append(@, NewEntry(reader[a].target))]
        /\ reader' = [reader EXCEPT ![a].pc = "insert", ![a].entry = Len(entries'[a])]
     \/ Read(a, "read") /\ UNCHANGED entries
  /\ UNCHANGED <<tables, handler, closer, snapshot, nat, copier, janitor>>

\* Nothing asks whether the association is closing.
insertEntry(a) ==
  /\ Reading(a, "insert") /\ nat[a][reader[a].target] = 0
  /\ nat' = [nat EXCEPT ![a][reader[a].target] = reader[a].entry]
  /\ natGauge' = natGauge + 1
  /\ entries' = [entries EXCEPT ![a][reader[a].entry].reverse = "run",
                                ![a][reader[a].entry].late = closer[a] \in {"entries", "done"}]
  /\ reader' = [reader EXCEPT ![a].pc = "send"]
  /\ UNCHANGED <<items, assocGauge, dropped, handler, closer, snapshot, copier, janitor>>

Send(a) ==
  /\ Reading(a, "send")
  /\ Read(a, "read")
  /\ \/ /\ Entry(a, reader[a].entry).open
        /\ entries' = [entries EXCEPT ![a][reader[a].entry].idle = FALSE]
        /\ UNCHANGED <<nat, natGauge>>
     \/ closeEntry(a, reader[a].entry, Entry(a, reader[a].entry).reverse)
  /\ UNCHANGED <<items, assocGauge, dropped, handler, closer, snapshot, copier, janitor>>

readClientPackets(a) == readDatagram(a) \/ readFails(a) \/ readClosed(a) \/ Send(a)
getOrCreateEntry(a) == dialEntry(a) \/ insertEntry(a)

-----------------------------------------------------------------------------
(* The other goroutines.                                                   *)

\* The control connection ends, for one because Close has closed it.
copyControl(a) ==
  /\ handler[a] = "serve"
  /\ \/ copier[a] = "copy" /\ copier' = [copier EXCEPT ![a] = "close"] /\ CallClose(a)
     \/ copier[a] = "close" /\ closer[a] = "done" /\ copier' = [copier EXCEPT ![a] = "done"] /\ UNCHANGED closer
  /\ UNCHANGED <<tables, handler, snapshot, nat, entries, reader, janitor>>

\* An entry sends and receives nothing for the idle timeout.
goesIdle(a) ==
  /\ \E e \in 1 .. Len(entries[a]) :
       ~Entry(a, e).idle /\ Entry(a, e).open /\ entries' = [entries EXCEPT ![a][e].idle = TRUE]
  /\ UNCHANGED <<tables, handler, closer, snapshot, nat, threads>>

\* The stale entries are found under the lock, and closed after it.
janitorLoop(a) ==
  /\ handler[a] = "serve" /\ janitor[a].pc = "wait"
  /\ \/ Closing(a) /\ janitor' = [janitor EXCEPT ![a].pc = "done"]
     \/ LET stale == {e \in 1 .. Len(entries[a]) : nat[a][Entry(a, e).target] = e /\ Entry(a, e).idle}
        IN  stale # {} /\ janitor' = [janitor EXCEPT ![a] = [pc |-> "close", stale |-> stale]]
  /\ UNCHANGED <<tables, handler, closer, snapshot, nat, entries, reader, copier>>

closeStale(a) ==
  /\ janitor[a].pc = "close"
  /\ \E e \in janitor[a].stale :
       /\ closeEntry(a, e, Entry(a, e).reverse)
       /\ janitor' = [janitor EXCEPT ![a] = [pc |-> IF @.stale = {e} THEN "wait" ELSE "close", stale |-> @.stale \ {e}]]
  /\ UNCHANGED <<items, assocGauge, dropped, handler, closer, snapshot, reader, copier>>

\* A plausible slip: Recv's timeout does not look at a.closing.
reverseDeaf(a, e) ==
  /\ Entry(a, e).reverse = "run"
  /\ entries' = IF Entry(a, e).open THEN entries ELSE [entries EXCEPT ![a][e].reverse = "done"]
  /\ UNCHANGED <<tables, handler, closer, snapshot, nat, threads>>

\* A datagram comes back; Recv or WriteToUDP fails and the entry is closed; or
\* Recv times out when the association is closing, and the entry is left alone.
reverseLoop(a, e) ==
  /\ Entry(a, e).reverse = "run"
  /\ \/ /\ Entry(a, e).open /\ Entry(a, e).idle /\ ~Closing(a)
        /\ entries' = [entries EXCEPT ![a][e].idle = FALSE] /\ UNCHANGED <<nat, natGauge>>
     \/ closeEntry(a, e, "done")
     \/ Closing(a) /\ entries' = [entries EXCEPT ![a][e].reverse = "done"] /\ UNCHANGED <<nat, natGauge>>
  /\ UNCHANGED <<items, assocGauge, dropped, handler, closer, snapshot, threads>>

UNext ==
  \E a \in Assocs :
    \/ Create(a) \/ writeReply(a) \/ closeAssociation(a) \/ Serve(a) \/ readClientPackets(a) \/ getOrCreateEntry(a)
    \/ copyControl(a) \/ goesIdle(a) \/ janitorLoop(a) \/ closeStale(a)
    \/ \E e \in 1 .. Len(entries[a]) : reverseLoop(a, e)

USpec == UInit /\ [][UNext]_uvars

\* Goroutines run, dials and Recv have time limits; clients need not close.
USteps(a) ==
  \/ closeAssociation(a) \/ Serve(a) \/ readClosed(a) \/ Send(a) \/ getOrCreateEntry(a) \/ closeStale(a)
  \/ Closing(a) /\ (readFails(a) \/ copyControl(a) \/ janitorLoop(a) \/ \E e \in 1 .. Len(entries[a]) : reverseLoop(a, e))
-----------------------------------------------------------------------------
\* Associations and entries stay within their limits, although the limit on
\* entries is checked before a session is dialled and inserted after it.
LimitsKept ==
  /\ Cardinality(items) <= MaxAssoc
  /\ \A a \in Assocs : Cardinality({t \in Targets : nat[a][t] # 0}) <= MaxNAT

\* activeAssociations is the number of associations in the manager, but
\* activeNATEntries is the number of entries in the tables and of those that Close
\* took out of one: closeEntry no longer finds them there.
InTables == {p \in Assocs \X Targets : nat[p[1]][p[2]] # 0}
GaugeDrift == assocGauge = Cardinality(items) /\ natGauge = Cardinality(InTables) + dropped

\* When Serve has returned, an entry keeps its session, its flow and its
\* registration only if it was inserted after Close had emptied the table.
LeftOverIsLate ==
  \A a \in Assocs : handler[a] = "returned" /\ closer[a] = "done" =>
    a \notin items /\ \A e \in 1 .. Len(entries[a]) : Entry(a, e).open => Entry(a, e).late

\* Associations and entries stay within their limits, the gauge is off only by the
\* entries that Close takes, and an entry that Serve leaves open was inserted
\* after Close had taken the table.
AssociationsKept == UTypeOK /\ LimitsKept /\ GaugeDrift /\ LeftOverIsLate

\* Serve returns once the association is closing.
ServeReturns == \A a \in Serving : Closing(a) ~> handler[a] = "returned"
=============================================================================
