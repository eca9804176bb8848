--------------------------- MODULE TunClientProofs ---------------------------
(***************************************************************************)
(* The reference counts of the TUN client's shared session clients, for    *)
(* any number of flows, whatever their kinds and addresses, and any number *)
(* of clients dialed.                                                      *)
(*                                                                         *)
(* Four facts carry each other.  Counted: what the entry of the table      *)
(* counts.  Fresh: a client that has been dialed and waits for the second  *)
(* look is open, is in no entry and belongs to one flow, which holds as    *)
(* client numbers are given in falling order.  LeftOpenIsReplaced.  And    *)
(* Phase: a goroutine that looks for a client holds none, because the end  *)
(* of a DNS query finds its flow in c.flows, and so releases its client.   *)
(*                                                                         *)
(* On top of them SInv says of each state of the UDP manager from when to  *)
(* when it is in m.flows, and that a state not closed early still has the  *)
(* field by which closeState gives back what it owns.  With both, a client *)
(* is closed over an open UDP flow only if the flow's state was closed     *)
(* early: any other one holds the client, whose count is not zero.         *)
(***************************************************************************)
EXTENDS TunClient, FiniteSetTheorems, TLAPS

\* The clients on which Close has not been called
Unclosed == live \ hung

PoolType ==
  /\ pool \in [client : Nat, refs : Nat, broken : BOOLEAN] /\ (pool.client = 0 => pool = None)
  /\ dials \in Nat /\ live \subseteq Nat /\ hung \subseteq live /\ mixed \in BOOLEAN
  /\ mine \in [Flows -> Nat] /\ held \subseteq Flows

Looking == {"out", "start", "check", "look", "dial", "second", "dns"}
Relaying == {"relay", "copied", "errored", "ended"}
Closing == {"pump", "close", "closing", "done", "stuck"}
Places == {"acquired", "open", "failed", "register", "registered"} \cup Looking \cup Relaying \cup Closing

AtType == at \in [Flows -> Places] /\ field \in [Flows -> SUBSET Fields] /\ flowTable \subseteq Flows

\* The entry counts at most the holders, and exactly them while references are
\* not mixed up; its client is open.
Counted ==
  /\ pool.refs <= Cardinality(held) /\ (pool.broken => pool.refs > 0)
  /\ ~mixed => pool.refs = Cardinality(held) /\ \A f \in held : mine[f] = pool.client /\ pool.client # 0
  /\ pool.client # 0 => pool.client \in Unclosed

Fresh ==
  /\ pool.client # 0 => pool.client > dials
  /\ \A c \in live : c > dials
  /\ \A f \in Flows : mine[f] # 0 => mine[f] > dials
  /\ \A f \in Flows : at[f] = "second" =>
       /\ mine[f] # 0 /\ mine[f] # pool.client /\ mine[f] \in Unclosed
       /\ \A g \in Flows : at[g] = "second" /\ mine[g] = mine[f] => g = f

Phase ==
  \A f \in Flows :
    /\ at[f] \in Looking => f \notin held
    /\ at[f] \notin Closing => "flowRef" \notin field[f]
    /\ at[f] \in Relaying => f \in flowTable

IInv == PoolType /\ AtType /\ Counted /\ Fresh /\ LeftOpenIsReplaced /\ Phase

\* What releaseClient, markClientBad and closeController may do to the table:
\* its client leaves it only when it is closed, and no other is closed.
Lowered ==
  /\ pool'.client \in {0, pool.client} /\ (pool'.client = 0 => pool.client \notin Unclosed' \/ pool.client = 0)
  /\ live' \subseteq live /\ Unclosed' \subseteq Unclosed /\ Unclosed \subseteq Unclosed' \cup {pool.client}
  /\ dials' = dials /\ orphans' = orphans /\ mine' = mine

-----------------------------------------------------------------------------
\* The holders are a finite set, as the flows are.
LEMMA HeldFinite ==
  ASSUME PoolType
  PROVE  /\ IsFiniteSet(held) /\ Cardinality(held) \in Nat
         /\ \A f \in Flows : f \notin held => Cardinality(held \cup {f}) = Cardinality(held) + 1
         /\ \A f \in held : Cardinality(held \ {f}) = Cardinality(held) - 1 /\ Cardinality(held) > 0
         /\ Cardinality(held) = 0 <=> held = {}
<1>1. IsFiniteSet(held)
  BY TunAssumption, FS_Subset, Zenon DEF PoolType
<1>2. Cardinality(held) \in Nat /\ (Cardinality(held) = 0 <=> held = {})
  BY <1>1, FS_CardinalityType, FS_EmptySet, Zenon
<1>3. \A f \in Flows : f \notin held => Cardinality(held \cup {f}) = Cardinality(held) + 1
  BY <1>1, FS_AddElement, Zenon
<1>4. \A f \in held : Cardinality(held \ {f}) = Cardinality(held) - 1 /\ Cardinality(held) > 0
  BY <1>1, <1>2, FS_RemoveElement
<1> QED
  BY <1>1, <1>2, <1>3, <1>4, Zenon

\* acquireClient counts a flow that held no client.
LEMMA JoinStep ==
  ASSUME NEW f \in Flows, PoolType, Counted, Usable, f \notin held, join(f),
         mixed' = mixed, dials' = dials, live' \subseteq live, hung' = hung, hung \subseteq live', pool.client \in Unclosed'
  PROVE  PoolType' /\ Counted'
<1>1. /\ pool' = [client |-> pool.client, refs |-> pool.refs + 1, broken |-> pool.broken]
      /\ mine' = [mine EXCEPT ![f] = pool.client] /\ held' = held \cup {f}
  BY Zenon DEF join, PoolType
<1>2. PoolType'
  BY <1>1 DEF PoolType, Usable
<1>3. Cardinality(held') = Cardinality(held) + 1 /\ Cardinality(held) \in Nat
  BY <1>1, HeldFinite, Zenon
<1>4. pool'.refs <= Cardinality(held') /\ (pool'.broken => pool'.refs > 0)
  BY <1>1, <1>3 DEF Counted, PoolType
<1>5. ~mixed' => pool'.refs = Cardinality(held')
  BY <1>1, <1>3, Zenon DEF Counted, PoolType
<1>6. ~mixed' => \A g \in held' : mine'[g] = pool'.client /\ pool'.client # 0
  BY <1>1, Zenon DEF Counted, PoolType, Usable
<1>7. pool'.client # 0 => pool'.client \in Unclosed'
  BY <1>1, Zenon
<1> QED
  BY <1>2, <1>4, <1>5, <1>6, <1>7, Zenon DEF Counted

\* acquireClient puts the client of a flow that held none in the table.
LEMMA InstallStep ==
  ASSUME NEW f \in Flows, PoolType, Counted, f \notin held, mine[f] # 0, mine[f] \in Unclosed,
         pool' = [client |-> mine[f], refs |-> 1, broken |-> FALSE],
         held' = held \cup {f}, mine' = mine, mixed' = (mixed \/ held # {}),
         dials' = dials, live' = live, hung' = hung
  PROVE  PoolType' /\ Counted'
<1>1. PoolType'
  BY Zenon DEF PoolType
<1>2. Cardinality(held') = Cardinality(held) + 1 /\ Cardinality(held) \in Nat /\ (Cardinality(held) = 0 <=> held = {})
  BY HeldFinite, Zenon
<1>3. pool'.refs <= Cardinality(held') /\ (pool'.broken => pool'.refs > 0)
  BY <1>2
<1>4. ~mixed' => held = {}
  BY Zenon
<1>5. ~mixed' => pool'.refs = Cardinality(held') /\ \A g \in held' : mine'[g] = pool'.client /\ pool'.client # 0
  BY <1>2, <1>4
<1> QED
  BY <1>1, <1>3, <1>5, Zenon DEF Counted, Unclosed

\* Close on the client in the table, whether it hangs or not.
LEMMA CloseStep ==
  ASSUME PoolType, Counted, pool.client # 0, closeClient(pool.client)
  PROVE  live' \subseteq live /\ hung' \subseteq live' /\ Unclosed' = Unclosed \ {pool.client}
<1>1. hung \subseteq live /\ pool.client \in live \ hung
  BY Zenon DEF PoolType, Counted, Unclosed
<1>2. \/ live' = live \ {pool.client} /\ hung' = hung
      \/ hung' = hung \cup {pool.client} /\ live' = live
  BY Zenon DEF closeClient
<1> QED
  BY <1>1, <1>2 DEF Unclosed

\* releaseClient keeps the count, also when the flow's reference was not one to
\* the client in the table.
LEMMA ReleaseStep ==
  ASSUME NEW f \in Flows, PoolType, Counted, releaseClient(f), mine' = mine
  PROVE  PoolType' /\ Counted' /\ Lowered /\ f \notin held' /\ held' \subseteq held
<1> DEFINE refs == IF pool.refs > 0 THEN pool.refs - 1 ELSE 0
           last == pool.broken /\ refs = 0
<1>1. /\ pool' = IF last THEN None ELSE [pool EXCEPT !.refs = refs]
      /\ IF last THEN closeClient(pool.client) ELSE UNCHANGED <<live, hung>>
      /\ held' = held \ {f} /\ mixed' = (mixed \/ Foreign(f)) /\ dials' = dials /\ orphans' = orphans
  BY Zenon DEF releaseClient
<1>0. /\ live' \subseteq live /\ hung' \subseteq live'
      /\ last => Unclosed' = Unclosed \ {pool.client}
      /\ ~last => Unclosed' = Unclosed
  <2>1. last => pool.client # 0
    BY DEF PoolType, None
  <2>2. CASE last
    BY <1>1, <2>1, <2>2, CloseStep, Zenon
  <2>3. CASE ~last
    BY <1>1, <2>3, Zenon DEF PoolType, Unclosed
  <2> HIDE DEF last
  <2> QED
    BY <2>2, <2>3, Zenon
<1>2. refs \in Nat /\ refs <= pool.refs /\ (pool.refs > 0 => refs = pool.refs - 1)
  BY DEF PoolType
<1>3. /\ last => pool' = [client |-> 0, refs |-> 0, broken |-> FALSE]
      /\ ~last => pool' = [client |-> pool.client, refs |-> refs, broken |-> pool.broken]
  BY <1>1, Zenon DEF None, PoolType
<1>4. pool'.refs = refs
  BY <1>3
<1>5. mixed' \in BOOLEAN
  BY <1>1, Zenon
<1>6. PoolType'
  <2>1. pool' \in [client : Nat, refs : Nat, broken : BOOLEAN]
    <3>1. pool.client \in Nat /\ pool.broken \in BOOLEAN
      BY Zenon DEF PoolType
    <3>2. CASE last
      <4>1. pool' = [client |-> 0, refs |-> 0, broken |-> FALSE]
        BY <3>2, <1>3, Zenon
      <4> QED
        BY <4>1, Zenon
    <3>3. CASE ~last
      BY <3>1, <3>3, <1>2, <1>3
    <3> HIDE DEF last
    <3> QED
      BY <3>2, <3>3, Zenon
  <2>2. pool'.client = 0 => pool' = None
    <3>1. ~last /\ pool.client = 0 => pool' = None
      BY <1>2, <1>3 DEF PoolType, None
    <3> QED
      BY <3>1, <1>3 DEF None
  <2> QED
    BY <2>1, <2>2, <1>0, <1>1, <1>5, Zenon DEF PoolType
<1>7. Lowered
  <2>1. CASE last
    BY <1>0, <1>1, <1>3, <2>1 DEF Lowered
  <2>2. CASE ~last
    BY <1>0, <1>1, <1>3, <2>2 DEF Lowered
  <2> HIDE DEF last
  <2> QED
    BY <2>1, <2>2, Zenon
<1>8. Counted'
  <2>1. Cardinality(held) \in Nat /\ Cardinality(held') \in Nat /\ Cardinality(held') <= Cardinality(held)
    <3>1. CASE f \in held
      BY <3>1, <1>1, HeldFinite
    <3>2. CASE f \notin held
      <4>1. held' = held
        BY <3>2, <1>1, Zenon
      <4> QED
        BY <4>1, HeldFinite
    <3> QED
      BY <3>1, <3>2, Zenon
  <2>2. f \in held => Cardinality(held') = Cardinality(held) - 1 /\ Cardinality(held) > 0
    BY <1>1, HeldFinite, Zenon
  <2>3. f \notin held => held' = held
    BY <1>1, Zenon
  <2>4. pool.refs <= Cardinality(held)
    BY Zenon DEF Counted
  <2>5. pool'.refs <= Cardinality(held')
    BY <1>2, <1>4, <2>1, <2>2, <2>3, <2>4 DEF PoolType
  <2>6. pool'.broken => pool'.refs > 0
    <3>1. CASE last
      BY <3>1, <1>3
    <3>2. CASE ~last
      <4>1. pool'.broken = pool.broken /\ pool'.refs = refs
        BY <3>2, <1>3
      <4>2. pool.broken => refs # 0
        BY <3>2, Zenon
      <4> HIDE DEF refs
      <4> QED
        BY <4>1, <4>2, <1>2
    <3> HIDE DEF last
    <3> QED
      BY <3>1, <3>2, Zenon
  <2>7. ~mixed' => ~mixed /\ ~Foreign(f)
    BY <1>1, Zenon
  <2>8. ASSUME ~mixed'
        PROVE  pool'.refs = Cardinality(held') /\ \A g \in held' : mine'[g] = pool'.client /\ pool'.client # 0
    <3>1. pool.refs = Cardinality(held) /\ \A g \in held : mine[g] = pool.client /\ pool.client # 0
      BY <2>7, <2>8, Zenon DEF Counted
    <3>2. pool'.refs = Cardinality(held')
      <4>1. CASE f \in held
        BY <4>1, <1>2, <1>4, <2>2, <3>1, Zenon
      <4>2. CASE f \notin held
        <5>1. pool.client = 0
          BY <4>2, <2>7, <2>8, Zenon DEF Foreign
        <5>2. pool.refs = 0
          BY <5>1 DEF PoolType, None
        <5> QED
          BY <5>2, <2>3, <3>1, <4>2, <1>4
      <4> QED
        BY <4>1, <4>2, Zenon
    <3>3. held' # {} => ~last
      <4>1. held' # {} => Cardinality(held') # 0
        BY <1>6, HeldFinite, <1>1, FS_EmptySet, FS_Subset, Zenon
      <4> QED
        BY <4>1, <3>2, <1>4, Zenon
    <3> QED
      BY <3>1, <3>2, <3>3, <1>1, <1>3, Zenon
  <2>9. pool'.client # 0 => pool'.client \in Unclosed'
    BY <1>0, <1>3 DEF Counted
  <2> QED
    BY <2>5, <2>6, <2>8, <2>9, Zenon DEF Counted
<1> QED
  BY <1>1, <1>6, <1>7, <1>8, Zenon

\* markClientBad keeps the count: an unused client leaves the table and is
\* closed, one in use is marked.
LEMMA MarkStep ==
  ASSUME PoolType, Counted, markClientBad, mine' = mine, held' = held
  PROVE  PoolType' /\ Counted' /\ Lowered
<1> DEFINE unused == pool.client # 0 /\ pool.refs = 0 /\ ~pool.broken
<1>1. /\ pool' = IF pool.client = 0 \/ unused THEN None ELSE [pool EXCEPT !.broken = TRUE]
      /\ IF unused THEN closeClient(pool.client) ELSE UNCHANGED <<live, hung>>
      /\ dials' = dials /\ mixed' = mixed /\ orphans' = orphans
  BY Zenon DEF markClientBad
<1>2. CASE pool.client = 0
  <2>1. pool = None /\ UNCHANGED <<pool, live, hung>>
    BY <1>1, <1>2, Zenon DEF PoolType
  <2> QED
    BY <1>1, <1>2, <2>1, Zenon DEF PoolType, Counted, Lowered, Unclosed
<1>3. CASE unused
  <2>1. pool' = [client |-> 0, refs |-> 0, broken |-> FALSE]
    BY <1>1, <1>3, Zenon DEF None
  <2>0. live' \subseteq live /\ hung' \subseteq live' /\ Unclosed' = Unclosed \ {pool.client}
    BY <1>1, <1>3, CloseStep, Zenon
  <2>2. PoolType'
    BY <2>0, <2>1, <1>1 DEF PoolType, None
  <2>3. Lowered
    BY <2>0, <2>1, <1>1 DEF Lowered
  <2>4. ~mixed => held = {}
    BY <1>3, HeldFinite, Zenon DEF Counted
  <2>5. Cardinality(held) \in Nat /\ (~mixed => Cardinality(held) = 0)
    BY <2>4, HeldFinite, Zenon
  <2>6. Counted'
    BY <2>1, <2>4, <2>5, <1>1 DEF Counted
  <2> QED
    BY <2>2, <2>3, <2>6, Zenon
<1>4. CASE pool.client # 0 /\ ~unused
  <2>1. /\ pool' = [client |-> pool.client, refs |-> pool.refs, broken |-> TRUE] /\ live' = live /\ hung' = hung
        /\ Unclosed' = Unclosed
    BY <1>1, <1>4, Zenon DEF PoolType, Unclosed
  <2>2. pool.refs > 0 /\ pool.client # 0
    BY <1>4 DEF Counted, PoolType
  <2>3. PoolType'
    BY <2>1, <2>2, <1>1 DEF PoolType
  <2>4. Lowered
    BY <2>1, <2>2, <1>1 DEF Lowered
  <2>5. Counted'
    BY <2>1, <2>2, <1>1 DEF Counted
  <2> QED
    BY <2>3, <2>4, <2>5, Zenon
<1> QED
  BY <1>2, <1>3, <1>4, Zenon

\* A step that leaves the clients and their holders alone
LEMMA IdleStep ==
  ASSUME PoolType, Counted, UNCHANGED clients, mine' = mine, held' = held
  PROVE  PoolType' /\ Counted' /\ Lowered
<1>1. PoolType'
  BY Zenon DEF PoolType, clients
<1>2. Counted'
  BY Zenon DEF Counted, clients, Unclosed
<1>3. Lowered
  BY Zenon DEF Lowered, clients, Unclosed
<1> QED
  BY <1>1, <1>2, <1>3, Zenon

\* A client that waits for the second look is not touched by a step that takes
\* at most the entry from the table.
LEMMA FreshStep ==
  ASSUME PoolType, Fresh, LeftOpenIsReplaced, Lowered,
         \A g \in Flows : at'[g] = "second" <=> at[g] = "second"
  PROVE  Fresh' /\ LeftOpenIsReplaced'
<1>1. /\ pool'.client \in {0, pool.client} /\ (pool'.client = 0 => pool.client \notin Unclosed' \/ pool.client = 0)
      /\ live' \subseteq live /\ Unclosed' \subseteq Unclosed /\ Unclosed \subseteq Unclosed' \cup {pool.client}
      /\ dials' = dials /\ orphans' = orphans /\ mine' = mine
  BY Zenon DEF Lowered
<1>2. Fresh'
  <2>1. pool'.client # 0 => pool'.client > dials'
    BY <1>1, Zenon DEF Fresh
  <2>2. /\ \A f \in Flows : mine'[f] # 0 => mine'[f] > dials'
        /\ \A c \in live' : c > dials'
    BY <1>1, Zenon DEF Fresh
  <2>3. ASSUME NEW f \in Flows, at'[f] = "second"
        PROVE  /\ mine'[f] # 0 /\ mine'[f] # pool'.client /\ mine'[f] \in Unclosed'
               /\ \A g \in Flows : at'[g] = "second" /\ mine'[g] = mine'[f] => g = f
    <3>1. /\ mine[f] # 0 /\ mine[f] # pool.client /\ mine[f] \in Unclosed
          /\ \A g \in Flows : at[g] = "second" /\ mine[g] = mine[f] => g = f
      BY <2>3, Zenon DEF Fresh
    <3> QED
      BY <3>1, <1>1, Zenon
  <2> QED
    BY <2>1, <2>2, <2>3, Zenon DEF Fresh
<1>3. LeftOpenIsReplaced'
  BY <1>1, Zenon DEF LeftOpenIsReplaced, Unclosed
<1> QED
  BY <1>2, <1>3, Zenon

\* f's goroutine may have gone to another place.
Moved(f) == at' \in [Flows -> Places] /\ \A g \in Flows : g # f => at'[g] = at[g]

\* What the step of a goroutine from one place to another has to keep, when it
\* neither dials a client nor puts one in the table
LEMMA MoveStep ==
  ASSUME IInv, NEW f \in Flows, Moved(f), at[f] # "second", at'[f] # "second",
         PoolType', Counted', Lowered, held' \subseteq held,
         field' \in [Flows -> SUBSET Fields], flowTable' \subseteq Flows,
         \A g \in Flows : g # f => field'[g] = field[g] /\ (g \in flowTable => g \in flowTable'),
         at'[f] \in Looking => f \notin held',
         at'[f] \notin Closing => "flowRef" \notin field'[f],
         at'[f] \in Relaying => f \in flowTable'
  PROVE  IInv'
<1>1. AtType'
  BY Zenon DEF AtType, Moved
<1>2. \A g \in Flows : at'[g] = "second" <=> at[g] = "second"
  BY Zenon DEF Moved
<1>3. Fresh' /\ LeftOpenIsReplaced'
  BY <1>2, FreshStep, Zenon DEF IInv
<1>4. Phase'
  <2> SUFFICES ASSUME NEW g \in Flows
               PROVE  /\ at'[g] \in Looking => g \notin held'
                      /\ at'[g] \notin Closing => "flowRef" \notin field'[g]
                      /\ at'[g] \in Relaying => g \in flowTable'
    BY Zenon DEF Phase
  <2>1. CASE g = f
    BY <2>1, Zenon
  <2>2. CASE g # f
    BY <2>2, Zenon DEF Phase, IInv, Moved
  <2> QED
    BY <2>1, <2>2, Zenon
<1> QED
  BY <1>1, <1>3, <1>4, Zenon DEF IInv

\* Steps of a goroutine that leave the clients alone
LEMMA PlainSteps ==
  ASSUME IInv, NEW f \in Flows,
         \/ start(f) \/ Handle(f) \/ runState(f) \/ registerFlow(f) \/ runDNSFallback(f)
         \/ setField(f, "acquired", "open", "clientKey") \/ setField(f, "registered", "pump", "flowRef")
         \/ runStateEnd(f) \/ runStateReturn(f)
  PROVE  IInv'
<1>1. UNCHANGED clients /\ mine' = mine /\ held' = held
  BY Zenon DEF start, Handle, runState, registerFlow, runDNSFallback, setField, runStateEnd, runStateReturn
<1>2. PoolType' /\ Counted' /\ Lowered
  BY <1>1, IdleStep, Zenon DEF IInv
<1>3. AtType /\ Phase
  BY Zenon DEF IInv
<1>4. Failed(f) \in {"done", "dns", "close"}
  BY Zenon DEF Failed
<1>5. ASSUME Moved(f), UNCHANGED <<field, flowTable>>,
             \/ at[f] \in {"start", "check", "dns"} /\ at'[f] \in {"check", "look", "dns", "close", "done"}
             \/ at[f] \in {"close", "closing"} /\ at'[f] \in {"closing", "done"}
      PROVE  IInv'
  <2>1. at'[f] \in Looking => f \notin held'
    BY <1>1, <1>3, <1>5, Zenon DEF Phase, Looking
  <2>2. at'[f] \notin Closing => "flowRef" \notin field'[f]
    BY <1>3, <1>5, Zenon DEF Phase, Closing
  <2>3. at'[f] \notin Relaying /\ at'[f] # "second" /\ at[f] # "second"
    BY <1>5, Zenon DEF Relaying
  <2> QED
    BY <2>1, <2>2, <2>3, <1>1, <1>2, <1>3, <1>5, MoveStep DEF AtType
<1>6. CASE start(f)
  <2>1. Moved(f) /\ at[f] = "start" /\ at'[f] = "look" /\ UNCHANGED <<field, flowTable>>
    BY <1>3, <1>6, Zenon DEF start, Goto, Moved, AtType, Places, Looking, Relaying, Closing
  <2> QED
    BY <2>1, <1>5, Zenon
<1>7. CASE Handle(f)
  <2>1. Moved(f) /\ at[f] = "start" /\ at'[f] \in {"done", "check"} /\ UNCHANGED <<field, flowTable>>
    BY <1>3, <1>7, Zenon DEF Handle, Goto, Moved, AtType, Places, Looking, Relaying, Closing
  <2> QED
    BY <2>1, <1>5, Zenon
<1>8. CASE runState(f)
  <2>1. Moved(f) /\ at[f] = "check" /\ at'[f] \in {Failed(f), "look", "close"} /\ UNCHANGED <<field, flowTable>>
    BY <1>3, <1>4, <1>8 DEF runState, Goto, Moved, AtType, Places, Looking, Relaying, Closing
  <2> QED
    BY <2>1, <1>4, <1>5, Zenon
<1>9. CASE runDNSFallback(f)
  <2>1. Moved(f) /\ at[f] = "dns" /\ at'[f] \in {"look", "close"} /\ UNCHANGED <<field, flowTable>>
    BY <1>3, <1>9, Zenon DEF runDNSFallback, Goto, Moved, AtType, Places, Looking, Relaying, Closing
  <2> QED
    BY <2>1, <1>5, Zenon
<1>10. CASE runStateEnd(f)
  <2>1. Moved(f) /\ at[f] = "close" /\ at'[f] = "closing" /\ UNCHANGED <<field, flowTable>>
    BY <1>3, <1>10, Zenon DEF runStateEnd, Goto, Moved, AtType, Places, Looking, Relaying, Closing
  <2> QED
    BY <2>1, <1>5, Zenon
<1>11. CASE runStateReturn(f)
  <2>1. Moved(f) /\ at[f] = "closing" /\ at'[f] = "done" /\ UNCHANGED <<field, flowTable>>
    BY <1>3, <1>11, Zenon DEF runStateReturn, Goto, Moved, AtType, Places, Looking, Relaying, Closing
  <2> QED
    BY <2>1, <1>5, Zenon
<1>12. CASE registerFlow(f)
  <2>1. /\ Moved(f) /\ at[f] = "register" /\ at'[f] \in {"registered", "relay"}
        /\ flowTable' = flowTable \cup {f} /\ field' = field
    BY <1>3, <1>12, Zenon DEF registerFlow, Goto, Moved, AtType, Places, Looking, Relaying, Closing
  <2>2. "flowRef" \notin field'[f] /\ at'[f] \notin Looking /\ at'[f] # "second" /\ at[f] # "second"
    BY <2>1, <1>3, Zenon DEF Phase, Closing, Looking
  <2> QED
    BY <2>1, <2>2, <1>1, <1>2, <1>3, MoveStep DEF AtType
<1>13. CASE setField(f, "acquired", "open", "clientKey")
  <2>1. /\ Moved(f) /\ at[f] = "acquired" /\ at'[f] = "open"
        /\ field' = [field EXCEPT ![f] = field[f] \cup {"clientKey"}] /\ flowTable' = flowTable
    BY <1>3, <1>13, Zenon DEF setField, Goto, Moved, AtType, Places, Looking, Relaying, Closing
  <2>2. "flowRef" \notin field'[f] /\ field' \in [Flows -> SUBSET Fields]
    BY <2>1, <1>3, Zenon DEF Phase, Closing, AtType, Fields
  <2>3. at'[f] \notin Looking /\ at'[f] \notin Relaying /\ at'[f] # "second" /\ at[f] # "second"
    BY <2>1, Zenon DEF Looking, Relaying
  <2> QED
    BY <2>1, <2>2, <2>3, <1>1, <1>2, <1>3, MoveStep DEF AtType
<1>14. CASE setField(f, "registered", "pump", "flowRef")
  <2>1. /\ Moved(f) /\ at[f] = "registered" /\ at'[f] = "pump"
        /\ field' = [field EXCEPT ![f] = field[f] \cup {"flowRef"}] /\ flowTable' = flowTable
    BY <1>3, <1>14, Zenon DEF setField, Goto, Moved, AtType, Places, Looking, Relaying, Closing
  <2>2. field' \in [Flows -> SUBSET Fields]
    BY <2>1, <1>3, Zenon DEF AtType, Fields
  <2>3. at'[f] \notin Looking /\ at'[f] \notin Relaying /\ at'[f] \in Closing /\ at'[f] # "second" /\ at[f] # "second"
    BY <2>1, Zenon DEF Looking, Relaying, Closing
  <2> QED
    BY <2>1, <2>2, <2>3, <1>1, <1>2, <1>3, MoveStep DEF AtType
<1> QED
  BY <1>6, <1>7, <1>8, <1>9, <1>10, <1>11, <1>12, <1>13, <1>14

\* Steps of a goroutine that may mark the client
LEMMA MarkSteps ==
  ASSUME IInv, NEW f \in Flows, openFlow(f) \/ proxyBidirectional(f) \/ dnsQueryOverTCP(f) \/ pump(f)
  PROVE  IInv'
<1>1. AtType /\ Phase
  BY Zenon DEF IInv
<1>2. mine' = mine /\ held' = held /\ flowTable' = flowTable
  BY Zenon DEF openFlow, proxyBidirectional, dnsQueryOverTCP, pump
<1>3. markClientBad \/ UNCHANGED clients
  BY Zenon DEF openFlow, proxyBidirectional, dnsQueryOverTCP, pump
<1>4. PoolType' /\ Counted' /\ Lowered
  BY <1>2, <1>3, MarkStep, IdleStep, Zenon DEF IInv
<1>5. CASE openFlow(f)
  <2>1. Moved(f) /\ at[f] = "open" /\ at'[f] \in {"register", "failed", "stuck"}
    BY <1>1, <1>5, Zenon DEF openFlow, After, Goto, Moved, AtType, Places, Looking, Relaying, Closing
  <2>2. field' = field \/ field' = [field EXCEPT ![f] = field[f] \cup {"udpFlow"}]
    BY <1>5, Zenon DEF openFlow
  <2>3. "flowRef" \notin field[f]
    BY <2>1, <1>1, Zenon DEF Phase, Closing
  <2>4. /\ field' \in [Flows -> SUBSET Fields] /\ "flowRef" \notin field'[f]
        /\ \A g \in Flows : g # f => field'[g] = field[g]
    BY <2>2, <2>3, <1>1 DEF AtType, Fields
  <2>5. at'[f] \notin Looking /\ at'[f] \notin Relaying /\ at'[f] # "second" /\ at[f] # "second"
    BY <2>1, Zenon DEF Looking, Relaying
  <2> QED
    BY <2>1, <2>4, <2>5, <1>1, <1>2, <1>4, MoveStep DEF AtType
<1>6. CASE proxyBidirectional(f) \/ dnsQueryOverTCP(f)
  <2>1. Moved(f) /\ at[f] \in {"relay", "copied"} /\ at'[f] \in {"copied", "errored", "ended", "stuck"} /\ field' = field
    BY <1>1, <1>6, Zenon DEF proxyBidirectional, dnsQueryOverTCP, After, Goto, Moved, AtType, Places, Looking, Relaying, Closing
  <2>2. f \in flowTable /\ "flowRef" \notin field[f]
    BY <2>1, <1>1, Zenon DEF Phase, Relaying, Closing
  <2>3. at'[f] \notin Looking /\ at'[f] # "second" /\ at[f] # "second"
    BY <2>1, Zenon DEF Looking
  <2> QED
    BY <2>1, <2>2, <2>3, <1>1, <1>2, <1>4, MoveStep, Zenon DEF AtType
<1>7. CASE pump(f)
  <2>1. Moved(f) /\ at[f] = "pump" /\ at'[f] \in {"pump", "close", "stuck"} /\ field' = field
    BY <1>1, <1>7, Zenon DEF pump, After, Goto, Moved, AtType, Places, Looking, Relaying, Closing
  <2>2. at'[f] \notin Looking /\ at'[f] \notin Relaying /\ at'[f] \in Closing /\ at'[f] # "second" /\ at[f] # "second"
    BY <2>1, Zenon DEF Looking, Relaying, Closing
  <2> QED
    BY <2>1, <2>2, <1>1, <1>2, <1>4, MoveStep, Zenon DEF AtType
<1> QED
  BY <1>5, <1>6, <1>7, Zenon

\* The key is kept when the Close of the client hangs.
LEMMA KeptField ==
  ASSUME field \in [Flows -> SUBSET Fields], NEW f \in Flows, NEW b,
         field' = [field EXCEPT ![f] = IF b THEN field[f] \ {"clientKey"} ELSE field[f]]
  PROVE  field' = field \/ field' = [field EXCEPT ![f] = field[f] \ {"clientKey"}]
<1>1. CASE b
  BY <1>1, Zenon
<1>2. CASE ~b
  BY <1>2
<1> QED
  BY <1>1, <1>2, Zenon

\* Steps that release a client: a failed open, the end of a relayed flow, and
\* closeState.
LEMMA ReleaseSteps ==
  ASSUME IInv, NEW f \in Flows, openFailed(f) \/ relayEnded(f) \/ closeRelease(f)
  PROVE  IInv'
<1>1. AtType /\ Phase
  BY Zenon DEF IInv
<1>2. mine' = mine
  BY Zenon DEF openFailed, relayEnded, closeRelease
<1>3. releaseClient(f) \/ (UNCHANGED clients /\ held' = held)
  BY Zenon DEF openFailed, relayEnded, closeRelease, unregisterFlow
<1>4. PoolType' /\ Counted' /\ Lowered /\ held' \subseteq held
  BY <1>2, <1>3, ReleaseStep, IdleStep, Zenon DEF IInv
<1>5. releaseClient(f) => f \notin held'
  BY Zenon DEF releaseClient
<1>6. CASE openFailed(f)
  <2>1. Failed(f) \in {"done", "dns", "close"}
    BY Zenon DEF Failed
  <2>2. Moved(f) /\ at[f] = "failed" /\ at'[f] \in {"done", "dns", "close", "stuck"}
    BY <2>1, <1>1, <1>6, Zenon DEF openFailed, After, Goto, Moved, AtType, Places, Looking, Relaying, Closing
  <2>3. /\ f \notin held' /\ flowTable' = flowTable
        /\ field' = field \/ field' = [field EXCEPT ![f] = field[f] \ {"clientKey"}]
    <3>1. field' = [field EXCEPT ![f] = IF hung' = hung THEN field[f] \ {"clientKey"} ELSE field[f]]
      BY <1>6, Zenon DEF openFailed
    <3>2. field' = field \/ field' = [field EXCEPT ![f] = field[f] \ {"clientKey"}]
      BY <1>1, <3>1, KeptField, Zenon DEF AtType
    <3> QED
      BY <1>5, <1>6, <3>2, Zenon DEF openFailed
  <2>4. "flowRef" \notin field[f]
    BY <2>2, <1>1, Zenon DEF Phase, Closing
  <2>5. /\ field' \in [Flows -> SUBSET Fields] /\ "flowRef" \notin field'[f]
        /\ \A g \in Flows : g # f => field'[g] = field[g]
    BY <2>3, <2>4, <1>1, Zenon DEF AtType
  <2>6. at'[f] \notin Relaying /\ at'[f] # "second" /\ at[f] # "second"
    BY <2>2, Zenon DEF Relaying
  <2> QED
    BY <2>2, <2>3, <2>5, <2>6, <1>1, <1>4, MoveStep DEF AtType
<1>7. CASE relayEnded(f)
  <2>1. Moved(f) /\ at[f] \in {"ended", "errored"} /\ at'[f] \in {"dns", "done", "close", "stuck"} /\ field' = field
    BY <1>1, <1>7, Zenon DEF relayEnded, After, Goto, Moved, AtType, Places, Looking, Relaying, Closing
  <2>2. f \in flowTable /\ "flowRef" \notin field[f]
    BY <2>1, <1>1, Zenon DEF Phase, Relaying, Closing
  <2>3. f \notin held' /\ flowTable' = flowTable \ {f}
    BY <2>2, <1>5, <1>7, Zenon DEF relayEnded, unregisterFlow
  <2>4. at'[f] \notin Relaying /\ at'[f] # "second" /\ at[f] # "second"
    BY <2>1, Zenon DEF Relaying
  <2> QED
    BY <2>1, <2>2, <2>3, <2>4, <1>1, <1>4, MoveStep DEF AtType
<1>8. CASE closeRelease(f)
  <2>1. at' = at /\ (field' = field \/ field' = [field EXCEPT ![f] = field[f] \ {"clientKey"}])
    <3>1. field' = [field EXCEPT ![f] = IF hung' = hung THEN field[f] \ {"clientKey"} ELSE field[f]]
      BY <1>8, Zenon DEF closeRelease, released
    <3>2. field' = field \/ field' = [field EXCEPT ![f] = field[f] \ {"clientKey"}]
      BY <1>1, <3>1, KeptField, Zenon DEF AtType
    <3> QED
      BY <1>8, <3>2, Zenon DEF closeRelease
  <2>2. flowTable' = flowTable \/ ("flowRef" \in field[f] /\ flowTable' = flowTable \ {f})
    BY <1>8, Zenon DEF closeRelease, unregisterFlow
  <2>3. AtType'
    BY <2>1, <2>2, <1>1, Zenon DEF AtType
  <2>4. Fresh' /\ LeftOpenIsReplaced'
    BY <2>1, <1>4, FreshStep, Zenon DEF IInv
  <2>5. Phase'
    <3> SUFFICES ASSUME NEW g \in Flows
                 PROVE  /\ at[g] \in Looking => g \notin held'
                        /\ at[g] \notin Closing => "flowRef" \notin field'[g]
                        /\ at[g] \in Relaying => g \in flowTable'
      BY <2>1, Zenon DEF Phase
    <3>1. at[g] \in Relaying => at[g] \notin Closing
      BY Zenon DEF Relaying, Closing
    <3>2. field'[g] \subseteq field[g]
      BY <2>1, <1>1, Zenon DEF AtType
    <3> QED
      BY <3>1, <3>2, <2>2, <1>1, <1>4, Zenon DEF Phase
  <2> QED
    BY <2>3, <2>4, <2>5, <1>4, Zenon DEF IInv
<1> QED
  BY <1>6, <1>7, <1>8, Zenon

\* The phases after a step of f that looks for a client
LEMMA AcquirePhase ==
  ASSUME AtType, Phase, NEW f \in Flows, Moved(f), at[f] \in Looking, UNCHANGED <<field, flowTable>>,
         held' \subseteq held \cup {f}, at'[f] \in Looking => f \notin held', at'[f] \notin Relaying
  PROVE  AtType' /\ Phase'
<1>1. AtType'
  BY Zenon DEF AtType, Moved
<1>2. "flowRef" \notin field'[f]
  BY Zenon DEF Phase, Looking, Closing
<1>3. ASSUME NEW g \in Flows
      PROVE  /\ at'[g] \in Looking => g \notin held'
             /\ at'[g] \notin Closing => "flowRef" \notin field'[g]
             /\ at'[g] \in Relaying => g \in flowTable'
  <2>1. CASE g = f
    BY <2>1, <1>2, Zenon
  <2>2. CASE g # f
    BY <2>2, Zenon DEF Phase, Moved
  <2> QED
    BY <2>1, <2>2, Zenon
<1> QED
  BY <1>1, <1>3, Zenon DEF Phase

\* The first look: a client that can be used is counted for the flow.
LEMMA LookStep ==
  ASSUME IInv, NEW f \in Flows, acquireLook(f)
  PROVE  IInv'
<1>1. PoolType /\ AtType /\ Counted /\ Fresh /\ LeftOpenIsReplaced /\ Phase
  BY Zenon DEF IInv
<1>2. at[f] = "look" /\ at'[f] \in {"acquired", "open", "dial"} /\ Moved(f)
  BY <1>1, Zenon DEF acquireLook, Got, Goto, Moved, AtType, Places, Looking, Relaying, Closing
<1>3. UNCHANGED <<dials, live, hung, mixed, orphans, field, flowTable>> /\ Unclosed' = Unclosed
  BY Zenon DEF acquireLook, Unclosed
<1>4. f \notin held
  BY <1>1, <1>2, Zenon DEF Phase, Looking
<1>5. CASE Usable /\ join(f) /\ Goto(f, "look", Got(f))
  <2>1. at'[f] \in {"acquired", "open"}
    BY <1>1, <1>5, Zenon DEF Goto, Got, AtType
  <2>2. /\ pool'.client = pool.client /\ pool.client # 0
        /\ mine' = [mine EXCEPT ![f] = pool.client] /\ held' = held \cup {f}
    BY <1>1, <1>5, Zenon DEF join, Usable, PoolType
  <2>3. PoolType' /\ Counted'
    BY <1>1, <1>3, <1>4, <1>5, <2>2, JoinStep, Zenon DEF Counted, PoolType
  <2>4. AtType' /\ Phase'
    BY <1>1, <1>2, <1>3, <2>1, <2>2, AcquirePhase DEF Looking, Relaying
  <2>5. Fresh'
    <3>1. \A g \in Flows : at'[g] = "second" => g # f /\ at[g] = "second" /\ mine'[g] = mine[g]
      BY <1>1, <1>2, <2>1, <2>2, Zenon DEF Moved, PoolType
    <3>2. \A g \in Flows : mine'[g] \in {mine[g], pool.client}
      BY <1>1, <2>2, Zenon DEF PoolType
    <3> QED
      BY <3>1, <3>2, <1>1, <1>3, <2>2 DEF Fresh
  <2>6. LeftOpenIsReplaced'
    <3>1. \A g \in Flows : at[g] = "second" => at'[g] = "second" /\ mine'[g] = mine[g]
      BY <1>1, <1>2, <2>2, Zenon DEF Moved, PoolType
    <3> QED
      BY <3>1, <1>1, <1>3, <2>2 DEF LeftOpenIsReplaced, Unclosed
  <2> QED
    BY <2>3, <2>4, <2>5, <2>6, Zenon DEF IInv
<1>6. CASE ~Usable /\ Goto(f, "look", "dial") /\ UNCHANGED <<pool, mine, held>>
  <2>1. at'[f] = "dial"
    BY <1>1, <1>6, Zenon DEF Goto, AtType
  <2>2. PoolType' /\ Counted' /\ Lowered
    BY <1>1, <1>3, <1>6, IdleStep, Zenon DEF clients
  <2>3. AtType' /\ Phase'
    BY <1>1, <1>2, <1>3, <1>4, <1>6, <2>1, AcquirePhase, Zenon DEF Looking, Relaying
  <2>4. Fresh' /\ LeftOpenIsReplaced'
    BY <1>1, <1>2, <2>1, <2>2, FreshStep, Zenon DEF Moved
  <2> QED
    BY <2>2, <2>3, <2>4, Zenon DEF IInv
<1> QED
  BY <1>5, <1>6, Zenon DEF acquireLook

\* A dial: the new client is open and nobody else's, or there is none.
LEMMA DialStep ==
  ASSUME IInv, NEW f \in Flows, acquireDial(f)
  PROVE  IInv'
<1>1. PoolType /\ AtType /\ Counted /\ Fresh /\ LeftOpenIsReplaced /\ Phase
  BY Zenon DEF IInv
<1>2. UNCHANGED <<pool, hung, mixed, orphans, held, field, flowTable>>
  BY Zenon DEF acquireDial
<1>3. CASE /\ dials > 0 /\ Goto(f, "dial", "second") /\ dials' = dials - 1
           /\ live' = live \cup {dials} /\ mine' = [mine EXCEPT ![f] = dials]
  <2>1. at[f] = "dial" /\ at'[f] = "second" /\ Moved(f)
    BY <1>1, <1>3, Zenon DEF Goto, Moved, AtType, Places, Looking, Relaying, Closing
  <2>2. f \notin held
    BY <1>1, <2>1, Zenon DEF Phase, Looking
  <2>3. AtType' /\ Phase'
    BY <1>1, <1>2, <2>1, <2>2, AcquirePhase, Zenon DEF Looking, Relaying
  <2>4. mine'[f] = dials /\ \A g \in Flows : g # f => mine'[g] = mine[g]
    BY <1>1, <1>3, Zenon DEF PoolType
  <2>5. PoolType'
    BY <1>1, <1>2, <1>3 DEF PoolType
  <2>6. \A g \in held : mine'[g] = mine[g]
    BY <1>1, <2>2, <2>4, Zenon DEF PoolType
  <2>u. Unclosed \subseteq Unclosed' /\ Unclosed' \subseteq Unclosed \cup {dials}
    BY <1>2, <1>3, Zenon DEF Unclosed
  <2>7. Counted'
    BY <1>1, <1>2, <1>3, <2>6, <2>u, Zenon DEF Counted
  <2>8. dials \in Nat /\ dials' \in Nat /\ dials' < dials /\ pool.client \in Nat /\ \A g \in Flows : mine[g] \in Nat
    BY <1>1, <1>3 DEF PoolType
  <2>9. pool'.client # 0 => pool'.client > dials'
    BY <1>1, <1>2, <2>8 DEF Fresh
  <2>10. \A g \in Flows : mine'[g] # 0 => mine'[g] > dials'
    BY <1>1, <2>4, <2>8 DEF Fresh
  <2>l. \A c \in live' : c > dials'
    BY <1>1, <1>3, <2>8 DEF Fresh, PoolType
  <2>d. dials \in Unclosed'
    <3>1. dials \notin hung
      BY <1>1, <2>8 DEF Fresh, PoolType
    <3> QED
      BY <3>1, <1>2, <1>3, Zenon DEF Unclosed
  <2>11. ASSUME NEW g \in Flows, at'[g] = "second"
         PROVE  /\ mine'[g] # 0 /\ mine'[g] # pool'.client /\ mine'[g] \in Unclosed'
                /\ \A h \in Flows : at'[h] = "second" /\ mine'[h] = mine'[g] => h = g
    <3>1. \A h \in Flows : h # f => mine'[h] # dials
      BY <1>1, <2>4, <2>8, <1>3 DEF Fresh
    <3>2. CASE g = f
      BY <3>1, <3>2, <1>1, <1>2, <1>3, <2>4, <2>8, <2>d DEF Fresh
    <3>3. CASE g # f
      <4>1. at[g] = "second" /\ mine'[g] = mine[g]
        BY <3>3, <2>1, <2>4, <2>11, Zenon DEF Moved
      <4>2. mine[g] # 0 /\ mine[g] # pool.client /\ mine[g] \in Unclosed
        BY <4>1, <1>1, Zenon DEF Fresh
      <4>3. ASSUME NEW h \in Flows, at'[h] = "second", mine'[h] = mine'[g]
            PROVE  h = g
        <5>1. h # f
          BY <3>1, <3>3, <2>4, <4>3, Zenon
        <5>2. at[h] = "second" /\ mine[h] = mine[g]
          BY <5>1, <4>1, <4>3, <2>1, <2>4 DEF Moved
        <5> QED
          BY <5>2, <4>1, <1>1, Zenon DEF Fresh
      <4> QED
        BY <4>1, <4>2, <4>3, <1>2, <1>3, <2>u
    <3> QED
      BY <3>2, <3>3, Zenon
  <2>12. Fresh'
    BY <2>9, <2>10, <2>11, <2>l, Zenon DEF Fresh
  <2>13. LeftOpenIsReplaced'
    <3>1. \A g \in Flows : at[g] = "second" => at'[g] = "second" /\ mine'[g] = mine[g]
      BY <2>1, <2>4, Zenon DEF Moved
    <3> QED
      BY <3>1, <1>1, <1>2, <1>3, <2>1, <2>4, <2>u DEF LeftOpenIsReplaced, Unclosed
  <2> QED
    BY <2>3, <2>5, <2>7, <2>12, <2>13, Zenon DEF IInv
<1>4. CASE Goto(f, "dial", Failed(f)) /\ UNCHANGED <<dials, live, mine>>
  <2>1. Failed(f) \in {"done", "dns", "close"}
    BY Zenon DEF Failed
  <2>2. at[f] = "dial" /\ at'[f] \in {"done", "dns", "close"} /\ Moved(f)
    BY <1>1, <1>4, <2>1, Zenon DEF Goto, Moved, AtType, Places, Looking, Relaying, Closing
  <2>3. f \notin held
    BY <1>1, <2>2, Zenon DEF Phase, Looking
  <2>4. PoolType' /\ Counted' /\ Lowered
    BY <1>1, <1>2, <1>4, IdleStep, Zenon DEF clients
  <2>5. AtType' /\ Phase'
    BY <1>1, <1>2, <2>2, <2>3, AcquirePhase, Zenon DEF Looking, Relaying
  <2>6. Fresh' /\ LeftOpenIsReplaced'
    BY <1>1, <2>2, <2>4, FreshStep, Zenon DEF Moved
  <2> QED
    BY <2>4, <2>5, <2>6, Zenon DEF IInv
<1> QED
  BY <1>3, <1>4, Zenon DEF acquireDial

\* The second look: the flow shares the client in the table and closes its own,
\* or puts its own there.
LEMMA SecondStep ==
  ASSUME IInv, NEW f \in Flows, acquireSecond(f)
  PROVE  IInv'
<1>1. PoolType /\ AtType /\ Counted /\ Fresh /\ LeftOpenIsReplaced /\ Phase
  BY Zenon DEF IInv
<1>2. at[f] = "second" /\ at'[f] \in {"acquired", "open"} /\ Moved(f)
  BY <1>1, Zenon DEF acquireSecond, Got, Goto, Moved, AtType, Places, Looking, Relaying, Closing
<1>3. UNCHANGED <<dials, hung, field, flowTable>>
  BY Zenon DEF acquireSecond
<1>4. f \notin held
  BY <1>1, <1>2, Zenon DEF Phase, Looking
<1>5. /\ mine[f] # 0 /\ mine[f] # pool.client /\ mine[f] \in Unclosed
      /\ \A g \in Flows : at[g] = "second" /\ mine[g] = mine[f] => g = f
  BY <1>1, <1>2, Zenon DEF Fresh
<1>6. held' = held \cup {f}
  BY Zenon DEF acquireSecond, join
<1>7. AtType' /\ Phase'
  BY <1>1, <1>2, <1>3, <1>6, AcquirePhase, Zenon DEF Looking, Relaying
<1>8. \A g \in Flows : g # f => (at'[g] = "second" <=> at[g] = "second")
  BY <1>2, Zenon DEF Moved
<1>9. CASE Usable /\ join(f) /\ live' = live \ {mine[f]} /\ UNCHANGED <<mixed, orphans>>
  <2>1. pool'.client = pool.client /\ pool.client # 0 /\ mine' = [mine EXCEPT ![f] = pool.client]
    BY <1>1, <1>9, Zenon DEF join, Usable, PoolType
  <2>u. Unclosed' = Unclosed \ {mine[f]} /\ hung \subseteq live' /\ live' \subseteq live
    BY <1>1, <1>3, <1>5, <1>9 DEF Unclosed, PoolType
  <2>2. PoolType' /\ Counted'
    BY <1>1, <1>3, <1>4, <1>5, <1>9, <2>1, <2>u, JoinStep DEF Counted
  <2>3. mine'[f] = pool.client /\ \A g \in Flows : g # f => mine'[g] = mine[g]
    BY <1>1, <2>1, Zenon DEF PoolType
  <2>4. Fresh'
    <3>1. \A g \in Flows : at'[g] = "second" => g # f /\ at[g] = "second" /\ mine'[g] = mine[g] /\ mine[g] # mine[f]
      BY <1>2, <1>5, <1>8, <2>3, Zenon
    <3> QED
      BY <3>1, <1>1, <1>3, <2>1, <2>3, <2>u DEF Fresh
  <2>5. LeftOpenIsReplaced'
    <3>1. \A g \in Flows : at[g] = "second" /\ g # f => at'[g] = "second" /\ mine'[g] = mine[g]
      BY <1>8, <2>3, Zenon
    <3> QED
      BY <3>1, <1>1, <1>9, <2>1, <2>u DEF LeftOpenIsReplaced, Unclosed
  <2> QED
    BY <1>7, <2>2, <2>4, <2>5, Zenon DEF IInv
<1>10. CASE /\ ~Usable /\ pool' = [client |-> mine[f], refs |-> 1, broken |-> FALSE]
            /\ mine' = mine /\ mixed' = (mixed \/ held # {})
            /\ orphans' = orphans \cup ({pool.client} \cap live) /\ live' = live
  <2>1. PoolType' /\ Counted'
    BY <1>1, <1>3, <1>4, <1>5, <1>6, <1>10, InstallStep, Zenon
  <2>2. pool'.client = mine[f] /\ Unclosed' = Unclosed
    BY <1>3, <1>10, Zenon DEF Unclosed
  <2>3. Fresh'
    <3>1. \A g \in Flows : at'[g] = "second" => g # f /\ at[g] = "second" /\ mine[g] # mine[f]
      BY <1>2, <1>5, <1>8, Zenon
    <3> QED
      BY <3>1, <1>1, <1>3, <1>10, <2>2, Zenon DEF Fresh
  <2>4. LeftOpenIsReplaced'
    BY <1>1, <1>3, <1>8, <1>10, <2>2, Zenon DEF LeftOpenIsReplaced
  <2> QED
    BY <1>7, <2>1, <2>3, <2>4, Zenon DEF IInv
<1> QED
  BY <1>9, <1>10, Zenon DEF acquireSecond

\* policyController.Close closes the client in the table, used or not.
LEMMA ControllerStep ==
  ASSUME IInv, closeController
  PROVE  IInv'
<1>1. PoolType /\ AtType /\ Counted /\ Fresh /\ LeftOpenIsReplaced /\ Phase
  BY Zenon DEF IInv
<1>2. /\ pool' = [client |-> 0, refs |-> 0, broken |-> FALSE]
      /\ IF pool.client = 0 THEN UNCHANGED <<live, hung>> ELSE closeClient(pool.client)
      /\ mixed' = (mixed \/ held # {})
      /\ UNCHANGED <<dials, orphans, flowTable, at, mine, held, field>>
  BY Zenon DEF closeController, None
<1>0. live' \subseteq live /\ hung' \subseteq live' /\ Unclosed' = Unclosed \ ({pool.client} \ {0})
  <2>1. CASE pool.client = 0
    BY <1>1, <1>2, <2>1, Zenon DEF PoolType, Unclosed
  <2>2. CASE pool.client # 0
    <3>1. live' \subseteq live /\ hung' \subseteq live' /\ Unclosed' = Unclosed \ {pool.client}
      BY <1>1, <1>2, <2>2, CloseStep, Zenon
    <3> QED
      BY <2>2, <3>1, Zenon
  <2> QED
    BY <2>1, <2>2, Zenon
<1>3. PoolType'
  BY <1>0, <1>1, <1>2, Zenon DEF PoolType, None
<1>4. ~mixed' => held' = {}
  BY <1>2, Zenon
<1>5. Cardinality(held') \in Nat /\ (Cardinality(held') = 0 <=> held' = {})
  BY <1>1, <1>2, HeldFinite, Zenon
<1>6. Counted'
  BY <1>2, <1>4, <1>5 DEF Counted
<1>7. Lowered
  BY <1>0, <1>2, Zenon DEF Lowered
<1>8. Fresh' /\ LeftOpenIsReplaced'
  BY <1>1, <1>2, <1>7, FreshStep, Zenon
<1>9. AtType' /\ Phase'
  BY <1>1, <1>2, Zenon DEF AtType, Phase
<1> QED
  BY <1>3, <1>6, <1>8, <1>9, Zenon DEF IInv

-----------------------------------------------------------------------------
\* The inductive invariant: the count of the entry, the freshness of dialed
\* clients and the phases of the goroutines hold in every state.
THEOREM TunIInv == NSpec => []IInv
<1>1. NInit => IInv
  <2> SUFFICES ASSUME NInit PROVE IInv
    OBVIOUS
  <2>1. PICK c \in Casts : dials = c.dials /\ at = [f \in Flows |-> IF f \in c.flows THEN "start" ELSE "out"]
    BY Zenon DEF NInit
  <2>2. /\ pool = [client |-> 0, refs |-> 0, broken |-> FALSE] /\ live = {} /\ hung = {} /\ mixed = FALSE /\ held = {}
        /\ mine = [f \in Flows |-> 0] /\ field = [f \in Flows |-> {}] /\ flowTable = {}
    BY Zenon DEF NInit, None
  <2>3. PoolType
    BY <2>1, <2>2, TunAssumption, Zenon DEF PoolType, None
  <2>4. \A f \in Flows : at[f] \in {"start", "out"}
    BY <2>1, Zenon
  <2>5. AtType
    BY <2>1, <2>2, Zenon DEF AtType, Places, Looking, Relaying, Closing
  <2>6. Counted
    BY <2>2, <2>3, HeldFinite DEF Counted
  <2>7. Fresh /\ LeftOpenIsReplaced
    BY <2>2, <2>4, Zenon DEF Fresh, LeftOpenIsReplaced
  <2>8. Phase
    BY <2>2, <2>4, Zenon DEF Phase, Relaying
  <2> QED
    BY <2>3, <2>5, <2>6, <2>7, <2>8, Zenon DEF IInv
<1>2. IInv /\ [NNext]_nvars => IInv'
  <2> SUFFICES ASSUME IInv, [NNext]_nvars PROVE IInv'
    OBVIOUS
  <2>1. ASSUME UNCHANGED <<pool, dials, live, hung, mixed, orphans, flowTable, at, mine, held, field>>
        PROVE  IInv'
    BY <2>1 DEF IInv, PoolType, AtType, Counted, Fresh, LeftOpenIsReplaced, Phase, Unclosed
  <2>2. CASE time \/ interrupt
    BY <2>1, <2>2, Zenon DEF time, interrupt, clients
  <2>3. CASE janitorLoop
    BY <2>1, <2>3, Zenon DEF janitorLoop, expireIdle, closeStale, janitorStop, clients
  <2>4. CASE closeSnapshot \/ closeAll
    BY <2>1, <2>4, Zenon DEF closeSnapshot, closeAll, clients
  <2>5. CASE closeController
    BY <2>5, ControllerStep, Zenon
  <2>6. ASSUME NEW f \in Flows, Goroutine(f)
        PROVE  IInv'
    BY <2>6, PlainSteps, MarkSteps, ReleaseSteps, LookStep, DialStep, SecondStep, Zenon DEF Goroutine
  <2>7. ASSUME NEW f \in Flows, closeState(f)
        PROVE  IInv'
    <3>1. CASE closeRelease(f)
      BY <3>1, ReleaseSteps, Zenon
    <3>2. CASE closeDelete(f)
      BY <2>1, <3>2, Zenon DEF closeDelete, clients
    <3> QED
      BY <2>7, <3>1, <3>2, Zenon DEF closeState
  <2>8. CASE UNCHANGED nvars
    BY <2>1, <2>8, Zenon DEF nvars, clients
  <2> QED
    BY <2>2, <2>3, <2>4, <2>5, <2>6, <2>7, <2>8, Zenon DEF NNext, shutdown
<1> QED
  BY <1>1, <1>2, PTL DEF NSpec

\* refCount never exceeds the flows that hold a client, and a broken client in
\* the table is counted, so that a last user will close it.
THEOREM TunRefsCovered == NSpec => []RefsCovered
<1>1. IInv => RefsCovered
  BY Zenon DEF IInv, Counted, RefsCovered
<1> QED
  BY <1>1, TunIInv, PTL

\* refCount is the number of flows that use the client, unless references to
\* two clients have been counted in one entry.
THEOREM TunRefsExact == NSpec => []RefsExact
<1>1. IInv => RefsExact
  <2> SUFFICES ASSUME IInv, pool.client # 0, ~mixed
               PROVE  pool.refs = Cardinality({f \in held : mine[f] = pool.client})
    BY Zenon DEF RefsExact
  <2>1. pool.refs = Cardinality(held) /\ \A f \in held : mine[f] = pool.client
    BY Zenon DEF IInv, Counted
  <2>2. {f \in held : mine[f] = pool.client} = held
    BY <2>1, Zenon
  <2> QED
    BY <2>1, <2>2, Zenon
<1> QED
  BY <1>1, TunIInv, PTL

\* A client that a flow holds is not closed under it by releaseClient or
\* markClientBad while references are not mixed up.
THEOREM TunUsedStaysOpen == NSpec => []UsedStaysOpen
<1>1. IInv => UsedStaysOpen
  BY Zenon DEF IInv, Counted, UsedStaysOpen, Unclosed
<1> QED
  BY <1>1, TunIInv, PTL

\* A client that is not closed is in the table, about to be put there, or a
\* broken one that was replaced while it was in use.
THEOREM TunLeftOpenIsReplaced == NSpec => []LeftOpenIsReplaced
<1>1. IInv => LeftOpenIsReplaced
  BY Zenon DEF IInv
<1> QED
  BY <1>1, TunIInv, PTL

-----------------------------------------------------------------------------
(* The states of the UDP manager: a second invariant, on top of IInv.      *)

\* The numbers that clients have
Numbers ==
  /\ pool.client \in {0} \cup Clients /\ dials \in {0} \cup Clients /\ live \subseteq Clients
  /\ mine \in [Flows -> {0} \cup Clients]

Closer(pcs) == [pc : pcs, todo : SUBSET UDP, cur : SUBSET UDP]

StateType ==
  /\ query \subseteq Flows /\ uflow \in [Flows -> {"none", "open", "closed"}]
  /\ states \subseteq UDP /\ shut \in [Flows -> {"no", "begun", "released", "done", "stuck"}] /\ idle \subseteq Flows
  /\ sweep \in Closer({"wait", "close", "done"})
  /\ main \in Closer({"run", "janitor", "close", "controller", "exit", "stuck"})

\* A state is in m.flows from its creation until closeState deletes it, and only
\* then can anybody close it.
Begun(f) ==
  /\ at[f] \in {"out", "start"} => shut[f] = "no" /\ f \notin states \cup sweep.todo \cup main.todo
  /\ at[f] \notin {"out", "start", "done"} /\ shut[f] # "done" => f \in states
  /\ at[f] = "closing" => shut[f] # "no"
  /\ at[f] \in {"acquired", "registered", "pump"} => f \notin query
  /\ uflow[f] # "none" \/ "udpFlow" \in field[f] =>
       at[f] \in {"register", "registered"} \cup Closing /\ f \notin query

\* What a state owns that was not closed while it was set up: closeState still
\* finds the field by which it gives it back.
Returns(f) ==
  /\ shut[f] # "no" => ~(at[f] \in SettingUp /\ f \notin query)
  /\ f \in flowTable => at[f] \in {"registered"} \cup Relaying \cup Closing
  /\ at[f] = "registered" => f \in flowTable
  /\ at[f] \in {"pump", "close", "closing", "done"} /\ f \in flowTable \cup held =>
       at[f] # "done" /\ shut[f] \in {"no", "begun", "stuck"} /\ "flowRef" \in field[f] /\ f \in flowTable
  /\ at[f] \in {"acquired", "open"} /\ f \notin query => f \in held
  /\ uflow[f] = "open" =>
       f \in held /\ at[f] # "done" /\ shut[f] \in {"no", "stuck"} /\ "udpFlow" \in field[f]

Sound(f) == Begun(f) /\ (f \notin early => Returns(f))

SInv == Numbers /\ StateType /\ \A f \in UDP : Sound(f)

-----------------------------------------------------------------------------
\* A step that is none of g's leaves it as it is.
Same(g) ==
  /\ at'[g] = at[g] /\ shut'[g] = shut[g] /\ uflow'[g] = uflow[g] /\ field'[g] = field[g]
  /\ g \in flowTable' <=> g \in flowTable
  /\ g \in held' <=> g \in held
  /\ g \in query' <=> g \in query
  /\ g \in states' <=> g \in states
  /\ g \in early' <=> g \in early
  /\ g \in sweep'.todo \cup main'.todo => g \in states \cup sweep.todo \cup main.todo

LEMMA SameSound ==
  ASSUME NEW g, Same(g), Sound(g)
  PROVE  Sound(g)'
<1>1. Begun(g)'
  BY Zenon DEF Same, Sound, Begun
<1>2. g \notin early' => Returns(g)'
  BY DEF Same, Sound, Returns
<1> QED
  BY <1>1, <1>2, Zenon DEF Sound

\* What the step of a goroutine or of closeState does not touch
LEMMA OthersSame ==
  ASSUME IInv, StateType, NEW f \in Flows, Goroutine(f) \/ closeRelease(f) \/ closeDelete(f)
  PROVE  StateType' /\ \A g \in Flows : g # f => Same(g)
<1>1. /\ at \in [Flows -> Places] /\ field \in [Flows -> SUBSET Fields]
      /\ shut \in [Flows -> {"no", "begun", "released", "done", "stuck"}]
      /\ uflow \in [Flows -> {"none", "open", "closed"}]
  BY Zenon DEF IInv, AtType, StateType
<1> USE DEF Goto, Same, StateType, UDP, manager
<1>2. CASE start(f)
  BY <1>1, <1>2, Zenon DEF start
<1>3. CASE Handle(f)
  BY <1>1, <1>3 DEF Handle
<1>4. CASE runState(f)
  BY <1>1, <1>4 DEF runState
<1>5. CASE acquireLook(f)
  BY <1>1, <1>5, Zenon DEF acquireLook, join
<1>6. CASE acquireDial(f)
  BY <1>1, <1>6, Zenon DEF acquireDial
<1>7. CASE acquireSecond(f)
  BY <1>1, <1>7, Zenon DEF acquireSecond, join
<1>8. CASE setField(f, "acquired", "open", "clientKey")
  BY <1>1, <1>8, Zenon DEF setField
<1>9. CASE openFlow(f)
  BY <1>1, <1>9 DEF openFlow
<1>10. CASE openFailed(f)
  BY <1>1, <1>10, Zenon DEF openFailed, releaseClient
<1>11. CASE registerFlow(f)
  BY <1>1, <1>11, Zenon DEF registerFlow
<1>12. CASE setField(f, "registered", "pump", "flowRef")
  BY <1>1, <1>12, Zenon DEF setField
<1>13. CASE pump(f)
  BY <1>1, <1>13, Zenon DEF pump
<1>14. CASE proxyBidirectional(f)
  BY <1>1, <1>14, Zenon DEF proxyBidirectional
<1>15. CASE dnsQueryOverTCP(f)
  BY <1>1, <1>15, Zenon DEF dnsQueryOverTCP
<1>16. CASE relayEnded(f)
  BY <1>1, <1>16, Zenon DEF relayEnded, unregisterFlow, releaseClient
<1>17. CASE runDNSFallback(f)
  BY <1>1, <1>17, Zenon DEF runDNSFallback
<1>18. CASE runStateEnd(f)
  BY <1>1, <1>18 DEF runStateEnd, callClose, closeBegin
<1>19. CASE runStateReturn(f)
  BY <1>1, <1>19, Zenon DEF runStateReturn
<1>20. CASE closeRelease(f)
  BY <1>1, <1>20 DEF closeRelease, released, After, unregisterFlow, releaseClient
<1>21. CASE closeDelete(f)
  BY <1>1, <1>21, Zenon DEF closeDelete
<1> QED
  BY <1>2, <1>3, <1>4, <1>5, <1>6, <1>7, <1>8, <1>9, <1>10, <1>11, <1>12, <1>13, <1>14, <1>15, <1>16, <1>17, <1>18, <1>19, <1>20, <1>21, Zenon DEF Goroutine

\* The state's own step
LEMMA OwnSound ==
  ASSUME IInv, StateType, NEW f \in UDP, Sound(f), Goroutine(f) \/ closeRelease(f) \/ closeDelete(f)
  PROVE  Sound(f)'
<1>1. /\ f \in Flows /\ Kind(f) # "tcp"
      /\ at \in [Flows -> Places] /\ field \in [Flows -> SUBSET Fields]
      /\ shut \in [Flows -> {"no", "begun", "released", "done", "stuck"}]
      /\ uflow \in [Flows -> {"none", "open", "closed"}]
  BY Zenon DEF IInv, AtType, StateType, UDP
<1>2. /\ at[f] \in Looking => f \notin held
      /\ at[f] \notin Closing => "flowRef" \notin field[f]
      /\ at[f] \in Relaying => f \in flowTable
  BY <1>1, Zenon DEF IInv, Phase
<1> USE DEF Goto, Sound, Begun, Returns, Looking, Relaying, Closing, SettingUp, manager
<1>3. CASE Handle(f)
  BY <1>1, <1>2, <1>3 DEF Handle
<1>4. CASE runState(f)
  BY <1>1, <1>2, <1>4 DEF runState, Failed
<1>5. CASE acquireLook(f)
  BY <1>1, <1>2, <1>5 DEF acquireLook, join, Got, InState
<1>6. CASE acquireDial(f)
  BY <1>1, <1>2, <1>6 DEF acquireDial, Failed
<1>7. CASE acquireSecond(f)
  BY <1>1, <1>2, <1>7, Zenon DEF acquireSecond, join, Got, InState
<1>8. CASE setField(f, "acquired", "open", "clientKey")
  BY <1>1, <1>2, <1>8, Zenon DEF setField
<1>9. CASE openFlow(f)
  BY <1>1, <1>2, <1>9 DEF openFlow, After, InState
<1>10. CASE openFailed(f)
  BY <1>1, <1>2, <1>10 DEF openFailed, After, Failed, releaseClient
<1>11. CASE registerFlow(f)
  BY <1>1, <1>2, <1>11, Zenon DEF registerFlow, InState
<1>12. CASE setField(f, "registered", "pump", "flowRef")
  BY <1>1, <1>2, <1>12, Zenon DEF setField
<1>13. CASE pump(f)
  BY <1>1, <1>2, <1>13 DEF pump, After
<1>14. CASE dnsQueryOverTCP(f)
  BY <1>1, <1>2, <1>14 DEF dnsQueryOverTCP, After
<1>15. CASE relayEnded(f)
  BY <1>1, <1>2, <1>15 DEF relayEnded, After, unregisterFlow, releaseClient
<1>16. CASE runDNSFallback(f)
  BY <1>1, <1>2, <1>16 DEF runDNSFallback
<1>17. CASE runStateEnd(f)
  BY <1>1, <1>2, <1>17 DEF runStateEnd, callClose, closeBegin, InState
<1>18. CASE runStateReturn(f)
  BY <1>1, <1>2, <1>18, Zenon DEF runStateReturn
<1>19. CASE closeRelease(f)
  BY <1>1, <1>2, <1>19 DEF closeRelease, released, After, unregisterFlow, releaseClient
<1>20. CASE closeDelete(f)
  BY <1>1, <1>2, <1>20, Zenon DEF closeDelete
<1> QED
  BY <1>1, <1>3, <1>4, <1>5, <1>6, <1>7, <1>8, <1>9, <1>10, <1>11, <1>12, <1>13, <1>14, <1>15, <1>16, <1>17, <1>18, <1>19, <1>20, Zenon DEF Goroutine, start, proxyBidirectional

\* A state that the janitor or Close finds is closed; if it is being set up, it
\* is one of the early ones from now on.
LEMMA CalledSound ==
  ASSUME IInv, StateType, \A g \in UDP : Sound(g), NEW f \in UDP, callClose(f),
         f \in sweep.todo \cup main.todo,
         UNCHANGED <<clients, flowTable, at, query, mine, held, field, blocked>>,
         sweep'.todo \subseteq sweep.todo, main'.todo \subseteq main.todo
  PROVE  \A g \in UDP : Sound(g)'
<1>1. /\ f \in Flows /\ Kind(f) # "tcp" /\ UDP \subseteq Flows
      /\ shut \in [Flows -> {"no", "begun", "released", "done", "stuck"}]
      /\ uflow \in [Flows -> {"none", "open", "closed"}]
  BY Zenon DEF StateType, UDP
<1>2. \A g \in UDP : g # f => Same(g)
  BY <1>1 DEF callClose, closeBegin, manager, Same
<1>3. Sound(f)'
  BY <1>1 DEF callClose, closeBegin, manager, InState, Sound, Begun, Returns, Closing, SettingUp
<1> QED
  BY <1>2, <1>3, SameSound, Zenon

\* The janitor, Close, main and time
LEMMA OtherSound ==
  ASSUME IInv, StateType, \A g \in UDP : Sound(g),
         \/ time \/ interrupt \/ expireIdle \/ closeStale \/ janitorStop
         \/ closeSnapshot \/ closeAll \/ closeController \/ UNCHANGED nvars
  PROVE  StateType' /\ \A g \in UDP : Sound(g)'
<1>1. /\ UDP \subseteq Flows
      /\ shut \in [Flows -> {"no", "begun", "released", "done", "stuck"}]
      /\ uflow \in [Flows -> {"none", "open", "closed"}]
      /\ sweep \in Closer({"wait", "close", "done"})
      /\ main \in Closer({"run", "janitor", "close", "controller", "exit", "stuck"})
      /\ states \subseteq UDP
  BY Zenon DEF StateType, UDP
<1>2. ASSUME StateType', \A g \in UDP : Same(g)
      PROVE  StateType' /\ \A g \in UDP : Sound(g)'
  BY <1>2, SameSound, Zenon
<1>3. CASE time \/ interrupt \/ janitorStop \/ closeController \/ UNCHANGED nvars
  <2>1. /\ UNCHANGED <<at, flowTable, query, held, field, uflow, states, shut, early>>
        /\ idle' \subseteq idle \cup states
        /\ sweep' = sweep \/ sweep' = [sweep EXCEPT !.pc = "done"]
        /\ main' = main \/ \E p \in {"janitor", "exit", "stuck"} : main' = [main EXCEPT !.pc = p]
    BY <1>3, Zenon DEF time, interrupt, janitorStop, closeController, After, manager, clients, nvars
  <2>2. sweep'.todo = sweep.todo /\ main'.todo = main.todo
    BY <2>1, <1>1, Zenon DEF Closer
  <2>3. StateType'
    BY <2>1, <1>1 DEF StateType, Closer
  <2>4. \A g \in UDP : Same(g)
    BY <2>1, <2>2, Zenon DEF Same
  <2> QED
    BY <1>2, <2>3, <2>4, Zenon
<1>4. CASE expireIdle \/ closeSnapshot
  <2>1. /\ UNCHANGED <<at, flowTable, query, held, field, uflow, states, shut, early, idle>>
        /\ \/ /\ main' = main /\ sweep'.todo \subseteq states
              /\ sweep' \in Closer({"wait", "close", "done"})
           \/ /\ sweep' = sweep /\ main'.todo = states
              /\ main' \in Closer({"run", "janitor", "close", "controller", "exit", "stuck"})
    <3>1. CASE expireIdle
      <4>1. \E p \in {"wait", "close"} : sweep' = [pc |-> p, todo |-> idle \cap states, cur |-> {}]
        BY <3>1, Zenon DEF expireIdle
      <4> QED
        BY <1>1, <3>1, <4>1, Zenon DEF expireIdle, manager, Closer
    <3>2. CASE closeSnapshot
      BY <1>1, <3>2, Zenon DEF closeSnapshot, manager, Closer
    <3> QED
      BY <1>4, <3>1, <3>2, Zenon
  <2>2. StateType'
    BY <2>1, Zenon DEF StateType
  <2>3. \A g \in UDP : Same(g)
    BY <2>1, Zenon DEF Same
  <2> QED
    BY <1>2, <2>2, <2>3, Zenon
<1>5. CASE closeStale \/ closeAll
  <2>1. UNCHANGED <<clients, flowTable, at, query, mine, held, field, blocked>>
    BY <1>5, Zenon DEF closeStale, closeAll
  <2>2. CASE UNCHANGED <<manager, uflow>> /\ sweep'.todo \subseteq sweep.todo /\ main'.todo \subseteq main.todo
             /\ sweep' \in Closer({"wait", "close", "done"})
             /\ main' \in Closer({"run", "janitor", "close", "controller", "exit", "stuck"})
    <3>1. StateType'
      BY <2>1, <2>2, Zenon DEF StateType, manager
    <3>2. \A g \in UDP : Same(g)
      BY <2>1, <2>2, Zenon DEF Same, manager
    <3> QED
      BY <1>2, <3>1, <3>2, Zenon
  <2>3. ASSUME NEW f \in UDP, callClose(f), f \in sweep.todo \cup main.todo,
               \/ sweep' = [sweep EXCEPT !.todo = @ \ {f}, !.cur = {f}] /\ main' = main
               \/ main' = [main EXCEPT !.todo = @ \ {f}, !.cur = {f}] /\ sweep' = sweep
        PROVE  StateType' /\ \A g \in UDP : Sound(g)'
    <3>1. /\ sweep'.todo \subseteq sweep.todo /\ main'.todo \subseteq main.todo
          /\ sweep' \in Closer({"wait", "close", "done"})
          /\ main' \in Closer({"run", "janitor", "close", "controller", "exit", "stuck"})
      <4>1. CASE sweep' = [sweep EXCEPT !.todo = @ \ {f}, !.cur = {f}] /\ main' = main
        BY <1>1, <4>1, Zenon DEF Closer
      <4>2. CASE main' = [main EXCEPT !.todo = @ \ {f}, !.cur = {f}] /\ sweep' = sweep
        BY <1>1, <4>2, Zenon DEF Closer
      <4> QED
        BY <2>3, <4>1, <4>2, Zenon
    <3>2. StateType'
      BY <1>1, <2>1, <2>3, <3>1 DEF StateType, callClose, closeBegin, manager
    <3> QED
      BY <2>1, <2>3, <3>1, <3>2, CalledSound
  <2>4. CASE closeStale
    <3>1. CASE sweep.todo = {} /\ sweep' = [pc |-> "wait", todo |-> {}, cur |-> {}] /\ UNCHANGED <<manager, uflow>>
      BY <1>1, <2>2, <2>4, <3>1, Zenon DEF closeStale, Closer
    <3>2. CASE \E f \in sweep.todo : callClose(f) /\ sweep' = [sweep EXCEPT !.todo = @ \ {f}, !.cur = {f}]
      <4>1. sweep.todo \subseteq UDP /\ main' = main
        BY <1>1, <2>4, Zenon DEF closeStale, Closer
      <4> QED
        BY <2>3, <3>2, <4>1, Zenon
    <3> QED
      BY <2>4, <3>1, <3>2, Zenon DEF closeStale
  <2>5. CASE closeAll
    <3>1. CASE main.todo = {} /\ main' = [main EXCEPT !.pc = "controller", !.cur = {}] /\ UNCHANGED <<manager, uflow>>
      BY <1>1, <2>2, <2>5, <3>1, Zenon DEF closeAll, Closer
    <3>2. CASE \E f \in main.todo : callClose(f) /\ main' = [main EXCEPT !.todo = @ \ {f}, !.cur = {f}]
      <4>1. main.todo \subseteq UDP /\ sweep' = sweep
        BY <1>1, <2>5, Zenon DEF closeAll, Closer
      <4> QED
        BY <2>3, <3>2, <4>1, Zenon
    <3> QED
      BY <2>5, <3>1, <3>2, Zenon DEF closeAll
  <2> QED
    BY <1>5, <2>4, <2>5, Zenon
<1> QED
  BY <1>3, <1>4, <1>5, Zenon

\* Clients keep their numbers: a dial takes the next one.
LEMMA NumbersStep ==
  ASSUME IInv, Numbers, [NNext]_nvars
  PROVE  Numbers'
<1>1. PoolType /\ Counted
  BY Zenon DEF IInv
<1>2. ASSUME Lowered  PROVE Numbers'
  BY <1>2, Zenon DEF Lowered, Numbers
<1>3. ASSUME UNCHANGED clients, mine' = mine  PROVE Numbers'
  BY <1>3, Zenon DEF clients, Numbers
<1>4. ASSUME markClientBad, mine' = mine, held' = held  PROVE Numbers'
  BY <1>1, <1>2, <1>4, MarkStep, Zenon
<1>5. ASSUME NEW f \in Flows, releaseClient(f), mine' = mine  PROVE Numbers'
  BY <1>1, <1>2, <1>5, ReleaseStep, Zenon
<1>6. ASSUME NEW f \in Flows, acquireLook(f)  PROVE Numbers'
  BY <1>1, <1>6, Zenon DEF acquireLook, join, Numbers, PoolType
<1>7. ASSUME NEW f \in Flows, acquireDial(f)  PROVE Numbers'
  <2>1. CASE UNCHANGED <<dials, live, mine>>
    BY <1>7, <2>1, Zenon DEF acquireDial, Numbers
  <2>2. CASE /\ dials > 0 /\ dials' = dials - 1 /\ live' = live \cup {dials}
             /\ mine' = [mine EXCEPT ![f] = dials]
    <3>1. PICK c \in Casts : dials \in 1 .. c.dials
      BY <1>1, <2>2 DEF Numbers, Clients, PoolType
    <3>2. c.dials \in Nat
      BY TunAssumption, Zenon
    <3>3. dials - 1 = 0 \/ dials - 1 \in 1 .. c.dials
      BY <3>1, <3>2
    <3>4. dials \in Clients /\ dials' \in {0} \cup Clients
      BY <2>2, <3>1, <3>3, Zenon DEF Clients
    <3>5. pool' = pool
      BY <1>7, Zenon DEF acquireDial
    <3> QED
      BY <2>2, <3>4, <3>5, Zenon DEF Numbers
  <2> QED
    BY <1>7, <2>1, <2>2, Zenon DEF acquireDial
<1>8. ASSUME NEW f \in Flows, acquireSecond(f)  PROVE Numbers'
  BY <1>1, <1>8 DEF acquireSecond, join, Numbers, PoolType
<1>9. ASSUME NEW f \in Flows, openFlow(f) \/ proxyBidirectional(f) \/ dnsQueryOverTCP(f) \/ pump(f)
      PROVE  Numbers'
  <2>1. mine' = mine /\ held' = held /\ (markClientBad \/ UNCHANGED clients)
    BY <1>9, Zenon DEF openFlow, proxyBidirectional, dnsQueryOverTCP, pump
  <2> QED
    BY <2>1, <1>3, <1>4, Zenon
<1>10. ASSUME NEW f \in Flows, openFailed(f) \/ relayEnded(f) \/ closeRelease(f)
       PROVE  Numbers'
  <2>1. mine' = mine /\ (releaseClient(f) \/ UNCHANGED clients)
    BY <1>10, Zenon DEF openFailed, relayEnded, closeRelease, unregisterFlow
  <2> QED
    BY <2>1, <1>3, <1>5, Zenon
<1>11. ASSUME NEW f \in Flows,
              \/ start(f) \/ Handle(f) \/ runState(f) \/ registerFlow(f) \/ runDNSFallback(f)
              \/ setField(f, "acquired", "open", "clientKey") \/ setField(f, "registered", "pump", "flowRef")
              \/ runStateEnd(f) \/ runStateReturn(f) \/ closeDelete(f)
       PROVE  Numbers'
  BY <1>3, <1>11, Zenon
  DEF start, Handle, runState, registerFlow, runDNSFallback, setField, runStateEnd, runStateReturn, closeDelete
<1>12. CASE closeController
  <2>1. IF pool.client = 0 THEN UNCHANGED <<live, hung>> ELSE closeClient(pool.client)
    BY <1>12, Zenon DEF closeController
  <2>2. live' \subseteq live
    BY <1>1, <2>1, CloseStep, Zenon
  <2> QED
    BY <1>12, <2>2, Zenon DEF closeController, None, Numbers
<1>13. CASE time \/ interrupt \/ janitorLoop \/ closeSnapshot \/ closeAll \/ UNCHANGED nvars
  BY <1>3, <1>13, Zenon
  DEF time, interrupt, janitorLoop, expireIdle, closeStale, janitorStop, closeSnapshot, closeAll, nvars
<1>14. ASSUME NEW f \in Flows, Goroutine(f)  PROVE Numbers'
  BY <1>6, <1>7, <1>8, <1>9, <1>10, <1>11, <1>14 DEF Goroutine
<1> QED
  BY <1>10, <1>11, <1>12, <1>13, <1>14 DEF NNext, shutdown, closeState

\* The second invariant holds in every state.
THEOREM TunSInv == NSpec => []SInv
<1>1. NInit => SInv
  <2> SUFFICES ASSUME NInit PROVE SInv
    OBVIOUS
  <2>1. PICK c \in Casts : dials = c.dials /\ at = [f \in Flows |-> IF f \in c.flows THEN "start" ELSE "out"]
    BY Zenon DEF NInit
  <2>2. dials \in {0} \cup Clients
    <3>1. c.dials \in Nat
      BY TunAssumption, Zenon
    <3>2. c.dials = 0 \/ c.dials \in 1 .. c.dials
      BY <3>1
    <3> QED
      BY <2>1, <3>2, Zenon DEF Clients
  <2>3. Numbers
    BY <2>2, Zenon DEF NInit, None, Numbers
  <2>4. StateType
    BY Zenon DEF NInit, StateType, Closer
  <2>5. ASSUME NEW f \in UDP  PROVE Sound(f)
    <3>1. f \in Flows
      BY Zenon DEF UDP
    <3>2. at[f] \in {"out", "start"} /\ shut[f] = "no" /\ uflow[f] = "none"
      BY <2>1, <3>1, Zenon DEF NInit
    <3>0. field[f] = {}
      BY <3>1, Zenon DEF NInit
    <3>3. Begun(f)
      BY <3>0, <3>2, Zenon DEF NInit, Begun
    <3>4. Returns(f)
      BY <3>2, Zenon DEF NInit, Returns, Closing, SettingUp
    <3> QED
      BY <3>3, <3>4, Zenon DEF Sound
  <2> QED
    BY <2>3, <2>4, <2>5, Zenon DEF SInv
<1>2. IInv /\ SInv /\ [NNext]_nvars => SInv'
  <2> SUFFICES ASSUME IInv, SInv, [NNext]_nvars PROVE SInv'
    OBVIOUS
  <2>1. Numbers /\ StateType /\ \A g \in UDP : Sound(g)
    BY Zenon DEF SInv
  <2>2. Numbers'
    BY <2>1, NumbersStep, Zenon
  <2>3. ASSUME NEW f \in Flows, Goroutine(f) \/ closeRelease(f) \/ closeDelete(f)
        PROVE  StateType' /\ \A g \in UDP : Sound(g)'
    <3>1. StateType' /\ \A g \in Flows : g # f => Same(g)
      BY <2>1, <2>3, OthersSame, Zenon
    <3>2. f \in UDP => Sound(f)'
      BY <2>1, <2>3, OwnSound, Zenon
    <3>3. \A g \in UDP : g # f => Sound(g)'
      BY <2>1, <3>1, SameSound, Zenon DEF UDP
    <3> QED
      BY <3>1, <3>2, <3>3, Zenon
  <2>4. StateType' /\ \A g \in UDP : Sound(g)'
    BY <2>1, <2>3, OtherSound, Zenon DEF NNext, janitorLoop, shutdown, closeState
  <2> QED
    BY <2>2, <2>4, Zenon DEF SInv
<1> QED
  BY <1>1, <1>2, TunIInv, PTL DEF NSpec

-----------------------------------------------------------------------------
(* A client's Close that hangs.                                            *)

\* A UDP flow on a client whose Close hangs stays open on it, as its own Close
\* waits for udpMu.
LEMMA FlowKept ==
  ASSUME IInv, SInv, [NNext]_nvars, NEW f \in UDP, uflow[f] = "open", mine[f] \in hung
  PROVE  uflow'[f] = "open" /\ mine'[f] = mine[f]
<1>1. /\ f \in Flows /\ StateType /\ PoolType
      /\ uflow \in [Flows -> {"none", "open", "closed"}] /\ mine \in [Flows -> Nat]
      /\ at[f] \notin {"look", "dial", "second"}
  BY Zenon DEF SInv, IInv, StateType, PoolType, UDP, Sound, Begun, Closing
<1>2. ASSUME mine' = mine, uflow' = uflow  PROVE uflow'[f] = "open" /\ mine'[f] = mine[f]
  BY <1>2, Zenon
<1>3. ASSUME NEW g \in Flows, callClose(g), mine' = mine
      PROVE  uflow'[f] = "open" /\ mine'[f] = mine[f]
  <2>1. uflow' = uflow \/ (mine[g] \notin hung /\ uflow' = [uflow EXCEPT ![g] = "closed"])
    BY <1>3 DEF callClose, closeBegin
  <2> QED
    BY <1>1, <1>3, <2>1
<1>4. ASSUME NEW g \in Flows, acquireLook(g) \/ acquireDial(g) \/ acquireSecond(g)
      PROVE  uflow'[f] = "open" /\ mine'[f] = mine[f]
  <2>1. at[g] \in {"look", "dial", "second"} /\ uflow' = uflow
    BY <1>4, Zenon DEF acquireLook, acquireDial, acquireSecond, Goto
  <2>2. mine' = mine \/ \E n : mine' = [mine EXCEPT ![g] = n]
    BY <1>4, Zenon DEF acquireLook, acquireDial, acquireSecond, join
  <2>3. f # g
    BY <1>1, <2>1, Zenon
  <2> QED
    BY <1>1, <2>1, <2>2, <2>3, Zenon
<1>5. ASSUME NEW g \in Flows, openFlow(g)  PROVE uflow'[f] = "open" /\ mine'[f] = mine[f]
  <2>1. mine' = mine
    BY <1>5, Zenon DEF openFlow
  <2>2. uflow' = uflow \/ uflow' = [uflow EXCEPT ![g] = "open"]
    BY <1>5, SMTT(20) DEF openFlow
  <2> QED
    BY <1>1, <2>1, <2>2, Zenon
<1>6. ASSUME NEW g \in Flows, Goroutine(g)  PROVE uflow'[f] = "open" /\ mine'[f] = mine[f]
  <2>1. CASE runStateEnd(g)
    BY <1>3, <2>1, Zenon DEF runStateEnd
  <2>2. CASE \/ start(g) \/ Handle(g) \/ runState(g) \/ registerFlow(g) \/ runDNSFallback(g)
             \/ setField(g, "acquired", "open", "clientKey") \/ setField(g, "registered", "pump", "flowRef")
    BY <1>2, <2>2, Zenon DEF start, Handle, runState, registerFlow, runDNSFallback, setField
  <2>3. CASE \/ openFailed(g) \/ pump(g) \/ proxyBidirectional(g) \/ dnsQueryOverTCP(g) \/ relayEnded(g)
             \/ runStateReturn(g)
    BY <1>2, <2>3, Zenon DEF openFailed, pump, proxyBidirectional, dnsQueryOverTCP, relayEnded, runStateReturn
  <2> QED
    BY <1>4, <1>5, <1>6, <2>1, <2>2, <2>3 DEF Goroutine
<1>7. ASSUME NEW g \in Flows, closeState(g)  PROVE uflow'[f] = "open" /\ mine'[f] = mine[f]
  BY <1>2, <1>7, Zenon DEF closeState, closeRelease, closeDelete
<1>8. CASE closeStale \/ closeAll
  <2>1. mine' = mine /\ (uflow' = uflow \/ \E g \in sweep.todo \cup main.todo : callClose(g))
    BY <1>8, Zenon DEF closeStale, closeAll
  <2>2. sweep.todo \cup main.todo \subseteq Flows
    BY <1>1, Zenon DEF StateType, Closer, UDP
  <2> QED
    BY <1>2, <1>3, <2>1, <2>2, Zenon
<1>9. CASE time \/ interrupt \/ expireIdle \/ janitorStop \/ closeSnapshot \/ closeController \/ UNCHANGED nvars
  BY <1>2, <1>9, Zenon DEF time, interrupt, expireIdle, janitorStop, closeSnapshot, closeController, nvars
<1> QED
  BY <1>6, <1>7, <1>8, <1>9, Zenon DEF NNext, janitorLoop, shutdown

\* releaseClient closes a client over an open UDP flow: unless references are mixed
\* up, nobody else held it.
LEMMA ReleaseHangs ==
  ASSUME IInv, NEW g \in Flows, releaseClient(g), mine' = mine, hung' # hung
  PROVE  hung' = hung \cup {pool.client} /\ UDPFlows(pool.client) # {} /\ (~mixed' => held \subseteq {g})
<1>1. PoolType /\ Counted /\ PoolType' /\ Counted' /\ held' \subseteq held
  BY ReleaseStep, Zenon DEF IInv
<1>2. pool' = None /\ closeClient(pool.client) /\ held' = held \ {g}
  BY Zenon DEF releaseClient
<1>3. IsFiniteSet(held')
  BY <1>1, HeldFinite, FS_Subset, Zenon
<1>4. ~mixed' => Cardinality(held') = 0
  BY <1>1, <1>2, Zenon DEF Counted, None
<1>5. ~mixed' => held' = {}
  BY <1>3, <1>4, FS_EmptySet, Zenon
<1> QED
  BY <1>2, <1>5, Zenon DEF closeClient

\* What makes a Close hang: an open UDP flow on the client, whose state was closed
\* early if references are not mixed up.
LEMMA HangCause ==
  ASSUME IInv, SInv, [NNext]_nvars, hung' # hung
  PROVE  /\ hung' = hung \cup {pool.client} /\ UDPFlows(pool.client) # {} /\ UNCHANGED <<uflow, mine>>
         /\ \A f \in UDPFlows(pool.client) : f \in early' \/ mixed'
<1>1. PoolType /\ Counted
  BY Zenon DEF IInv
<1>2. ASSUME NEW f \in UDPFlows(pool.client), f \notin early
      PROVE  /\ f \in held /\ shut[f] \in {"no", "stuck"}
             /\ at[f] \notin {"failed", "ended", "errored"}
  <2>1. f \in UDP /\ uflow[f] = "open"
    BY <1>2, Zenon DEF UDPFlows
  <2> QED
    BY <1>2, <2>1, Zenon DEF SInv, Sound, Begun, Returns, Closing
<1>3. ASSUME markClientBad, UNCHANGED <<uflow, mine, early>>
      PROVE  /\ hung' = hung \cup {pool.client} /\ UDPFlows(pool.client) # {} /\ UNCHANGED <<uflow, mine>>
             /\ \A f \in UDPFlows(pool.client) : f \in early' \/ mixed'
  <2>1. closeClient(pool.client) /\ pool.refs = 0 /\ mixed' = mixed
    BY <1>3, Zenon DEF markClientBad
  <2>2. hung' = hung \cup {pool.client} /\ UDPFlows(pool.client) # {}
    BY <2>1, Zenon DEF closeClient
  <2>3. ~mixed => held = {}
    BY <1>1, <2>1, HeldFinite, Zenon DEF Counted
  <2> QED
    BY <1>2, <1>3, <2>1, <2>2, <2>3, Zenon
<1>4. ASSUME NEW g \in Flows, openFailed(g) \/ relayEnded(g) \/ closeRelease(g)
      PROVE  /\ hung' = hung \cup {pool.client} /\ UDPFlows(pool.client) # {} /\ UNCHANGED <<uflow, mine>>
             /\ \A f \in UDPFlows(pool.client) : f \in early' \/ mixed'
  <2>1. UNCHANGED <<uflow, mine, early>> /\ (at[g] \in {"failed", "ended", "errored"} \/ shut[g] = "begun")
    BY <1>4, Zenon DEF openFailed, relayEnded, closeRelease, Goto, manager
  <2>2. releaseClient(g)
    BY <1>4, Zenon DEF openFailed, relayEnded, closeRelease, unregisterFlow, clients
  <2>3. hung' = hung \cup {pool.client} /\ UDPFlows(pool.client) # {} /\ (~mixed' => held \subseteq {g})
    BY <2>1, <2>2, ReleaseHangs, Zenon
  <2>4. ASSUME NEW f \in UDPFlows(pool.client), f \notin early, ~mixed'  PROVE FALSE
    <3>1. f = g
      BY <1>2, <2>3, <2>4, Zenon
    <3> QED
      BY <1>2, <2>1, <2>4, <3>1
  <2> QED
    BY <2>1, <2>3, <2>4, Zenon
<1>5. CASE closeController
  <2>1. /\ UNCHANGED <<uflow, mine, early>> /\ closeClient(pool.client) /\ mixed' = (mixed \/ held # {})
    BY <1>5, Zenon DEF closeController, manager
  <2> QED
    BY <1>2, <2>1, Zenon DEF closeClient
<1>6. ASSUME NEW g \in Flows, openFlow(g) \/ proxyBidirectional(g) \/ dnsQueryOverTCP(g) \/ pump(g)
      PROVE  markClientBad /\ UNCHANGED <<uflow, mine, early>>
  BY <1>6, Zenon DEF openFlow, proxyBidirectional, dnsQueryOverTCP, pump, clients, manager
<1>7. ASSUME NEW g \in Flows,
             \/ start(g) \/ Handle(g) \/ runState(g) \/ registerFlow(g) \/ runDNSFallback(g)
             \/ setField(g, "acquired", "open", "clientKey") \/ setField(g, "registered", "pump", "flowRef")
             \/ runStateEnd(g) \/ runStateReturn(g) \/ closeDelete(g)
             \/ acquireLook(g) \/ acquireDial(g) \/ acquireSecond(g)
      PROVE  FALSE
  BY <1>7, Zenon
  DEF start, Handle, runState, registerFlow, runDNSFallback, setField, runStateEnd, runStateReturn, closeDelete,
      acquireLook, acquireDial, acquireSecond, clients
<1>8. CASE time \/ interrupt \/ janitorLoop \/ closeSnapshot \/ closeAll \/ UNCHANGED nvars
  BY <1>8, Zenon
  DEF time, interrupt, janitorLoop, expireIdle, closeStale, janitorStop, closeSnapshot, closeAll, nvars, clients
<1> QED
  BY <1>3, <1>4, <1>5, <1>6, <1>7, <1>8 DEF NNext, Goroutine, shutdown, closeState

\* What has happened stays so.
LEMMA HistoryKept ==
  ASSUME [NNext]_nvars, mixed \in BOOLEAN
  PROVE  (mixed => mixed') /\ early \subseteq early'
<1> DEFINE Grows == \/ mixed' = mixed
                   \/ \E b \in BOOLEAN : mixed' = (mixed \/ b)
<1> SUFFICES Grows /\ early \subseteq early'
  OBVIOUS
<1>1. ASSUME NEW g \in Flows, Goroutine(g)  PROVE Grows /\ early \subseteq early'
  <2>1. CASE \/ start(g) \/ Handle(g) \/ runState(g) \/ registerFlow(g) \/ runDNSFallback(g)
             \/ setField(g, "acquired", "open", "clientKey") \/ setField(g, "registered", "pump", "flowRef")
             \/ runStateReturn(g)
    BY <2>1, Zenon
    DEF start, Handle, runState, registerFlow, runDNSFallback, setField, runStateReturn, clients, manager
  <2>2. CASE acquireLook(g) \/ acquireDial(g) \/ acquireSecond(g)
    BY <2>2, Zenon DEF acquireLook, acquireDial, acquireSecond, manager
  <2>3. CASE openFlow(g) \/ proxyBidirectional(g) \/ dnsQueryOverTCP(g) \/ pump(g)
    BY <2>3, Zenon DEF openFlow, proxyBidirectional, dnsQueryOverTCP, pump, markClientBad, clients, manager
  <2>4. CASE openFailed(g) \/ relayEnded(g)
    BY <2>4, Zenon DEF openFailed, relayEnded, unregisterFlow, releaseClient, clients, manager
  <2>5. CASE runStateEnd(g)
    BY <2>5, Zenon DEF runStateEnd, callClose, closeBegin, clients, manager
  <2> QED
    BY <1>1, <2>1, <2>2, <2>3, <2>4, <2>5 DEF Goroutine
<1>2. ASSUME NEW g \in Flows, closeState(g)  PROVE Grows /\ early \subseteq early'
  BY <1>2, Zenon DEF closeState, closeRelease, closeDelete, unregisterFlow, releaseClient, clients
<1>3. CASE closeStale \/ closeAll
  BY <1>3, Zenon DEF closeStale, closeAll, callClose, closeBegin, clients, manager
<1>4. CASE time \/ interrupt \/ expireIdle \/ janitorStop \/ closeSnapshot \/ UNCHANGED nvars
  BY <1>4, Zenon DEF time, interrupt, expireIdle, janitorStop, closeSnapshot, nvars, clients, manager
<1>5. CASE closeController
  <2>1. mixed' = (mixed \/ held # {}) /\ early' = early
    BY <1>5, Zenon DEF closeController, manager
  <2>2. (held # {}) \in BOOLEAN
    OBVIOUS
  <2>3. \E b \in BOOLEAN : mixed' = (mixed \/ b)
    BY <2>1, <2>2, Zenon
  <2> QED
    BY <2>1, <2>3, Zenon
<1> HIDE DEF Grows
<1> QED
  BY <1>1, <1>2, <1>3, <1>4, <1>5, Zenon DEF NNext, janitorLoop, shutdown

\* Client.Close hangs only over a UDP flow that nobody closes any more: runState
\* opened it for a state that closeState had closed, unless references to two clients
\* were counted in one entry.
THEOREM TunHangsOverLost == NSpec => []HangsOverLost
<1>1. NInit => HangsOverLost
  BY Zenon DEF NInit, HangsOverLost
<1>2. IInv /\ SInv /\ HangsOverLost /\ [NNext]_nvars => HangsOverLost'
  <2> SUFFICES ASSUME IInv, SInv, HangsOverLost, [NNext]_nvars, NEW c \in hung'
               PROVE  \E f \in UDP : uflow'[f] = "open" /\ mine'[f] = c /\ (f \in early' \/ mixed')
    BY Zenon DEF HangsOverLost, UDPFlows
  <2>1. CASE c \in hung
    <3>1. PICK f \in UDP : uflow[f] = "open" /\ mine[f] = c /\ (f \in early \/ mixed)
      BY <2>1, Zenon DEF HangsOverLost, UDPFlows
    <3>2. uflow'[f] = "open" /\ mine'[f] = mine[f]
      BY <2>1, <3>1, FlowKept, Zenon
    <3>3. f \in early' \/ mixed'
      BY <3>1, HistoryKept, Zenon DEF IInv, PoolType
    <3> QED
      BY <3>1, <3>2, <3>3, Zenon
  <2>2. CASE c \notin hung
    <3>1. /\ c = pool.client /\ UDPFlows(pool.client) # {} /\ UNCHANGED <<uflow, mine>>
          /\ \A f \in UDPFlows(pool.client) : f \in early' \/ mixed'
      BY <2>2, HangCause, Zenon
    <3> QED
      BY <3>1, Zenon DEF UDPFlows
  <2> QED
    BY <2>1, <2>2, Zenon
<1> QED
  BY <1>1, <1>2, TunIInv, TunSInv, PTL DEF NSpec

\* The clients that flows share are counted by their users, not closed in use and
\* not forgotten open, but for those replaced or mixed up; their Close hangs only over
\* a UDP flow that a state closed early has left.
THEOREM TunClientsShared == NSpec => []ClientsShared
<1>1. RefsExact /\ RefsCovered /\ UsedStaysOpen /\ LeftOpenIsReplaced /\ HangsOverLost => ClientsShared
  BY Zenon DEF ClientsShared
<1> QED
  BY <1>1, TunRefsExact, TunRefsCovered, TunUsedStaysOpen, TunLeftOpenIsReplaced, TunHangsOverLost, PTL

-----------------------------------------------------------------------------
\* Every variable keeps its type: clients have the numbers that were dialed, and
\* an entry counts at most the flows there are.
THEOREM TunTypeOK == NSpec => []NTypeOK
<1>1. IInv /\ SInv => NTypeOK
  <2> SUFFICES ASSUME IInv, SInv PROVE NTypeOK
    OBVIOUS
  <2>1. PoolType /\ AtType /\ Counted /\ Numbers /\ StateType
    BY Zenon DEF IInv, SInv
  <2>2. Cardinality(held) <= Cardinality(Flows) /\ Cardinality(Flows) \in Nat /\ Cardinality(held) \in Nat
    BY <2>1, TunAssumption, FS_Subset, FS_CardinalityType, Zenon DEF PoolType
  <2>3. pool \in [client : {0} \cup Clients, refs : 0 .. Cardinality(Flows), broken : BOOLEAN]
    <3>1. pool.refs \in 0 .. Cardinality(Flows)
      BY <2>1, <2>2 DEF PoolType, Counted
    <3> QED
      BY <2>1, <3>1, Zenon DEF PoolType, Numbers
  <2>4. sweep.todo \subseteq UDP /\ main.todo \subseteq UDP
    BY <2>1, Zenon DEF StateType, Closer
  <2>5. at \in [Flows -> SettingUp \cup {"out", "start", "pump", "relay", "copied", "errored", "ended", "dns", "close", "closing", "done", "stuck"}]
    BY <2>1, Zenon DEF AtType, Places, Looking, Relaying, Closing, SettingUp
  <2> QED
    BY <2>1, <2>3, <2>4, <2>5, Zenon DEF NTypeOK, Numbers, StateType, PoolType, AtType
<1> QED
  BY <1>1, TunIInv, TunSInv, PTL

\* A state of the UDP manager that runs is the one its addresses find in m.flows.
THEOREM TunRunningFound == NSpec => []RunningFound
<1>1. SInv => RunningFound
  BY Zenon DEF SInv, Sound, Begun, RunningFound
<1> QED
  BY <1>1, TunSInv, PTL

\* A state that has ended has left its UDP flow closed, its entry in c.flows
\* deleted and its client released, unless closeState ran while runState was
\* still setting its fields.
THEOREM TunEndedReleased == NSpec => []EndedReleased
<1>1. SInv => EndedReleased
  BY Zenon DEF SInv, Sound, Returns, EndedReleased, Closing
<1> QED
  BY <1>1, TunSInv, PTL

\* closeState releases every state once and for all, whoever calls it first and
\* however the calls interleave with runState, for any flows and addresses.
THEOREM TunStatesReleased == NSpec => []StatesReleased
<1>1. NTypeOK /\ RunningFound /\ EndedReleased => StatesReleased
  BY Zenon DEF StatesReleased
<1> QED
  BY <1>1, TunTypeOK, TunRunningFound, TunEndedReleased, PTL
=============================================================================
