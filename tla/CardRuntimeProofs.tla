-------------------------- MODULE CardRuntimeProofs --------------------------
(***************************************************************************)
(* Proofs about the card runtime and the event log, for any players, cards *)
(* and programs: the log loses nothing silently, cards and stack entries   *)
(* agree, the subscriptions are exactly those called for, and an           *)
(* unless-paid ability on the stack knows its player.  A resolution is a   *)
(* chain of small steps (moves, draws, removals), so what is proved of a   *)
(* state is stated for any record of the kernel's state and any tables,    *)
(* and carried along that chain.                                           *)
(***************************************************************************)
EXTENDS CardRuntimeProperties, SelectionProofs

----------------------------------------------------------------------------
(* The kernel's state and the driver's tables.                              *)

Errors == {"Ok", "InvalidChoice", "ObjectNotOnBattlefield", "UnknownStackEntry",
           "PendingTriggeredAbilities", "UnknownTrigger"}
Happenings == {"enters", "upkeep", "draws"}
Places == Zones \cup {"none"}

Occurrences ==
    {e \in [kind : {"moved", "upkeep", "drawn"}, object : Cards \cup {None}, to : Places,
            player : Players \cup {None}] : e.kind = "drawn" => e.player \in Players}
Records == [sequence : Nat, turn : Nat, event : Occurrences]
Logs == [turn : Nat, next : Nat, events : Seq(Records)]
Subscriptions == [trigger : Nat, controller : Players, source : Cards, event : Happenings, once : BOOLEAN]
Pendings == [trigger : Nat, controller : Players, source : Cards, turn : Nat, sequence : Nat]
Targets == [kind : {"permanent", "grave", "spell"}, choice : Cards \cup Nat, zone : Places]
Entries == [id : Nat, controller : Players, object : Cards \cup {None}, trigger : Nat \cup {None},
            targets : Seq(Targets)]
States == [zone : [Cards -> Zones], stack : Seq(Entries), subs : Seq(Subscriptions),
           pending : Seq(Pendings), log : Logs, nextTrigger : Nat, nextEntry : Nat]
Rows == {r \in [trigger : Nat, source : Cards, ability : Nat] : r.ability \in DOMAIN Text[r.source].abilities}
Tables == [Cards -> Seq(Nat)]

AbilityIn(r) == Text[r.source].abilities[r.ability]
Conditional(r) == AbilityIn(r).alternate # "none"

----------------------------------------------------------------------------
(* The inductive invariant, part by part.                                   *)

(* The log holds the last events of this turn, as many as the ring keeps;   *)
(* `start` is the number of the first event of the turn.                    *)
LogFits(log, start) ==
    /\ start \in Nat /\ start <= log.next
    /\ Len(log.events) = IF log.next - start > Capacity THEN Capacity ELSE log.next - start
    /\ \A i \in 1 .. Len(log.events) :
          log.events[i].sequence = log.next - Len(log.events) + i - 1 /\ log.events[i].turn = log.turn

(* A pending trigger names an event of this turn; if that was a draw and is *)
(* still recorded, another player drew.                                     *)
PendingFits(g, start) ==
    \A p \in Range(g.pending) :
        /\ p.turn = g.log.turn /\ start <= p.sequence /\ p.sequence < g.log.next
        /\ \A r \in Range(g.log.events) :
              r.sequence = p.sequence /\ r.event.kind = "drawn" => r.event.player \in Players \ {p.controller}

(* Every trigger that is subscribed, pending or on the stack has a row; one *)
(* that fires once is in one of the three places only.                      *)
RowsFit(g, rows) ==
    /\ \A r \in rows : r.trigger < g.nextTrigger
    /\ \A q, r \in rows : q.trigger = r.trigger => q = r
SubsFit(g, rows) ==
    /\ IsInjective(g.subs)
    /\ \A x, y \in Range(g.subs) : x.trigger = y.trigger => x = y
    /\ \A x \in Range(g.subs) : \E r \in rows :
          /\ r.trigger = x.trigger /\ r.source = x.source
          /\ x.event = AbilityIn(r).event /\ (x.once <=> Conditional(r))
Waiting(g) == {p.trigger : p \in Range(g.pending)} \cup ({e.trigger : e \in Range(g.stack)} \ {None})
WaitingFits(g, rows) ==
    /\ \A t \in Waiting(g) : \E r \in rows : r.trigger = t
    /\ \A x \in Range(g.subs) : x.once => x.trigger \notin Waiting(g)

\* `start` is a cursor that was taken when the turn began.
Core(g, start, rows) ==
    /\ g \in States /\ rows \subseteq Rows /\ g.log.turn = start.turn
    /\ LogFits(g.log, start.next) /\ PendingFits(g, start.next)
    /\ RowsFit(g, rows) /\ SubsFit(g, rows) /\ WaitingFits(g, rows)

(* An entry is about a spell or about a trigger; spells and cards in the    *)
(* stack zone belong together.                                              *)
EntryFits(g, e) ==
    /\ e.id < g.nextEntry
    /\ e.object = None <=> e.trigger # None
    /\ e.object = None => e.targets = <<>>
    /\ e.object # None =>
          /\ g.zone[e.object] = "stack"
          /\ Len(e.targets) = Len(Text[e.object].targets)
          /\ \A i \in 1 .. Len(e.targets) : e.targets[i].kind = Text[e.object].targets[i]
StackFits(g) ==
    /\ IsInjective(g.stack)
    /\ \A x, y \in Range(g.stack) : x.id = y.id \/ (x.object = y.object /\ x.object # None) => x = y
    /\ \A e \in Range(g.stack) : EntryFits(g, e)
CardFits(g) ==
    /\ StackFits(g)
    /\ \A c \in Cards : g.zone[c] = "stack" => \E e \in Range(g.stack) : e.object = c

ContextFits(stack, rows, known) ==
    \A e \in Range(stack), r \in rows :
        r.trigger = e.trigger /\ AbilityIn(r).does = "drawUnlessPaid" =>
            \E c \in known : c.entry = e.id /\ c.player \in Players \ {e.controller}

TableFits(table, rows) ==
    /\ table \in Tables
    /\ \A c \in Cards :
          /\ Len(table[c]) <= 1
          /\ \A t \in Range(table[c]) : \E r \in rows : r.trigger = t /\ r.source = c /\ Conditional(r)

(* What is subscribed, as long as nothing has failed.  The cards in `moving`*)
(* have left the stack and their conditional triggers are about to retire.  *)
Subscribed(g, t) == \E x \in Range(g.subs) : x.trigger = t
Exact(g, rows, known, table, moving) ==
    /\ \A r \in rows : ~Conditional(r) =>
          /\ r.source \in known /\ Subscribed(g, r.trigger)
          /\ \A q \in rows : q.source = r.source /\ q.ability = r.ability => q = r
    /\ \A c \in known : \A a \in DOMAIN Text[c].abilities : Text[c].abilities[a].alternate = "none" =>
          \E r \in rows : r.source = c /\ r.ability = a
    /\ \A r \in rows : Conditional(r) /\ Subscribed(g, r.trigger) => r.trigger \in Range(table[r.source])
    /\ \A c \in Cards \ moving : table[c] # <<>> =>
          g.zone[c] = "stack" /\ \A t \in Range(table[c]) : Subscribed(g, t)

LookupFits(g, error) ==
    error = "CannotRecoverEvent" => \E i \in DOMAIN g.pending : g.log.next - g.pending[i].sequence > Capacity

RuntimeFits ==
    /\ Core(game, [turn |-> game.log.turn, next |-> turnStart], runtimes) /\ CardFits(game)
    /\ registered \subseteq Cards
    /\ ContextFits(game.stack, runtimes, contexts)
    /\ TableFits(conditional, runtimes)
    /\ Running => Exact(game, runtimes, registered, conditional, {})
    /\ LookupFits(game, result)

----------------------------------------------------------------------------
(* The event log.                                                           *)

LEMMA LogStarts == NewLog \in Logs /\ LogFits(NewLog, 0)
<1>1. NewLog.events = <<>> /\ NewLog.next = 0 /\ NewLog.turn = 0
  BY DEF NewLog
<1>2. NewLog.events \in Seq(Records) /\ Len(NewLog.events) = 0
  BY <1>1
<1>3. NewLog \in Logs
  BY <1>1, <1>2 DEF NewLog, Logs
<1>4. LogFits(NewLog, 0)
  BY <1>1, <1>2, CapacityAssumption DEF LogFits
<1> QED BY <1>3, <1>4

LEMMA LogTurns ==
  ASSUME NEW log \in Logs
  PROVE  NextTurn(log) \in Logs /\ LogFits(NextTurn(log), log.next)
<1> DEFINE new == NextTurn(log)
<1>1. new.events = <<>> /\ new.next = log.next /\ new.turn = log.turn + 1 /\ log.next \in Nat /\ log.turn \in Nat
  BY DEF NextTurn, Logs
<1>2. new.events \in Seq(Records) /\ Len(new.events) = 0
  BY <1>1
<1>3. new \in Logs
  <2>1. <<>> \in Seq(Records) /\ log.turn + 1 \in Nat
    BY <1>1
  <2> QED BY <1>1, <2>1 DEF NextTurn, Logs
<1> HIDE DEF new
<1>4. LogFits(new, log.next)
  BY <1>1, <1>2, CapacityAssumption DEF LogFits
<1> QED BY <1>3, <1>4 DEF new

LEMMA LogGrows ==
  ASSUME NEW log \in Logs, NEW start, LogFits(log, start), NEW event \in Occurrences
  PROVE  LET new == AppendEvent(log, event)
         IN /\ new \in Logs /\ LogFits(new, start)
            /\ new.turn = log.turn /\ new.next = log.next + 1
            /\ Range(new.events) \subseteq
                  Range(log.events) \cup {[sequence |-> log.next, turn |-> log.turn, event |-> event]}
<1> DEFINE record == [sequence |-> log.next, turn |-> log.turn, event |-> event]
           grown == Append(log.events, record)
           kept == IF Len(grown) > Capacity THEN Tail(grown) ELSE grown
           new == AppendEvent(log, event)
<1>1. /\ log.turn \in Nat /\ log.next \in Nat /\ log.events \in Seq(Records) /\ record \in Records
      /\ start \in Nat /\ Capacity \in Nat /\ Capacity > 0 /\ Len(log.events) \in Nat
  BY CapacityAssumption DEF Logs, Records, LogFits
<1>2. /\ grown \in Seq(Records) /\ Len(grown) = Len(log.events) + 1
      /\ Range(grown) = Range(log.events) \cup {record}
  BY <1>1, AppendFacts
<1>3. \A i \in 1 .. Len(log.events) : grown[i] = log.events[i]
  BY <1>1
<1>4. grown[Len(log.events) + 1] = record
  BY <1>1
<1> HIDE DEF grown
<1>5. /\ kept \in Seq(Records) /\ Range(kept) \subseteq Range(grown)
      /\ Len(kept) = IF Len(grown) > Capacity THEN Len(grown) - 1 ELSE Len(grown)
      /\ \A i \in 1 .. Len(kept) : kept[i] = grown[i + Len(grown) - Len(kept)]
  <2>1. CASE Len(grown) > Capacity
    <3>1. kept = Tail(grown) /\ grown # <<>>
      BY <1>1, <1>2, <2>1
    <3>2. /\ kept \in Seq(Records) /\ Len(kept) = Len(grown) - 1
          /\ \A i \in 1 .. Len(kept) : kept[i] = grown[i + 1]
      BY <1>2, <3>1
    <3>3. Range(kept) \subseteq Range(grown)
      <4>1. \A i \in 1 .. Len(kept) : i + 1 \in 1 .. Len(grown)
        BY <1>1, <1>2, <3>2
      <4>2. DOMAIN kept = 1 .. Len(kept) /\ DOMAIN grown = 1 .. Len(grown)
        BY <1>2, <3>2
      <4> QED BY <3>2, <4>1, <4>2 DEF Range
    <3> HIDE DEF kept
    <3>4. \A i \in 1 .. Len(kept) : i + Len(grown) - Len(kept) = i + 1
      <4>1. Len(kept) = Len(grown) - 1 /\ Len(grown) \in Nat
        BY <1>1, <1>2, <3>2
      <4> QED BY <4>1
    <3> QED BY <2>1, <3>2, <3>3, <3>4
  <2>2. CASE ~(Len(grown) > Capacity)
    <3>1. kept = grown
      BY <2>2
    <3> HIDE DEF kept
    <3>2. \A i \in 1 .. Len(kept) : i + Len(grown) - Len(kept) = i
      <4>1. Len(kept) = Len(grown) /\ Len(grown) \in Nat
        BY <1>1, <1>2, <3>1
      <4> QED BY <4>1
    <3> QED BY <1>2, <2>2, <3>1, <3>2
  <2> QED BY <2>1, <2>2
<1>6. new.turn = log.turn /\ new.next = log.next + 1 /\ new.events = kept /\ new \in Logs
  <2>1. new = [log EXCEPT !.next = @ + 1, !.events = kept]
    BY DEF AppendEvent, grown
  <2>2. log.next + 1 \in Nat
    BY <1>1
  <2> HIDE DEF kept, new
  <2> QED BY <1>5, <2>1, <2>2 DEF Logs
<1> HIDE DEF kept, new
<1>7. LogFits(new, start)
  <2>1. /\ start <= log.next
        /\ Len(log.events) = IF log.next - start > Capacity THEN Capacity ELSE log.next - start
        /\ \A i \in 1 .. Len(log.events) :
              log.events[i].sequence = log.next - Len(log.events) + i - 1 /\ log.events[i].turn = log.turn
    BY DEF LogFits
  <2>2. \A i \in 1 .. Len(grown) :
           grown[i].sequence = log.next - Len(log.events) + i - 1 /\ grown[i].turn = log.turn
    <3>1. \A i \in 1 .. Len(grown) : i \in 1 .. Len(log.events) \/ i = Len(log.events) + 1
      BY <1>1, <1>2
    <3>2. record.sequence = log.next - Len(log.events) + (Len(log.events) + 1) - 1 /\ record.turn = log.turn
      BY <1>1
    <3> HIDE DEF record
    <3> QED BY <1>3, <1>4, <2>1, <3>1, <3>2
  <2>3. Len(kept) = IF new.next - start > Capacity THEN Capacity ELSE new.next - start
    BY <1>1, <1>2, <1>5, <1>6, <2>1
  <2>4. ASSUME NEW i \in 1 .. Len(kept)
        PROVE  kept[i].sequence = new.next - Len(kept) + i - 1 /\ kept[i].turn = new.turn
    <3> DEFINE j == i + Len(grown) - Len(kept)
    <3>0. Len(kept) \in Nat /\ Len(grown) \in Nat /\ Len(kept) <= Len(grown) /\ Len(grown) <= Len(kept) + 1
      BY <1>1, <1>2, <1>5
    <3>1. j \in 1 .. Len(grown)
      BY <3>0
    <3>2. log.next - Len(log.events) + j - 1 = new.next - Len(kept) + i - 1
      BY <1>1, <1>2, <1>6, <3>0
    <3>3. kept[i] = grown[j]
      BY <1>5
    <3> HIDE DEF j
    <3> QED BY <1>6, <2>2, <3>1, <3>2, <3>3
  <2> QED BY <1>1, <1>6, <2>1, <2>3, <2>4 DEF LogFits
<1> QED BY <1>2, <1>5, <1>6, <1>7 DEF new

\* A record that the ring should still hold is found by its number.
LEMMA LogFinds ==
  ASSUME NEW log \in Logs, NEW start, LogFits(log, start), NEW n \in Nat,
         start <= n, n < log.next, log.next - n <= Capacity
  PROVE  Recorded(log, log.turn, n) # {}
<1> DEFINE i == n - log.next + Len(log.events) + 1
<1>1. /\ start \in Nat /\ log.next \in Nat /\ Capacity \in Nat /\ start <= log.next
      /\ Len(log.events) = IF log.next - start > Capacity THEN Capacity ELSE log.next - start
      /\ \A k \in 1 .. Len(log.events) :
            log.events[k].sequence = log.next - Len(log.events) + k - 1 /\ log.events[k].turn = log.turn
      /\ DOMAIN log.events = 1 .. Len(log.events)
  <2>1. log.events \in Seq(Records) /\ log.next \in Nat
    BY DEF Logs
  <2>2. DOMAIN log.events = 1 .. Len(log.events)
    BY <2>1
  <2> QED BY <2>1, <2>2, CapacityAssumption DEF LogFits
<1>2. i \in 1 .. Len(log.events) /\ log.next - Len(log.events) + i - 1 = n
  <2> DEFINE size == Len(log.events)
             next == log.next
  <2>1. /\ start \in Nat /\ next \in Nat /\ Capacity \in Nat /\ next - n <= Capacity /\ n < next
        /\ size = IF next - start > Capacity THEN Capacity ELSE next - start
    BY <1>1
  <2> HIDE DEF size, next
  <2>2. n - next + size + 1 \in 1 .. size /\ next - size + (n - next + size + 1) - 1 = n
    BY <2>1
  <2> QED BY <2>2 DEF size, next
<1> HIDE DEF i
<1>3. i \in Recorded(log, log.turn, n)
  BY <1>1, <1>2 DEF Recorded
<1> QED BY <1>3

LEMMA LogReads ==
  ASSUME NEW log \in Logs, NEW start, LogFits(log, start), NEW n \in start .. log.next
  PROVE  LET cursor == [turn |-> log.turn, next |-> n]
             read == EventsSince(log, cursor)
         IN IF log.next - n > Capacity THEN CursorError(log, cursor) = "CursorTooOld"
            ELSE /\ CursorError(log, cursor) = "None"
                 /\ Len(read) = log.next - n
                 /\ \A i \in DOMAIN read : read[i].sequence = n + i - 1
<1> DEFINE cursor == [turn |-> log.turn, next |-> n]
           read == EventsSince(log, cursor)
           size == Len(log.events)
<1>1. /\ start \in Nat /\ log.next \in Nat /\ Capacity \in Nat /\ Capacity > 0 /\ start <= log.next
      /\ size = IF log.next - start > Capacity THEN Capacity ELSE log.next - start
      /\ \A k \in 1 .. size : log.events[k].sequence = log.next - size + k - 1
      /\ log.events \in Seq(Records) /\ DOMAIN log.events = 1 .. size /\ size \in Nat
  BY CapacityAssumption DEF LogFits, Logs
<1>2. cursor.turn = log.turn /\ cursor.next = n /\ n \in Nat /\ start <= n /\ n <= log.next
  BY <1>1
<1>3. OldestRetained(log) = log.next - size
  <2>1. CASE size = 0
    BY <1>1, <2>1 DEF OldestRetained
  <2>2. CASE size # 0
    <3>1. log.events # <<>> /\ 1 \in 1 .. size
      BY <1>1, <2>2
    <3>2. log.events[1].sequence = log.next - size + 1 - 1
      BY <1>1, <3>1
    <3> QED BY <1>1, <3>1, <3>2 DEF OldestRetained
  <2> QED BY <2>1, <2>2
<1>4. CASE log.next - n > Capacity
  <2>1. n < log.next - size
    BY <1>1, <1>2, <1>4
  <2> HIDE DEF cursor
  <2> QED BY <1>1, <1>2, <1>3, <1>4, <2>1 DEF CursorError, cursor
<1>5. CASE ~(log.next - n > Capacity)
  <2> DEFINE S == {r \in Range(log.events) : r.sequence >= n}
             k == n - (log.next - size)
  <2>1. k \in 0 .. size /\ ~(n < log.next - size) /\ size - k = log.next - n
    <3>1. CASE log.next - start > Capacity
      <4>1. size = Capacity
        BY <1>1, <3>1
      <4> HIDE DEF size
      <4> QED BY <1>1, <1>2, <1>5, <3>1, <4>1
    <3>2. CASE ~(log.next - start > Capacity)
      <4>1. size = log.next - start
        BY <1>1, <3>2
      <4> HIDE DEF size
      <4> QED BY <1>1, <1>2, <1>5, <3>2, <4>1
    <3> QED BY <3>1, <3>2
  <2>2. ASSUME NEW i \in 1 .. size
        PROVE  log.events[i] \in S <=> i > k
    <3>1. log.events[i] \in Range(log.events)
      BY <1>1 DEF Range
    <3>2. log.events[i].sequence = log.next - size + i - 1
      BY <1>1
    <3>3. log.next - size + i - 1 >= n <=> i > k
      BY <1>1, <1>2
    <3> QED BY <3>1, <3>2, <3>3
  <2>3. read = Keep(log.events, S)
    BY <1>2 DEF EventsSince
  <2> HIDE DEF k, S, read
  <2>4. /\ read \in Seq(Records) /\ Len(read) = log.next - n
        /\ \A i \in 1 .. log.next - n : read[i] = log.events[k + i]
    <3>0. size = Len(log.events)
      OBVIOUS
    <3> HIDE DEF size
    <3>1. /\ Keep(log.events, S) \in Seq(Records) /\ Len(Keep(log.events, S)) = size - k
          /\ \A i \in 1 .. size - k : Keep(log.events, S)[i] = log.events[k + i]
      <4>1. log.events \in Seq(Records) /\ k \in 0 .. Len(log.events)
        BY <1>1, <2>1, <3>0
      <4>2. \A i \in 1 .. Len(log.events) : log.events[i] \in S <=> i > k
        BY <2>2, <3>0
      <4>3. /\ Keep(log.events, S) \in Seq(Records) /\ Len(Keep(log.events, S)) = Len(log.events) - k
            /\ \A i \in 1 .. Len(log.events) - k : Keep(log.events, S)[i] = log.events[k + i]
        <5> DEFINE s == log.events
        <5>1. s \in Seq(Records) /\ k \in 0 .. Len(s) /\ \A i \in 1 .. Len(s) : s[i] \in S <=> i > k
          BY <4>1, <4>2
        <5> HIDE DEF s
        <5>2. /\ Keep(s, S) \in Seq(Records) /\ Len(Keep(s, S)) = Len(s) - k
              /\ \A i \in 1 .. Len(s) - k : Keep(s, S)[i] = s[k + i]
          BY <5>1, KeepSuffix
        <5> QED BY <5>2 DEF s
      <4> QED BY <3>0, <4>3
    <3> QED BY <2>1, <2>3, <3>1
  <2>5. ASSUME NEW i \in DOMAIN read
        PROVE  read[i].sequence = n + i - 1
    <3>1. i \in 1 .. log.next - n
      BY <2>4
    <3>2. k + i \in 1 .. size /\ log.next - size + (k + i) - 1 = n + i - 1
      <4>1. k = n - (log.next - size) /\ n \in Nat /\ log.next \in Nat /\ size \in Nat
        BY <1>1, <1>2 DEF k
      <4> DEFINE next == log.next
      <4> HIDE DEF size, next
      <4>2. k = n - (next - size) /\ n \in Nat /\ next \in Nat /\ size \in Nat /\ i \in 1 .. next - n
        BY <3>1, <4>1 DEF next
      <4>3. k + i \in 1 .. size /\ next - size + (k + i) - 1 = n + i - 1
        <5>1. k \in 0 .. size
          BY <2>1
        <5> QED BY <4>2, <5>1
      <4> QED BY <4>3 DEF next
    <3> QED BY <1>1, <2>4, <3>1, <3>2
  <2>6. CursorError(log, cursor) = "None"
    <3> HIDE DEF cursor
    <3> QED BY <1>1, <1>2, <1>3, <2>1 DEF CursorError
  <2> QED BY <1>5, <2>4, <2>5, <2>6 DEF read
<1> QED BY <1>4, <1>5

----------------------------------------------------------------------------
(* Programs.                                                                *)

LEMMA RowTypes ==
  ASSUME NEW r \in Rows
  PROVE  /\ r.trigger \in Nat /\ r.source \in Cards /\ r.ability \in DOMAIN Text[r.source].abilities
         /\ AbilityIn(r) \in Abilities
         /\ Conditional(r) => AbilityIn(r).event = "enters"
         /\ \A q \in Rows : q.source = r.source /\ Conditional(q) /\ Conditional(r) => q.ability = r.ability
<1>1. r.trigger \in Nat /\ r.source \in Cards /\ r.ability \in DOMAIN Text[r.source].abilities
  BY DEF Rows
<1>2. ProgramsFit
  BY ProgramAssumption
<1>3. Text[r.source] \in Programs
  BY <1>1, <1>2 DEF ProgramsFit
<1>4. Text[r.source].abilities \in Seq(Abilities)
  BY <1>3 DEF Programs
<1>5. AbilityIn(r) \in Abilities
  BY <1>1, <1>4 DEF AbilityIn
<1>6. Conditional(r) => AbilityIn(r).event = "enters"
  BY <1>1, <1>2 DEF ProgramsFit, AbilityIn, Conditional
<1>7. ASSUME NEW q \in Rows, q.source = r.source, Conditional(q), Conditional(r)
      PROVE  q.ability = r.ability
  <2>1. q.ability \in DOMAIN Text[r.source].abilities
    BY <1>7 DEF Rows
  <2> QED BY <1>1, <1>2, <1>7, <2>1 DEF ProgramsFit, AbilityIn, Conditional
<1> QED BY <1>1, <1>5, <1>6, <1>7

----------------------------------------------------------------------------
(* Events: what they queue and what they leave subscribed.                  *)

Fresh(x, log) == [trigger |-> x.trigger, controller |-> x.controller, source |-> x.source,
                  turn |-> log.turn, sequence |-> log.next]
Hearing(g, event) == {x \in Range(g.subs) : Hears([g EXCEPT !.log = AppendEvent(@, event)], x, event)}

LEMMA HearsFacts ==
  ASSUME NEW h, NEW x \in Subscriptions, NEW event, Hears(h, x, event)
  PROVE  /\ x.event = "enters" => event.kind = "moved" /\ event.object = x.source /\ event.to = "battlefield"
         /\ event.kind = "drawn" => event.player # x.controller
<1>1. x.event \in {"enters", "upkeep", "draws"}
  BY DEF Subscriptions, Happenings
<1> QED BY <1>1 DEF Hears

LEMMA EmitFacts ==
  ASSUME NEW g \in States, NEW event \in Occurrences, AppendEvent(g.log, event) \in Logs, IsInjective(g.subs)
  PROVE  LET new == Emit(g, event)
         IN /\ new \in States
            /\ new.zone = g.zone /\ new.stack = g.stack /\ new.log = AppendEvent(g.log, event)
            /\ new.nextTrigger = g.nextTrigger /\ new.nextEntry = g.nextEntry
            /\ IsInjective(new.subs)
            /\ Range(new.subs) = {x \in Range(g.subs) : x \in Hearing(g, event) => ~x.once}
            /\ Range(new.pending) = Range(g.pending) \cup {Fresh(x, g.log) : x \in Hearing(g, event)}
<1> DEFINE new == Emit(g, event)
           log == AppendEvent(g.log, event)
           logged == [g EXCEPT !.log = log]
           hearing == Hearing(g, event)
           heard == Keep(g.subs, hearing)
           queued == [i \in DOMAIN heard |-> Fresh(heard[i], g.log)]
           staying == {x \in Range(g.subs) : x \in hearing => ~x.once}
           subs == Keep(g.subs, staying)
           pending == g.pending \o queued
<1>1. /\ g.subs \in Seq(Subscriptions) /\ g.pending \in Seq(Pendings) /\ g.log.turn \in Nat /\ g.log.next \in Nat
  BY DEF States, Logs
<1>2. /\ logged.subs = g.subs /\ logged.pending = g.pending /\ logged.log = log
      /\ logged.zone = g.zone /\ logged.stack = g.stack
      /\ logged.nextTrigger = g.nextTrigger /\ logged.nextEntry = g.nextEntry
      /\ logged \in States
  BY DEF States
<1>3. new = [logged EXCEPT !.pending = pending, !.subs = subs]
  <2>1. hearing = {x \in Range(logged.subs) : Hears(logged, x, event)}
    BY <1>2 DEF Hearing
  <2>2. queued = [i \in DOMAIN heard |->
            [trigger |-> heard[i].trigger, controller |-> heard[i].controller, source |-> heard[i].source,
             turn |-> g.log.turn, sequence |-> g.log.next]]
    BY DEF Fresh
  <2>3. new = QueueTriggers(logged, [sequence |-> g.log.next, turn |-> g.log.turn, event |-> event])
    BY DEF Emit
  <2> HIDE DEF new, logged, hearing
  <2> QED BY <1>2, <2>1, <2>2, <2>3 DEF QueueTriggers
<1>4. heard \in Seq(Subscriptions) /\ Range(heard) = Range(g.subs) \cap hearing
  <2> HIDE DEF hearing
  <2> QED BY <1>1, KeepFacts
<1>5. subs \in Seq(Subscriptions) /\ Range(subs) = Range(g.subs) \cap staying /\ IsInjective(subs)
  <2> HIDE DEF staying
  <2> QED BY <1>1, KeepFacts
<1>6. hearing \subseteq Range(g.subs)
  BY DEF Hearing
<1> HIDE DEF heard, hearing
<1>7. /\ queued \in Seq(Pendings)
      /\ Range(queued) = {Fresh(x, g.log) : x \in hearing}
  <2>1. DOMAIN heard = 1 .. Len(heard) /\ Len(heard) \in Nat /\ \A i \in 1 .. Len(heard) : heard[i] \in Subscriptions
    BY <1>4
  <2>2. \A x \in Subscriptions : Fresh(x, g.log) \in Pendings
    BY <1>1 DEF Fresh, Subscriptions, Pendings
  <2>3. queued \in Seq(Pendings)
    BY <2>1, <2>2
  <2>4. DOMAIN queued = DOMAIN heard /\ \A i \in DOMAIN heard : queued[i] = Fresh(heard[i], g.log)
    OBVIOUS
  <2>5. Range(heard) = hearing
    BY <1>4, <1>6
  <2> HIDE DEF queued
  <2>6. Range(queued) = {Fresh(x, g.log) : x \in hearing}
    BY <2>4, <2>5 DEF Range
  <2> QED BY <2>3, <2>6
<1> HIDE DEF queued
<1>8. pending \in Seq(Pendings) /\ Range(pending) = Range(g.pending) \cup Range(queued)
  BY <1>1, <1>7, ConcatFacts
<1> HIDE DEF subs, pending, logged
<1>9. /\ new \in States
      /\ new.zone = g.zone /\ new.stack = g.stack /\ new.log = log
      /\ new.nextTrigger = g.nextTrigger /\ new.nextEntry = g.nextEntry
      /\ new.subs = subs /\ new.pending = pending
  BY <1>2, <1>3, <1>5, <1>8 DEF States
<1> HIDE DEF new
<1>10. Range(new.subs) = staying
  BY <1>5, <1>9
<1> QED BY <1>5, <1>7, <1>8, <1>9, <1>10 DEF new, hearing

LEMMA RecordsAreOld ==
  ASSUME NEW log \in Logs, NEW start, LogFits(log, start), NEW r \in Range(log.events)
  PROVE  r \in Records /\ r.sequence < log.next
<1>1. /\ log.next \in Nat /\ log.events \in Seq(Records) /\ Len(log.events) \in Nat
      /\ DOMAIN log.events = 1 .. Len(log.events)
      /\ \A i \in 1 .. Len(log.events) : log.events[i].sequence = log.next - Len(log.events) + i - 1
  BY DEF Logs, LogFits
<1>2. PICK i \in 1 .. Len(log.events) : r = log.events[i]
  BY <1>1 DEF Range
<1>3. log.next - Len(log.events) + i - 1 < log.next
  BY <1>1
<1>4. r.sequence = log.next - Len(log.events) + i - 1
  BY <1>1, <1>2
<1> QED BY <1>1, <1>2, <1>3, <1>4

\* The kernel's state after an event: only a one-shot trigger of a card that
\* entered is no longer subscribed.
LEMMA EmitCore ==
  ASSUME NEW g, NEW start, NEW rows, Core(g, start, rows), NEW event \in Occurrences
  PROVE  LET new == Emit(g, event)
         IN /\ Core(new, start, rows)
            /\ new.zone = g.zone /\ new.stack = g.stack
            /\ new.nextTrigger = g.nextTrigger /\ new.nextEntry = g.nextEntry
            /\ Range(new.subs) \subseteq Range(g.subs)
            /\ \A x \in Range(g.subs) : \/ x \in Range(new.subs)
                                        \/ /\ x.once /\ event.kind = "moved"
                                           /\ event.object = x.source /\ event.to = "battlefield"
<1> DEFINE new == Emit(g, event)
           log == AppendEvent(g.log, event)
           record == [sequence |-> g.log.next, turn |-> g.log.turn, event |-> event]
           hearing == Hearing(g, event)
<1>1. /\ g \in States /\ rows \subseteq Rows /\ LogFits(g.log, start.next) /\ PendingFits(g, start.next) /\ g.log.turn = start.turn
      /\ RowsFit(g, rows) /\ SubsFit(g, rows) /\ WaitingFits(g, rows)
      /\ g.log \in Logs /\ g.subs \in Seq(Subscriptions) /\ g.pending \in Seq(Pendings)
      /\ IsInjective(g.subs) /\ g.log.next \in Nat /\ g.log.turn \in Nat /\ start.next \in Nat
  BY DEF Core, States, SubsFit, Logs, LogFits
<1>2. /\ log \in Logs /\ LogFits(log, start.next) /\ log.turn = g.log.turn /\ log.next = g.log.next + 1
      /\ Range(log.events) \subseteq Range(g.log.events) \cup {record}
  BY <1>1, LogGrows
<1>3. /\ new \in States
      /\ new.zone = g.zone /\ new.stack = g.stack /\ new.log = log
      /\ new.nextTrigger = g.nextTrigger /\ new.nextEntry = g.nextEntry
      /\ IsInjective(new.subs)
      /\ Range(new.subs) = {x \in Range(g.subs) : x \in hearing => ~x.once}
      /\ Range(new.pending) = Range(g.pending) \cup {Fresh(x, g.log) : x \in hearing}
  BY <1>1, <1>2, EmitFacts
<1>4. /\ \A x \in Range(g.subs) : x \in Subscriptions
      /\ \A p \in Range(g.pending) : p \in Pendings
  BY <1>1 DEF Range
<1>5. hearing \subseteq Range(g.subs)
  BY DEF Hearing
<1>6. \A x \in hearing : /\ x.event = "enters" => event.kind = "moved" /\ event.object = x.source /\ event.to = "battlefield"
                         /\ event.kind = "drawn" => event.player # x.controller
  BY <1>4, HearsFacts DEF Hearing
<1>7. event.kind = "drawn" => event.player \in Players
  BY DEF Occurrences
<1> HIDE DEF new, log, hearing
<1>8. PendingFits(new, start.next)
  <2> SUFFICES ASSUME NEW p \in Range(new.pending)
               PROVE  /\ p.turn = log.turn /\ start.next <= p.sequence /\ p.sequence < log.next
                      /\ \A r \in Range(log.events) : r.sequence = p.sequence /\ r.event.kind = "drawn" =>
                            r.event.player \in Players \ {p.controller}
    BY <1>3 DEF PendingFits
  <2>1. CASE p \in Range(g.pending)
    <3>1. /\ p.turn = g.log.turn /\ start.next <= p.sequence /\ p.sequence < g.log.next /\ p.sequence \in Nat
          /\ \A r \in Range(g.log.events) : r.sequence = p.sequence /\ r.event.kind = "drawn" =>
                r.event.player \in Players \ {p.controller}
      BY <1>1, <1>4, <2>1 DEF PendingFits, Pendings
    <3>2. p.sequence < log.next /\ record.sequence # p.sequence
      BY <1>1, <1>2, <3>1
    <3> HIDE DEF record
    <3> QED BY <1>2, <3>1, <3>2
  <2>2. CASE p \in {Fresh(x, g.log) : x \in hearing}
    <3>1. PICK x \in hearing : p = Fresh(x, g.log)
      BY <2>2
    <3>2. p.turn = g.log.turn /\ p.sequence = g.log.next /\ p.controller = x.controller
      BY <3>1 DEF Fresh
    <3>3. start.next <= p.sequence /\ p.sequence < log.next
      BY <1>1, <1>2, <3>2 DEF LogFits
    <3>4. ASSUME NEW r \in Range(log.events), r.sequence = p.sequence, r.event.kind = "drawn"
          PROVE  r.event.player \in Players \ {p.controller}
      <4>1. CASE r \in Range(g.log.events)
        <5>1. r.sequence < g.log.next
          BY <1>1, <4>1, RecordsAreOld
        <5> QED BY <1>1, <3>2, <3>4, <5>1
      <4>2. CASE r = record
        BY <1>6, <1>7, <3>1, <3>2, <3>4, <4>2
      <4> QED BY <1>2, <4>1, <4>2
    <3> QED BY <1>2, <3>2, <3>3, <3>4
  <2> QED BY <1>3, <2>1, <2>2
<1>9. RowsFit(new, rows)
  BY <1>1, <1>3 DEF RowsFit
<1>10. SubsFit(new, rows)
  BY <1>1, <1>3 DEF SubsFit
<1>11. WaitingFits(new, rows)
  <2>1. Waiting(new) = Waiting(g) \cup {x.trigger : x \in hearing}
    <3>1. \A x \in hearing : Fresh(x, g.log).trigger = x.trigger
      BY DEF Fresh
    <3>2. {p.trigger : p \in Range(new.pending)} = {p.trigger : p \in Range(g.pending)} \cup {x.trigger : x \in hearing}
      BY <1>3, <3>1
    <3> QED BY <1>3, <3>2 DEF Waiting
  <2>2. \A t \in Waiting(new) : \E r \in rows : r.trigger = t
    BY <1>1, <1>5, <2>1 DEF WaitingFits, SubsFit
  <2>3. ASSUME NEW y \in Range(new.subs), y.once
        PROVE  y.trigger \notin Waiting(new)
    <3>1. y \in Range(g.subs) /\ y \notin hearing
      BY <1>3, <2>3
    <3>2. y.trigger \notin Waiting(g)
      BY <1>1, <2>3, <3>1 DEF WaitingFits
    <3>3. \A x \in hearing : x.trigger # y.trigger
      BY <1>1, <1>5, <3>1 DEF SubsFit
    <3> QED BY <2>1, <3>2, <3>3
  <2> QED BY <2>2, <2>3 DEF WaitingFits
<1>12. Core(new, start, rows)
  BY <1>1, <1>2, <1>3, <1>8, <1>9, <1>10, <1>11 DEF Core
<1>13. ASSUME NEW x \in Range(g.subs), x \notin Range(new.subs)
       PROVE  /\ x.once /\ event.kind = "moved"
              /\ event.object = x.source /\ event.to = "battlefield"
  <2>1. x \in hearing /\ x.once
    BY <1>3, <1>13
  <2>2. PICK r \in rows : x.event = AbilityIn(r).event /\ (x.once <=> Conditional(r))
    BY <1>1 DEF SubsFit
  <2>3. x.event = "enters"
    BY <1>1, <2>1, <2>2, RowTypes
  <2> QED BY <1>6, <2>1, <2>3
<1>14. Range(new.subs) \subseteq Range(g.subs)
  BY <1>3
<1> QED BY <1>3, <1>12, <1>13, <1>14 DEF new

----------------------------------------------------------------------------
(* Moves.                                                                   *)

\* Cards and entries may change as long as nothing new waits.
LEMMA CoreFrame ==
  ASSUME NEW g, NEW start, NEW rows, Core(g, start, rows), NEW new \in States,
         new.log = g.log, new.subs = g.subs, new.pending = g.pending, new.nextTrigger = g.nextTrigger,
         Waiting(new) \subseteq Waiting(g)
  PROVE  Core(new, start, rows)
<1>1. LogFits(new.log, start.next) /\ PendingFits(new, start.next) /\ RowsFit(new, rows) /\ SubsFit(new, rows)
  BY DEF Core, PendingFits, RowsFit, SubsFit
<1>2. WaitingFits(new, rows)
  BY DEF Core, WaitingFits
<1> QED BY <1>1, <1>2 DEF Core

LEMMA MoveCore ==
  ASSUME NEW g, NEW start, NEW rows, Core(g, start, rows), NEW c \in Cards, NEW to \in Zones
  PROVE  LET new == Move(g, c, to)
         IN /\ Core(new, start, rows)
            /\ new.zone = [g.zone EXCEPT ![c] = to] /\ new.stack = g.stack
            /\ new.nextTrigger = g.nextTrigger /\ new.nextEntry = g.nextEntry
            /\ Range(new.subs) \subseteq Range(g.subs)
            /\ \A x \in Range(g.subs) : \/ x \in Range(new.subs)
                                        \/ x.once /\ x.source = c /\ to = "battlefield"
<1> DEFINE new == Move(g, c, to)
<1>1. g \in States /\ g.zone \in [Cards -> Zones]
  BY DEF Core, States
<1>2. CASE g.zone[c] = to
  <2>1. new = g
    BY <1>2 DEF Move
  <2>2. g.zone = [g.zone EXCEPT ![c] = to]
    BY <1>1, <1>2
  <2> HIDE DEF new
  <2> QED BY <2>1, <2>2 DEF new
<1>3. CASE g.zone[c] # to
  <2> DEFINE moved == [g EXCEPT !.zone[c] = to]
             event == [kind |-> "moved", object |-> c, to |-> to, player |-> None]
  <2>1. new = Emit(moved, event)
    BY <1>3 DEF Move
  <2>2. [g.zone EXCEPT ![c] = to] \in [Cards -> Zones]
    BY <1>1
  <2>3. /\ moved.zone = [g.zone EXCEPT ![c] = to] /\ moved.stack = g.stack /\ moved.log = g.log
        /\ moved.subs = g.subs /\ moved.pending = g.pending
        /\ moved.nextTrigger = g.nextTrigger /\ moved.nextEntry = g.nextEntry
        /\ moved \in States
    BY <1>1, <2>2 DEF States
  <2>4. event \in Occurrences
    BY DEF Occurrences, Places, Zones
  <2>5. event.kind = "moved" /\ event.object = c /\ event.to = to
    OBVIOUS
  <2> HIDE DEF moved, event, new
  <2>6. Waiting(moved) = Waiting(g)
    BY <2>3 DEF Waiting
  <2>7. Core(moved, start, rows)
    BY <2>3, <2>6, CoreFrame
  <2>8. LET after == Emit(moved, event)
        IN /\ Core(after, start, rows)
           /\ after.zone = moved.zone /\ after.stack = moved.stack
           /\ after.nextTrigger = moved.nextTrigger /\ after.nextEntry = moved.nextEntry
           /\ Range(after.subs) \subseteq Range(moved.subs)
           /\ \A x \in Range(moved.subs) : \/ x \in Range(after.subs)
                                           \/ /\ x.once /\ event.kind = "moved"
                                              /\ event.object = x.source /\ event.to = "battlefield"
    BY <2>4, <2>7, EmitCore, Z3
  <2> QED BY <2>1, <2>3, <2>5, <2>8 DEF new
<1> QED BY <1>2, <1>3

Sound(g, start, rows, known, table, moving) ==
    /\ Core(g, start, rows) /\ CardFits(g) /\ known \subseteq Cards
    /\ TableFits(table, rows) /\ Exact(g, rows, known, table, moving)

\* No other card moved, and only one-shot triggers of c are gone.
Spares(g, new, c) ==
    /\ \A d \in Cards \ {c} : new.zone[d] = g.zone[d]
    /\ Range(new.subs) \subseteq Range(g.subs)
    /\ \A x \in Range(g.subs) : x \in Range(new.subs) \/ (x.once /\ x.source = c)

\* What is called for stays subscribed when one card loses one-shot triggers
\* after it left the stack.
LEMMA ExactFrame ==
  ASSUME NEW g, NEW start, NEW rows, Core(g, start, rows), NEW known, NEW table, TableFits(table, rows),
         NEW moving, Exact(g, rows, known, table, moving),
         NEW new, NEW c \in Cards, c \in moving \/ table[c] = <<>>, Spares(g, new, c)
  PROVE  Exact(new, rows, known, table, moving)
<1> USE DEF Spares
<1>1. /\ rows \subseteq Rows
      /\ \A q, r \in rows : q.trigger = r.trigger => q = r
      /\ \A x \in Range(g.subs) : \E r \in rows :
            r.trigger = x.trigger /\ r.source = x.source /\ (x.once <=> Conditional(r))
  BY DEF Core, RowsFit, SubsFit
<1>2. \A t : Subscribed(new, t) => Subscribed(g, t)
  BY DEF Subscribed
<1>3. ASSUME NEW r \in rows, Subscribed(g, r.trigger), ~Conditional(r) \/ r.source # c
      PROVE  Subscribed(new, r.trigger)
  <2>1. PICK x \in Range(g.subs) : x.trigger = r.trigger
    BY <1>3 DEF Subscribed
  <2>2. r.source = x.source /\ (x.once <=> Conditional(r))
    BY <1>1, <2>1
  <2>3. x \in Range(new.subs)
    BY <1>3, <2>2
  <2> QED BY <2>1, <2>3 DEF Subscribed
<1>4. ASSUME NEW r \in rows, ~Conditional(r)
      PROVE  /\ r.source \in known /\ Subscribed(new, r.trigger)
             /\ \A q \in rows : q.source = r.source /\ q.ability = r.ability => q = r
  BY <1>3, <1>4 DEF Exact
<1>5. ASSUME NEW r \in rows, Conditional(r), Subscribed(new, r.trigger)
      PROVE  r.trigger \in Range(table[r.source])
  BY <1>2, <1>5 DEF Exact
<1>6. ASSUME NEW d \in Cards \ moving, table[d] # <<>>
      PROVE  new.zone[d] = "stack" /\ \A t \in Range(table[d]) : Subscribed(new, t)
  <2>1. d # c
    BY <1>6
  <2>2. g.zone[d] = "stack" /\ \A t \in Range(table[d]) : Subscribed(g, t)
    BY <1>6 DEF Exact
  <2>3. ASSUME NEW t \in Range(table[d])
        PROVE  Subscribed(new, t)
    <3>1. PICK r \in rows : r.trigger = t /\ r.source = d
      BY <2>3 DEF TableFits
    <3> QED BY <1>3, <2>1, <2>2, <2>3, <3>1
  <2> QED BY <2>1, <2>2, <2>3
<1>7. \A d \in known : \A a \in DOMAIN Text[d].abilities : Text[d].abilities[a].alternate = "none" =>
         \E r \in rows : r.source = d /\ r.ability = a
  BY DEF Exact
<1> QED BY <1>4, <1>5, <1>6, <1>7 DEF Exact

LEMMA CardFrame ==
  ASSUME NEW g, CardFits(g), g.zone \in [Cards -> Zones], NEW new, NEW c \in Cards, NEW to,
         g.zone[c] # "stack", to # "stack",
         new.zone = [g.zone EXCEPT ![c] = to], new.stack = g.stack, new.nextEntry = g.nextEntry
  PROVE  CardFits(new)
<1>1. \A d \in Cards : new.zone[d] = "stack" <=> g.zone[d] = "stack"
  OBVIOUS
<1>2. \A e \in Range(g.stack) : e.object # None /\ EntryFits(g, e) => e.object # c
  BY DEF EntryFits
<1>3. ASSUME NEW e \in Range(g.stack), EntryFits(g, e)
      PROVE  EntryFits(new, e)
  <2>1. e.object # None => new.zone[e.object] = "stack"
    <3> SUFFICES ASSUME e.object # None PROVE new.zone[e.object] = "stack"
      OBVIOUS
    <3>1. g.zone[e.object] = "stack" /\ e.object # c
      BY <1>2, <1>3 DEF EntryFits
    <3>2. CASE e.object \in Cards
      BY <1>1, <3>1, <3>2
    <3>3. CASE e.object \notin Cards
      BY <3>1, <3>3
    <3> QED BY <3>2, <3>3
  <2> QED BY <1>3, <2>1 DEF EntryFits
<1>4. StackFits(new)
  BY <1>3 DEF CardFits, StackFits
<1> QED BY <1>1, <1>4 DEF CardFits

LEMMA MoveSound ==
  ASSUME NEW g, NEW start, NEW rows, NEW known, NEW table, NEW moving,
         Sound(g, start, rows, known, table, moving),
         NEW c \in Cards, NEW to \in Zones \ {"stack"}, g.zone[c] # "stack"
  PROVE  LET new == Move(g, c, to)
         IN /\ Sound(new, start, rows, known, table, moving)
            /\ new.zone = [g.zone EXCEPT ![c] = to] /\ new.stack = g.stack
            /\ new.nextTrigger = g.nextTrigger /\ new.nextEntry = g.nextEntry
<1> DEFINE new == Move(g, c, to)
<1>1. /\ Core(new, start, rows)
      /\ new.zone = [g.zone EXCEPT ![c] = to] /\ new.stack = g.stack
      /\ new.nextTrigger = g.nextTrigger /\ new.nextEntry = g.nextEntry
      /\ Range(new.subs) \subseteq Range(g.subs)
      /\ \A x \in Range(g.subs) : x \in Range(new.subs) \/ (x.once /\ x.source = c /\ to = "battlefield")
  BY MoveCore DEF Sound
<1> HIDE DEF new
<1>2. g.zone \in [Cards -> Zones]
  BY DEF Sound, Core, States
<1>3. CardFits(new)
  BY <1>1, <1>2, CardFrame DEF Sound
<1>4. c \in moving \/ table[c] = <<>>
  BY DEF Sound, Exact
<1>5. Exact(new, rows, known, table, moving)
  <2>1. \A d \in Cards \ {c} : new.zone[d] = g.zone[d]
    BY <1>1, <1>2
  <2>2. \A x \in Range(g.subs) : x \in Range(new.subs) \/ (x.once /\ x.source = c)
    BY <1>1
  <2>3. Core(g, start, rows) /\ TableFits(table, rows) /\ Exact(g, rows, known, table, moving)
    BY DEF Sound
  <2>4. Spares(g, new, c)
    BY <1>1, <2>1, <2>2 DEF Spares
  <2> QED BY <1>4, <2>3, <2>4, ExactFrame
<1> QED BY <1>1, <1>3, <1>5 DEF Sound, new

\* A card drawn, and the beginning of an upkeep: nothing is lost.
LEMMA EmitSound ==
  ASSUME NEW g, NEW start, NEW rows, NEW known, NEW table, NEW moving,
         Sound(g, start, rows, known, table, moving),
         NEW event \in Occurrences, event.kind # "moved"
  PROVE  LET new == Emit(g, event)
         IN /\ Sound(new, start, rows, known, table, moving)
            /\ new.zone = g.zone /\ new.stack = g.stack
            /\ new.nextTrigger = g.nextTrigger /\ new.nextEntry = g.nextEntry
<1> DEFINE new == Emit(g, event)
<1>1. /\ Core(new, start, rows)
      /\ new.zone = g.zone /\ new.stack = g.stack
      /\ new.nextTrigger = g.nextTrigger /\ new.nextEntry = g.nextEntry
      /\ Range(new.subs) \subseteq Range(g.subs)
      /\ \A x \in Range(g.subs) : x \in Range(new.subs) \/ event.kind = "moved"
  BY EmitCore, Z3 DEF Sound
<1> HIDE DEF new
<1>2. Range(new.subs) = Range(g.subs)
  BY <1>1
<1>3. CardFits(new)
  BY <1>1 DEF Sound, CardFits, StackFits, EntryFits
<1>4. Exact(new, rows, known, table, moving)
  <2>1. \A t : Subscribed(new, t) <=> Subscribed(g, t)
    BY <1>2 DEF Subscribed
  <2> QED BY <1>1, <2>1 DEF Sound, Exact
<1> QED BY <1>1, <1>3, <1>4 DEF Sound, new

----------------------------------------------------------------------------
(* Draws, and the dead.                                                     *)

LEMMA DrawStays ==
  ASSUME NEW G, NEW g \in G, NEW player, NEW n \in Nat,
         \A h \in G : Emit(h, [kind |-> "drawn", object |-> None, to |-> "hand", player |-> player]) \in G
  PROVE  Draw(g, player, n) \in G
<1> DEFINE event == [kind |-> "drawn", object |-> None, to |-> "hand", player |-> player]
           Is(f) == f = [i \in 0 .. n |-> IF i = 0 THEN g ELSE Emit(f[i - 1], event)]
           F == CHOOSE f : Is(f)
           step == [i \in 1 .. n |-> [h \in G |-> Emit(h, event)]]
           Gs == [i \in 0 .. n |-> G]
<1>1. Draw(g, player, n) = F[n]
  BY DEF Draw
<1>2. \E f : Is(f)
  <2>1. g \in Gs[0] /\ \A i \in 1 .. n : \A h \in Gs[i - 1] : step[i][h] \in Gs[i]
    OBVIOUS
  <2>2. PICK f : Recursion(f, n, g, step) /\ \A i \in 0 .. n : f[i] \in Gs[i]
    <3> HIDE DEF step, Gs
    <3> QED BY <2>1, RecursionStays
  <2>3. \A i \in 1 .. n : step[i][f[i - 1]] = Emit(f[i - 1], event)
    <3> SUFFICES ASSUME NEW i \in 1 .. n PROVE step[i][f[i - 1]] = Emit(f[i - 1], event)
      OBVIOUS
    <3>1. i - 1 \in 0 .. n /\ Gs[i - 1] = G
      OBVIOUS
    <3>2. f[i - 1] \in G
      BY <2>2, <3>1
    <3> HIDE DEF event
    <3> QED BY <3>2
  <2>4. \A i \in 0 .. n : i = 0 \/ i \in 1 .. n
    OBVIOUS
  <2>5. Is(f)
    <3> HIDE DEF step, Gs, event
    <3> QED BY <2>2, <2>3, <2>4 DEF Recursion
  <2> HIDE DEF Is
  <2> QED BY <2>5
<1>3. Is(F)
  <2> HIDE DEF Is
  <2> QED BY <1>2
<1> HIDE DEF F, event
<1> DEFINE T == {i \in 0 .. n : F[i] \in G}
<1>4. 0 \in T
  BY <1>3
<1>5. ASSUME NEW i \in 0 .. n, i > 0, i - 1 \in T
      PROVE  i \in T
  <2>1. F[i] = Emit(F[i - 1], event)
    BY <1>3, <1>5
  <2> QED BY <1>5, <2>1 DEF event
<1>6. \A i \in 0 .. n : i \in T
  <2> HIDE DEF T
  <2> QED BY <1>4, <1>5, UpTo
<1> QED BY <1>1, <1>6

LEMMA BuryStays ==
  ASSUME NEW G, NEW g \in G, NEW dead, Len(dead) \in Nat,
         \A h \in G : \A i \in 1 .. Len(dead) : Move(h, dead[i], "graveyard") \in G
  PROVE  Bury(g, dead) \in G
<1> DEFINE n == Len(dead)
           Is(f) == f = [i \in 0 .. n |-> IF i = 0 THEN g ELSE Move(f[i - 1], dead[i], "graveyard")]
           F == CHOOSE f : Is(f)
           step == [i \in 1 .. n |-> [h \in G |-> Move(h, dead[i], "graveyard")]]
           Gs == [i \in 0 .. n |-> G]
<1>1. Bury(g, dead) = F[n]
  BY DEF Bury
<1>2. \E f : Is(f)
  <2>1. g \in Gs[0] /\ \A i \in 1 .. n : \A h \in Gs[i - 1] : step[i][h] \in Gs[i]
    OBVIOUS
  <2>2. PICK f : Recursion(f, n, g, step) /\ \A i \in 0 .. n : f[i] \in Gs[i]
    <3> HIDE DEF step, Gs
    <3> QED BY <2>1, RecursionStays
  <2>3. \A i \in 1 .. n : step[i][f[i - 1]] = Move(f[i - 1], dead[i], "graveyard")
    <3> SUFFICES ASSUME NEW i \in 1 .. n PROVE step[i][f[i - 1]] = Move(f[i - 1], dead[i], "graveyard")
      OBVIOUS
    <3>1. i - 1 \in 0 .. n /\ Gs[i - 1] = G
      OBVIOUS
    <3>2. f[i - 1] \in G
      BY <2>2, <3>1
    <3> QED BY <3>2
  <2>4. \A i \in 0 .. n : i = 0 \/ i \in 1 .. n
    OBVIOUS
  <2>5. Is(f)
    <3> HIDE DEF step, Gs
    <3> QED BY <2>2, <2>3, <2>4 DEF Recursion
  <2> HIDE DEF Is
  <2> QED BY <2>5
<1>3. Is(F)
  <2> HIDE DEF Is
  <2> QED BY <1>2
<1> HIDE DEF F
<1> DEFINE T == {i \in 0 .. n : F[i] \in G}
<1>4. 0 \in T
  BY <1>3
<1>5. ASSUME NEW i \in 0 .. n, i > 0, i - 1 \in T
      PROVE  i \in T
  <2>1. F[i] = Move(F[i - 1], dead[i], "graveyard") /\ i \in 1 .. n
    BY <1>3, <1>5
  <2> QED BY <1>5, <2>1
<1>6. \A i \in 0 .. n : i \in T
  <2> HIDE DEF T
  <2> QED BY <1>4, <1>5, UpTo
<1> QED BY <1>1, <1>6

\* What the graveyard may take from the battlefield.
Buried(g, h) ==
    \A c \in Cards :
        h.zone[c] = g.zone[c] \/ (c \in Mortal /\ g.zone[c] = "battlefield" /\ h.zone[c] = "graveyard")

LEMMA BurySound ==
  ASSUME NEW g, NEW start, NEW rows, NEW known, NEW table, NEW moving,
         Sound(g, start, rows, known, table, moving), NEW dead \in Deaths(g)
  PROVE  LET new == Bury(g, dead)
         IN /\ Sound(new, start, rows, known, table, moving) /\ Buried(g, new)
            /\ new.stack = g.stack /\ new.nextTrigger = g.nextTrigger /\ new.nextEntry = g.nextEntry
<1> DEFINE doomed == {c \in Mortal : g.zone[c] = "battlefield"}
           G == {h \in States : /\ Sound(h, start, rows, known, table, moving) /\ Buried(g, h)
                                /\ h.stack = g.stack /\ h.nextTrigger = g.nextTrigger /\ h.nextEntry = g.nextEntry}
<1>1. doomed \subseteq Cards /\ doomed \subseteq Mortal
  BY RuntimeAssumption
<1>2. Cardinality(doomed) \in Nat
  BY <1>1, SpellStackAssumption, FS_Subset, FS_CardinalityType
<1>3. dead \in Seq(doomed) /\ Len(dead) \in Nat /\ \A i \in 1 .. Len(dead) : dead[i] \in doomed
  <2>1. dead \in SeqOf(doomed, Cardinality(doomed))
    BY DEF Deaths
  <2> HIDE DEF doomed
  <2>2. PICK m \in 0 .. Cardinality(doomed) : dead \in [1 .. m -> doomed]
    BY <2>1 DEF SeqOf
  <2>3. m \in Nat
    BY <1>2
  <2> QED BY <2>2, <2>3
<1>4. g \in G
  <2>1. g \in States
    BY DEF Sound, Core
  <2>2. Buried(g, g)
    BY DEF Buried
  <2> QED BY <2>1, <2>2
<1>5. ASSUME NEW h \in G, NEW c \in doomed
      PROVE  Move(h, c, "graveyard") \in G
  <2> DEFINE new == Move(h, c, "graveyard")
  <2>1. c \in Cards /\ c \in Mortal /\ g.zone[c] = "battlefield"
    BY <1>1
  <2>2. h.zone[c] # "stack"
    BY <1>5, <2>1 DEF Buried
  <2>3. "graveyard" \in Zones \ {"stack"}
    BY DEF Zones
  <2>4. /\ Sound(new, start, rows, known, table, moving)
        /\ new.zone = [h.zone EXCEPT ![c] = "graveyard"] /\ new.stack = h.stack
        /\ new.nextTrigger = h.nextTrigger /\ new.nextEntry = h.nextEntry
    BY <1>5, <2>1, <2>2, <2>3, MoveSound
  <2> HIDE DEF new
  <2>5. new \in States /\ h.zone \in [Cards -> Zones]
    BY <1>5, <2>4 DEF Sound, Core, States
  <2>6. Buried(g, new)
    BY <1>5, <2>1, <2>4, <2>5 DEF Buried
  <2> QED BY <1>5, <2>4, <2>5, <2>6 DEF new
<1>6. Bury(g, dead) \in G
  <2>1. \A h \in G : \A i \in 1 .. Len(dead) : Move(h, dead[i], "graveyard") \in G
    BY <1>3, <1>5
  <2> HIDE DEF G
  <2> QED BY <1>3, <1>4, <2>1, BuryStays
<1> QED BY <1>6

LEMMA DrawSound ==
  ASSUME NEW g, NEW start, NEW rows, NEW known, NEW table, NEW moving,
         Sound(g, start, rows, known, table, moving), NEW player \in Players, NEW n \in Nat
  PROVE  LET new == Draw(g, player, n)
         IN /\ Sound(new, start, rows, known, table, moving)
            /\ new.zone = g.zone /\ new.stack = g.stack
            /\ new.nextTrigger = g.nextTrigger /\ new.nextEntry = g.nextEntry
<1> DEFINE G == {h \in States : /\ Sound(h, start, rows, known, table, moving)
                                /\ h.zone = g.zone /\ h.stack = g.stack
                                /\ h.nextTrigger = g.nextTrigger /\ h.nextEntry = g.nextEntry}
           event == [kind |-> "drawn", object |-> None, to |-> "hand", player |-> player]
<1>1. g \in G
  BY DEF Sound, Core
<1>2. event \in Occurrences /\ event.kind # "moved"
  BY DEF Occurrences, Places, Zones
<1>3. ASSUME NEW h \in G
      PROVE  Emit(h, event) \in G
  <2> DEFINE new == Emit(h, event)
  <2> HIDE DEF event
  <2>1. /\ Sound(new, start, rows, known, table, moving)
        /\ new.zone = h.zone /\ new.stack = h.stack
        /\ new.nextTrigger = h.nextTrigger /\ new.nextEntry = h.nextEntry
    BY <1>2, <1>3, EmitSound
  <2> HIDE DEF new
  <2>2. new \in States
    BY <2>1 DEF Sound, Core
  <2> QED BY <1>3, <2>1, <2>2 DEF new
<1>4. Draw(g, player, n) \in G
  <2> HIDE DEF G
  <2> QED BY <1>1, <1>3, DrawStays
<1> QED BY <1>4

----------------------------------------------------------------------------
(* Entries leaving the stack, from its top or from the middle.              *)

Removes(stack, rest, e) ==
    rest \in Seq(Entries) /\ IsInjective(rest) /\ e \in Range(stack) /\ Range(rest) = Range(stack) \ {e}

LEMMA TopRemoved ==
  ASSUME NEW stack \in Seq(Entries), IsInjective(stack), stack # <<>>
  PROVE  Removes(stack, Front(stack), Last(stack))
<1> DEFINE n == Len(stack)
           rest == Front(stack)
<1>1. n \in Nat /\ n > 0 /\ DOMAIN stack = 1 .. n /\ \A i \in 1 .. n : stack[i] \in Entries
  OBVIOUS
<1>2. /\ rest \in Seq(Entries) /\ DOMAIN rest = 1 .. n - 1
      /\ \A i \in 1 .. n - 1 : rest[i] = stack[i]
  BY <1>1 DEF Front
<1>3. Last(stack) = stack[n]
  BY DEF Last
<1> HIDE DEF rest, n
<1>10. n \in Nat /\ n > 0
  BY <1>1
<1>4. \A i \in 1 .. n - 1 : i \in 1 .. n /\ i # n
  BY <1>10
<1>5. \A i \in 1 .. n : i = n \/ i \in 1 .. n - 1
  BY <1>10
<1>6. n \in 1 .. n
  BY <1>10
<1>7. IsInjective(rest)
  BY <1>1, <1>2, <1>4 DEF IsInjective
<1>8. ASSUME NEW e
      PROVE  e \in Range(rest) <=> e \in Range(stack) /\ e # stack[n]
  <2>1. ASSUME e \in Range(rest)
        PROVE  e \in Range(stack) /\ e # stack[n]
    <3>1. PICK i \in 1 .. n - 1 : e = rest[i]
      BY <1>2, <2>1 DEF Range
    <3>2. e = stack[i] /\ i \in 1 .. n /\ i # n
      BY <1>2, <1>4, <3>1
    <3> QED BY <1>1, <1>6, <3>2 DEF Range, IsInjective
  <2>2. ASSUME e \in Range(stack), e # stack[n]
        PROVE  e \in Range(rest)
    <3>1. PICK i \in 1 .. n : e = stack[i]
      BY <1>1, <2>2 DEF Range
    <3>2. i \in 1 .. n - 1
      BY <1>5, <2>2, <3>1
    <3> QED BY <1>2, <3>1, <3>2 DEF Range
  <2> QED BY <2>1, <2>2
<1>9. stack[n] \in Range(stack)
  BY <1>1, <1>6 DEF Range
<1> QED BY <1>2, <1>3, <1>7, <1>8, <1>9 DEF Removes, rest

LEMMA NamedRemoved ==
  ASSUME NEW g \in States, StackFits(g), NEW id \in EntryIds(g)
  PROVE  /\ Removes(g.stack, Without(g.stack, id), EntryNamed(g, id))
         /\ EntryNamed(g, id) \in Range(g.stack) /\ EntryNamed(g, id).id = id
<1> DEFINE e == EntryNamed(g, id)
           others == {x \in Range(g.stack) : x.id # id}
<1>1. g.stack \in Seq(Entries) /\ IsInjective(g.stack)
  BY DEF States, StackFits
<1>2. \E x \in Range(g.stack) : x.id = id
  BY DEF EntryIds
<1>3. e \in Range(g.stack) /\ e.id = id
  BY <1>2 DEF EntryNamed
<1> HIDE DEF e
<1>4. others = Range(g.stack) \ {e}
  BY <1>3 DEF StackFits
<1>5. Without(g.stack, id) = Keep(g.stack, others)
  BY DEF Without
<1> HIDE DEF others
<1>6. /\ Keep(g.stack, others) \in Seq(Entries) /\ IsInjective(Keep(g.stack, others))
      /\ Range(Keep(g.stack, others)) = Range(g.stack) \cap others
  BY <1>1, KeepFacts
<1>7. Range(g.stack) \cap others = Range(g.stack) \ {e}
  BY <1>4
<1> QED BY <1>3, <1>5, <1>6, <1>7 DEF Removes, e

\* The state with another stack.
Popped(g, rest, popped) ==
    /\ popped \in States /\ popped.stack = rest /\ popped.zone = g.zone
    /\ popped.subs = g.subs /\ popped.pending = g.pending /\ popped.log = g.log
    /\ popped.nextTrigger = g.nextTrigger /\ popped.nextEntry = g.nextEntry

LEMMA PoppedFits ==
  ASSUME NEW g \in States, NEW rest \in Seq(Entries)
  PROVE  Popped(g, rest, [g EXCEPT !.stack = rest])
BY DEF Popped, States

LEMMA RemovedCore ==
  ASSUME NEW g, NEW start, NEW rows, Core(g, start, rows), NEW rest, NEW e, Removes(g.stack, rest, e),
         NEW popped, Popped(g, rest, popped)
  PROVE  Core(popped, start, rows)
<1>1. Range(rest) \subseteq Range(g.stack)
  BY DEF Removes
<1>2. Waiting(popped) \subseteq Waiting(g)
  BY <1>1 DEF Waiting, Popped
<1> QED BY <1>2, CoreFrame DEF Popped

LEMMA DropSound ==
  ASSUME NEW g, NEW start, NEW rows, NEW known, NEW table, NEW moving,
         Sound(g, start, rows, known, table, moving),
         NEW rest, NEW e, Removes(g.stack, rest, e), e.object = None, NEW new, Popped(g, rest, new)
  PROVE  Sound(new, start, rows, known, table, moving)
<1>1. /\ Core(new, start, rows)
      /\ new.zone = g.zone /\ new.stack = rest /\ new.subs = g.subs
      /\ new.nextTrigger = g.nextTrigger /\ new.nextEntry = g.nextEntry
  BY RemovedCore DEF Sound, Popped
<1>2. IsInjective(rest) /\ Range(rest) = Range(g.stack) \ {e}
  BY DEF Removes
<1>3. StackFits(new)
  BY <1>1, <1>2 DEF Sound, CardFits, StackFits, EntryFits
<1>4. CardFits(new)
  <2> SUFFICES ASSUME NEW c \in Cards, new.zone[c] = "stack"
               PROVE  \E x \in Range(new.stack) : x.object = c
    BY <1>3 DEF CardFits
  <2>1. PICK x \in Range(g.stack) : x.object = c
    BY <1>1 DEF Sound, CardFits
  <2>2. x # e
    BY <2>1, SpellStackAssumption
  <2> QED BY <1>1, <1>2, <2>1, <2>2
<1>5. Exact(new, rows, known, table, moving)
  BY <1>1 DEF Sound, Exact, Subscribed
<1> QED BY <1>1, <1>4, <1>5 DEF Sound

Left(g, rest, c, to, new) ==
    /\ new.zone = [g.zone EXCEPT ![c] = to] /\ new.stack = rest
    /\ new.nextTrigger = g.nextTrigger /\ new.nextEntry = g.nextEntry

LEMMA LeaveFrame ==
  ASSUME NEW g, NEW start, NEW rows, Core(g, start, rows),
         NEW rest, NEW e, Removes(g.stack, rest, e), e.object # None, NEW popped, Popped(g, rest, popped),
         NEW to, to = "battlefield" \/ to = "graveyard", NEW new, new = Move(popped, e.object, to)
  PROVE  Left(g, rest, e.object, to, new)
<1>1. Core(popped, start, rows)
  BY RemovedCore
<1>2. e.object \in Cards
  <2>1. g.stack \in Seq(Entries) /\ e \in Range(g.stack)
    BY DEF Removes, Core, States
  <2>2. e \in Entries
    BY <2>1 DEF Range
  <2> QED BY <2>2 DEF Entries
<1>3. to \in Zones
  BY DEF Zones
<1> DEFINE c == e.object
           after == Move(popped, c, to)
<1>4. /\ after.zone = [popped.zone EXCEPT ![c] = to] /\ after.stack = popped.stack
      /\ after.nextTrigger = popped.nextTrigger /\ after.nextEntry = popped.nextEntry
  <2>1. c \in Cards
    BY <1>2
  <2> HIDE DEF c
  <2> QED BY <1>1, <1>3, <2>1, MoveCore
<1>5. new = after
  OBVIOUS
<1> HIDE DEF after
<1> QED BY <1>4, <1>5 DEF Left, Popped

\* A spell leaves the stack and its card goes where it belongs.
LEMMA LeaveSound ==
  ASSUME NEW g, NEW start, NEW rows, NEW known, NEW table, NEW before,
         Sound(g, start, rows, known, table, before),
         NEW rest, NEW e, Removes(g.stack, rest, e), e.object # None, NEW popped, Popped(g, rest, popped),
         NEW moving, before \subseteq moving, e.object \in moving,
         NEW to, to = "battlefield" \/ to = "graveyard", NEW new, new = Move(popped, e.object, to)
  PROVE  Sound(new, start, rows, known, table, moving)
<1> DEFINE c == e.object
<1>1. /\ Core(popped, start, rows)
      /\ popped.zone = g.zone /\ popped.stack = rest /\ popped.subs = g.subs
      /\ popped.nextTrigger = g.nextTrigger /\ popped.nextEntry = g.nextEntry
  BY RemovedCore DEF Sound, Popped
<1>2. IsInjective(rest) /\ Range(rest) = Range(g.stack) \ {e} /\ e \in Range(g.stack)
  BY DEF Removes
<1>3. g \in States /\ g.zone \in [Cards -> Zones] /\ g.stack \in Seq(Entries)
  BY DEF Sound, Core, States
<1>4. c \in Cards
  <2>1. e \in Entries
    BY <1>2, <1>3 DEF Range
  <2> QED BY <2>1 DEF Entries
<1>5. /\ Core(new, start, rows)
      /\ new.zone = [popped.zone EXCEPT ![c] = to] /\ new.stack = popped.stack
      /\ new.nextTrigger = popped.nextTrigger /\ new.nextEntry = popped.nextEntry
      /\ Range(new.subs) \subseteq Range(popped.subs)
      /\ \A x \in Range(popped.subs) : x \in Range(new.subs) \/ (x.once /\ x.source = c /\ to = "battlefield")
  <2>1. to \in Zones
    BY DEF Zones
  <2> DEFINE after == Move(popped, c, to)
  <2>2. /\ Core(after, start, rows)
        /\ after.zone = [popped.zone EXCEPT ![c] = to] /\ after.stack = popped.stack
        /\ after.nextTrigger = popped.nextTrigger /\ after.nextEntry = popped.nextEntry
        /\ Range(after.subs) \subseteq Range(popped.subs)
        /\ \A x \in Range(popped.subs) : x \in Range(after.subs) \/ (x.once /\ x.source = c /\ to = "battlefield")
    <3> HIDE DEF c
    <3> QED BY <1>1, <1>4, <2>1, MoveCore
  <2>3. new = after
    OBVIOUS
  <2> QED BY <2>2, <2>3
<1>6. \A x \in Range(g.stack) : EntryFits(g, x)
  BY DEF Sound, CardFits, StackFits
<1>7. \A x, y \in Range(g.stack) : x.object = y.object /\ x.object # None => x = y
  BY DEF Sound, CardFits, StackFits
<1>8. ASSUME NEW x \in Range(rest)
      PROVE  EntryFits(new, x)
  <2>1. EntryFits(g, x) /\ x \in Range(g.stack) /\ x # e
    BY <1>2, <1>6, <1>8
  <2>2. x.object # None => x.object # c
    BY <1>2, <1>7, <2>1
  <2>3. x.object # None => x.object \in Cards
    <3>1. x \in Entries
      BY <1>3, <2>1 DEF Range
    <3> QED BY <3>1 DEF Entries
  <2>4. x.object # None => new.zone[x.object] = g.zone[x.object]
    BY <1>1, <1>3, <1>5, <2>2, <2>3
  <2> QED BY <1>1, <1>5, <2>1, <2>4 DEF EntryFits
<1>9. StackFits(new)
  <2>1. \A x, y \in Range(g.stack) : x.id = y.id \/ (x.object = y.object /\ x.object # None) => x = y
    BY DEF Sound, CardFits, StackFits
  <2> QED BY <1>1, <1>2, <1>5, <1>8, <2>1 DEF StackFits
<1>10. CardFits(new)
  <2> SUFFICES ASSUME NEW d \in Cards, new.zone[d] = "stack"
               PROVE  \E x \in Range(new.stack) : x.object = d
    BY <1>9 DEF CardFits
  <2>1. d # c /\ g.zone[d] = "stack"
    BY <1>1, <1>3, <1>4, <1>5
  <2>2. PICK x \in Range(g.stack) : x.object = d
    BY <2>1 DEF Sound, CardFits
  <2> QED BY <1>1, <1>2, <1>5, <2>1, <2>2
<1>11. Exact(new, rows, known, table, moving)
  <2>1. Exact(popped, rows, known, table, moving)
    BY <1>1 DEF Sound, Exact, Subscribed
  <2>2. Spares(popped, new, c)
    BY <1>1, <1>3, <1>4, <1>5 DEF Spares
  <2>3. TableFits(table, rows) /\ c \in moving
    BY DEF Sound
  <2> HIDE DEF c
  <2> QED BY <1>1, <1>4, <2>1, <2>2, <2>3, ExactFrame
<1> QED BY <1>1, <1>5, <1>10, <1>11 DEF Sound

----------------------------------------------------------------------------
(* Conditional triggers retire.                                             *)

Runs == [game : States, runtimes : SUBSET Rows, conditional : Tables, error : Errors]
RunFits(run, start, known, moving) ==
    /\ run \in Runs /\ Core(run.game, start, run.runtimes) /\ CardFits(run.game) /\ known \subseteq Cards
    /\ TableFits(run.conditional, run.runtimes)
    /\ run.error = "Ok" => Exact(run.game, run.runtimes, known, run.conditional, moving)

LEMMA UnregisterCore ==
  ASSUME NEW g, NEW start, NEW rows, Core(g, start, rows), NEW r \in rows, Conditional(r),
         UnregisterError(g, r.trigger) = "Ok"
  PROVE  LET new == Unregister(g, r.trigger)
         IN /\ Core(new, start, rows \ {r})
            /\ new.zone = g.zone /\ new.stack = g.stack /\ new.nextEntry = g.nextEntry
            /\ \A x : x \in Range(new.subs) <=> x \in Range(g.subs) /\ x.trigger # r.trigger
<1> DEFINE t == r.trigger
           others == {x \in Range(g.subs) : x.trigger # t}
           new == Unregister(g, t)
<1>1. /\ g \in States /\ g.subs \in Seq(Subscriptions) /\ rows \subseteq Rows
      /\ LogFits(g.log, start.next) /\ PendingFits(g, start.next)
      /\ RowsFit(g, rows) /\ SubsFit(g, rows) /\ WaitingFits(g, rows)
  BY DEF Core, States
<1> HIDE DEF others
<1>2. /\ Keep(g.subs, others) \in Seq(Subscriptions)
      /\ Range(Keep(g.subs, others)) = Range(g.subs) \cap others
      /\ IsInjective(Keep(g.subs, others))
  BY <1>1, KeepFacts DEF SubsFit
<1>3. new = [g EXCEPT !.subs = Keep(g.subs, others)]
  BY DEF Unregister, others
<1>4. /\ new \in States /\ new.zone = g.zone /\ new.stack = g.stack /\ new.log = g.log /\ new.pending = g.pending
      /\ new.nextTrigger = g.nextTrigger /\ new.nextEntry = g.nextEntry /\ new.subs = Keep(g.subs, others)
  BY <1>1, <1>2, <1>3 DEF States
<1> HIDE DEF new, t
<1>5. Range(new.subs) = {x \in Range(g.subs) : x.trigger # t}
  BY <1>2, <1>4 DEF others
<1>6. t \notin Waiting(g)
  <2>1. UnregisterError(g, t) # "UnknownTrigger"
    BY DEF t
  <2>2. PICK i \in DOMAIN g.subs : g.subs[i].trigger = t
    <3>1. UnregisterError(g, t) = "Ok"
      BY DEF t
    <3> QED BY <3>1 DEF UnregisterError
  <2>3. g.subs[i] \in Range(g.subs)
    BY DEF Range
  <2>4. g.subs[i].once
    <3>1. PICK q \in rows : q.trigger = g.subs[i].trigger /\ (g.subs[i].once <=> Conditional(q))
      BY <1>1, <2>3 DEF SubsFit
    <3>2. q = r
      BY <1>1, <2>2, <3>1 DEF RowsFit, t
    <3> QED BY <3>1, <3>2
  <2> QED BY <1>1, <2>2, <2>3, <2>4 DEF WaitingFits
<1>7. Waiting(new) = Waiting(g)
  BY <1>4 DEF Waiting
<1>8. RowsFit(new, rows \ {r})
  BY <1>1, <1>4 DEF RowsFit
<1>9. SubsFit(new, rows \ {r})
  <2>1. IsInjective(new.subs) /\ Range(new.subs) \subseteq Range(g.subs)
    BY <1>2, <1>4, <1>5
  <2>2. \A x \in Range(new.subs) : x.trigger # r.trigger
    BY <1>5 DEF t
  <2> QED BY <1>1, <2>1, <2>2 DEF SubsFit
<1>10. WaitingFits(new, rows \ {r})
  BY <1>1, <1>5, <1>6, <1>7 DEF WaitingFits, t
<1>11. PendingFits(new, start.next) /\ LogFits(new.log, start.next)
  BY <1>1, <1>4 DEF PendingFits
<1> QED BY <1>1, <1>4, <1>5, <1>8, <1>9, <1>10, <1>11 DEF Core, new, t

LEMMA RetireShort ==
  ASSUME NEW run, NEW record,
         Len(run.conditional[record.object]) \in {0, 1}
  PROVE  LET triggers == run.conditional[record.object]
             cleared == [run EXCEPT !.conditional[record.object] = <<>>]
         IN RetireAll(run, record) =
                IF Len(triggers) = 0 THEN cleared ELSE RetireOne(cleared, record, triggers[1])
<1> DEFINE triggers == run.conditional[record.object]
           cleared == [run EXCEPT !.conditional[record.object] = <<>>]
           n == Len(triggers)
           Is(f) == f = [i \in 0 .. n |-> IF i = 0 THEN cleared ELSE RetireOne(f[i - 1], record, triggers[i])]
           F == CHOOSE f : Is(f)
           f1 == [i \in 0 .. n |-> IF i = 0 THEN cleared ELSE RetireOne(cleared, record, triggers[1])]
<1>1. RetireAll(run, record) = F[n]
  BY DEF RetireAll
<1>2. n = 0 \/ n = 1
  OBVIOUS
<1> HIDE DEF n, cleared, triggers
<1>3. Is(f1)
  <2>1. ASSUME NEW i \in 0 .. n
        PROVE  f1[i] = IF i = 0 THEN cleared ELSE RetireOne(f1[i - 1], record, triggers[i])
    <3>1. i = 0 \/ (i = 1 /\ 0 \in 0 .. n)
      BY <1>2
    <3> QED BY <3>1
  <2>2. f1 = [i \in 0 .. n |-> f1[i]]
    OBVIOUS
  <2> HIDE DEF f1
  <2> QED BY <2>1, <2>2
<1>4. Is(F)
  <2> HIDE DEF Is
  <2> QED BY <1>3
<1> HIDE DEF F
<1>5. CASE n = 0
  <2>1. F[0] = cleared
    BY <1>4, <1>5
  <2> QED BY <1>1, <1>5, <2>1 DEF n, cleared, triggers
<1>6. CASE n = 1
  <2>1. 0 \in 0 .. n /\ 1 \in 0 .. n
    BY <1>6
  <2>2. F[0] = cleared
    BY <1>4, <2>1
  <2>3. F[1] = RetireOne(F[0], record, triggers[1])
    BY <1>4, <2>1
  <2> QED BY <1>1, <1>6, <2>2, <2>3 DEF n, cleared, triggers
<1> QED BY <1>2, <1>5, <1>6

LEMMA RetireSound ==
  ASSUME NEW run, NEW start, NEW known, NEW record, record.object \in Cards,
         RunFits(run, start, known, {record.object}), run.error = "Ok"
  PROVE  LET new == RetireAll(run, record)
         IN /\ RunFits(new, start, known, {})
            /\ new.game.zone = run.game.zone /\ new.game.stack = run.game.stack
            /\ new.runtimes \subseteq run.runtimes
<1> DEFINE c == record.object
           g == run.game
           rows == run.runtimes
           old == run.conditional
           table == [old EXCEPT ![c] = <<>>]
           cleared == [run EXCEPT !.conditional[record.object] = <<>>]
           new == RetireAll(run, record)
<1>1. /\ run \in Runs /\ g \in States /\ rows \subseteq Rows /\ old \in Tables /\ c \in Cards
      /\ Core(g, start, rows) /\ CardFits(g) /\ known \subseteq Cards
      /\ TableFits(old, rows) /\ Exact(g, rows, known, old, {c})
  BY DEF RunFits, Runs
<1>2. table \in Tables /\ table[c] = <<>> /\ \A d \in Cards : d # c => table[d] = old[d]
  <2>1. <<>> \in Seq(Nat)
    OBVIOUS
  <2> QED BY <1>1, <2>1 DEF Tables
<1>3. /\ cleared \in Runs /\ cleared.game = g /\ cleared.runtimes = rows
      /\ cleared.conditional = table /\ cleared.error = "Ok"
  BY <1>1, <1>2 DEF Runs
<1>4. /\ old[c] \in Seq(Nat) /\ (Len(old[c]) = 0 \/ Len(old[c]) = 1)
  <2> HIDE DEF old, c
  <2>1. old[c] \in Seq(Nat) /\ Len(old[c]) <= 1
    BY <1>1 DEF Tables, TableFits
  <2> DEFINE n == Len(old[c])
  <2>2. n \in Nat /\ n <= 1
    BY <2>1
  <2> HIDE DEF n
  <2>3. n = 0 \/ n = 1
    BY <2>2
  <2> QED BY <2>1, <2>3 DEF n
<1>5. TableFits(table, rows)
  <2>1. Len(<<>>) <= 1 /\ Range(<<>>) = {}
    BY DEF Range
  <2> QED BY <1>1, <1>2, <2>1 DEF TableFits
<1>6. new = IF Len(old[c]) = 0 THEN cleared ELSE RetireOne(cleared, record, old[c][1])
  <2>1. Len(run.conditional[record.object]) \in {0, 1}
    BY <1>4
  <2> HIDE DEF new
  <2>2. LET triggers == run.conditional[record.object]
            retired == [run EXCEPT !.conditional[record.object] = <<>>]
        IN new = IF Len(triggers) = 0 THEN retired ELSE RetireOne(retired, record, triggers[1])
    BY <2>1, RetireShort DEF new
  <2> QED BY <2>2
<1> HIDE DEF new, cleared, table, g, rows, old, c
<1>7. CASE Len(old[c]) = 0
  <2>1. old[c] = <<>>
    BY <1>4, <1>7
  <2>2. table = old
    BY <1>1, <1>2, <2>1 DEF Tables, table
  <2>3. Exact(g, rows, known, old, {})
    BY <1>1, <2>1 DEF Exact
  <2> QED BY <1>1, <1>3, <1>5, <1>6, <1>7, <2>2, <2>3 DEF RunFits, new, g, rows
<1>8. CASE Len(old[c]) = 1
  <2> DEFINE t == old[c][1]
  <2>1. old[c] # <<>> /\ Range(old[c]) = {t}
    <3>1. DOMAIN old[c] = {1}
      BY <1>4, <1>8
    <3> QED BY <1>8, <3>1 DEF Range
  <2>2. PICK r \in rows : r.trigger = t /\ r.source = c /\ Conditional(r)
    BY <1>1, <2>1 DEF TableFits
  <2>3. \A q \in rows : q.trigger = t => q = r
    BY <1>1, <2>2 DEF Core, RowsFit
  <2>4. \A q \in rows : Conditional(q) /\ Subscribed(g, q.trigger) =>
            \/ q = r
            \/ q.source # c /\ q.trigger \in Range(table[q.source])
    <3> SUFFICES ASSUME NEW q \in rows, Conditional(q), Subscribed(g, q.trigger), q # r
                 PROVE  q.source # c /\ q.trigger \in Range(table[q.source])
      OBVIOUS
    <3>1. q.trigger \in Range(old[q.source])
      BY <1>1 DEF Exact
    <3>2. q.source # c
      BY <2>1, <2>3, <3>1
    <3>3. q.source \in Cards
      BY <1>1 DEF Rows
    <3> QED BY <1>2, <3>1, <3>2, <3>3
  <2>5. \A d \in Cards : table[d] # <<>> => /\ d # c /\ g.zone[d] = "stack" /\ table[d] = old[d]
                                            /\ \A u \in Range(table[d]) : Subscribed(g, u)
    BY <1>1, <1>2 DEF Exact
  <2>6. new = RetireOne(cleared, record, t)
    BY <1>6, <1>8
  <2> HIDE DEF t
  <2>7. CASE Queued(g, record, t)
    <3>1. new = cleared
      BY <1>3, <2>6, <2>7 DEF RetireOne
    <3>2. ~Subscribed(g, t)
      <4>1. t \in Waiting(g)
        BY <2>7 DEF Queued, Waiting, Range
      <4>2. ASSUME NEW x \in Range(g.subs), x.trigger = t
            PROVE  FALSE
        <5>1. PICK q \in rows : q.trigger = t /\ (x.once <=> Conditional(q))
          BY <1>1, <4>2 DEF Core, SubsFit
        <5>2. x.once
          BY <2>2, <2>3, <5>1
        <5> QED BY <1>1, <4>1, <4>2, <5>2 DEF Core, WaitingFits
      <4> QED BY <4>2 DEF Subscribed
    <3>3. Exact(g, rows, known, table, {})
      <4>1. \A q \in rows : Conditional(q) /\ Subscribed(g, q.trigger) => q.trigger \in Range(table[q.source])
        BY <2>2, <2>4, <3>2
      <4> QED BY <1>1, <2>5, <4>1 DEF Exact
    <3> QED BY <1>1, <1>3, <1>5, <3>1, <3>3 DEF RunFits, new, g, rows
  <2>8. CASE ~Queued(g, record, t)
    <3> DEFINE error == UnregisterError(g, t)
               next == Then(cleared, error, Unregister(g, t))
    <3>1. new = [next EXCEPT !.runtimes = {x \in @ : next.error # "Ok" \/ x.trigger # t}]
      BY <1>3, <2>6, <2>8 DEF RetireOne
    <3>2. error \in Errors
      BY DEF UnregisterError, Errors
    <3>3. CASE error # "Ok"
      <4>1. next = [cleared EXCEPT !.error = error]
        BY <1>3, <3>3 DEF Then
      <4> HIDE DEF next
      <4>2. next \in Runs /\ next.error = error /\ next.game = g /\ next.runtimes = rows /\ next.conditional = table
        BY <1>3, <3>2, <4>1 DEF Runs
      <4>3. {x \in rows : next.error # "Ok" \/ x.trigger # t} = rows
        BY <3>3, <4>2
      <4>4. /\ new \in Runs /\ new.error = error /\ new.game = g /\ new.runtimes = rows /\ new.conditional = table
        BY <3>1, <4>2, <4>3 DEF Runs
      <4> QED BY <1>1, <1>5, <3>3, <4>4 DEF RunFits, new, g, rows
    <3>4. CASE error = "Ok"
      <4> DEFINE h == Unregister(g, t)
                 left == rows \ {r}
      <4>1. next = [cleared EXCEPT !.game = h]
        BY <1>3, <3>4 DEF Then
      <4>2. /\ Core(h, start, left)
            /\ h.zone = g.zone /\ h.stack = g.stack /\ h.nextEntry = g.nextEntry
            /\ \A x : x \in Range(h.subs) <=> x \in Range(g.subs) /\ x.trigger # t
        <5>1. r.trigger = t /\ UnregisterError(g, r.trigger) = "Ok"
          BY <2>2, <3>4
        <5> HIDE DEF h, left, error
        <5>2. LET after == Unregister(g, r.trigger)
              IN /\ Core(after, start, rows \ {r})
                 /\ after.zone = g.zone /\ after.stack = g.stack /\ after.nextEntry = g.nextEntry
                 /\ \A x : x \in Range(after.subs) <=> x \in Range(g.subs) /\ x.trigger # r.trigger
          BY <1>1, <2>2, <5>1, UnregisterCore
        <5> QED BY <5>1, <5>2 DEF h, left
      <4> HIDE DEF next, h, left
      <4>3. h \in States
        BY <4>2 DEF Core
      <4>4. next \in Runs /\ next.error = "Ok" /\ next.game = h /\ next.runtimes = rows /\ next.conditional = table
        BY <1>3, <4>1, <4>3 DEF Runs
      <4>5. {x \in rows : next.error # "Ok" \/ x.trigger # t} = left
        BY <2>2, <2>3, <4>4 DEF left
      <4>6. left \subseteq rows /\ left \subseteq Rows
        BY <1>1 DEF left
      <4>7. /\ new \in Runs /\ new.error = "Ok" /\ new.game = h /\ new.runtimes = left /\ new.conditional = table
        BY <3>1, <4>4, <4>5, <4>6 DEF Runs
      <4>8. CardFits(h)
        BY <1>1, <4>2 DEF CardFits, StackFits, EntryFits
      <4>9. TableFits(table, left)
        <5>1. ASSUME NEW d \in Cards, NEW u \in Range(table[d])
              PROVE  \E q \in left : q.trigger = u /\ q.source = d /\ Conditional(q)
          <6>1. PICK q \in rows : q.trigger = u /\ q.source = d /\ Conditional(q)
            BY <1>5, <5>1 DEF TableFits
          <6>2. d # c
            BY <1>2, <5>1 DEF Range
          <6> QED BY <2>2, <6>1, <6>2 DEF left
        <5> QED BY <1>5, <5>1 DEF TableFits
      <4>10. \A u : Subscribed(h, u) <=> Subscribed(g, u) /\ u # t
        BY <4>2 DEF Subscribed
      <4>11. Exact(h, left, known, table, {})
        <5>1. \A q \in left : q \in rows /\ q.trigger # t
          BY <2>3 DEF left
        <5>2. ASSUME NEW q \in left, ~Conditional(q)
              PROVE  /\ q.source \in known /\ Subscribed(h, q.trigger)
                     /\ \A p \in left : p.source = q.source /\ p.ability = q.ability => p = q
          BY <1>1, <4>10, <5>1, <5>2 DEF Exact
        <5>3. ASSUME NEW d \in known, NEW a \in DOMAIN Text[d].abilities,
                     Text[d].abilities[a].alternate = "none"
              PROVE  \E q \in left : q.source = d /\ q.ability = a
          <6>1. PICK q \in rows : q.source = d /\ q.ability = a
            BY <1>1, <5>3 DEF Exact
          <6>2. ~Conditional(q)
            BY <5>3, <6>1 DEF Conditional, AbilityIn
          <6> QED BY <2>2, <6>1, <6>2 DEF left
        <5>4. \A q \in left : Conditional(q) /\ Subscribed(h, q.trigger) => q.trigger \in Range(table[q.source])
          BY <2>4, <4>10, <5>1 DEF left
        <5>5. ASSUME NEW d \in Cards, table[d] # <<>>
              PROVE  h.zone[d] = "stack" /\ \A u \in Range(table[d]) : Subscribed(h, u)
          <6>1. ASSUME NEW u \in Range(table[d]), u = t
                PROVE  FALSE
            <7>1. PICK q \in rows : q.trigger = u /\ q.source = d
              BY <1>5, <5>5, <6>1 DEF TableFits
            <7> QED BY <2>2, <2>3, <2>5, <5>5, <6>1, <7>1
          <6> QED BY <2>5, <4>2, <4>10, <5>5, <6>1
        <5> QED BY <5>2, <5>3, <5>4, <5>5 DEF Exact
      <4> QED BY <1>1, <4>2, <4>6, <4>7, <4>8, <4>9, <4>11 DEF RunFits, new, g, rows
    <3> QED BY <3>3, <3>4
  <2> QED BY <2>7, <2>8
<1> QED BY <1>4, <1>7, <1>8

----------------------------------------------------------------------------
(* What a resolution does, step by step.                                    *)

\* A failed dispatch stops the run and leaves the state alone.
LEMMA FailFits ==
  ASSUME NEW run, NEW start, NEW known, NEW moving, RunFits(run, start, known, moving),
         NEW error \in Errors, error # "Ok"
  PROVE  LET new == [run EXCEPT !.error = error]
         IN RunFits(new, start, known, {}) /\ new.game = run.game /\ new.runtimes = run.runtimes /\ new.error = error
<1> DEFINE new == [run EXCEPT !.error = error]
<1>1. run \in Runs
  BY DEF RunFits
<1>2. /\ new \in Runs /\ new.game = run.game /\ new.runtimes = run.runtimes
      /\ new.conditional = run.conditional /\ new.error = error
  BY <1>1 DEF Runs
<1> HIDE DEF new
<1>3. RunFits(new, start, known, {})
  BY <1>2 DEF RunFits
<1> QED BY <1>2, <1>3 DEF new

\* A dispatch that succeeded puts the kernel's new state in place.
LEMMA StepFits ==
  ASSUME NEW run, NEW start, NEW known, NEW moving, NEW before, RunFits(run, start, known, before),
         NEW g, Sound(g, start, run.runtimes, known, run.conditional, moving),
         NEW after \in Runs, after.game = g, after.runtimes = run.runtimes, after.conditional = run.conditional
  PROVE  RunFits(after, start, known, moving)
BY DEF RunFits, Sound

LEMMA RunSound ==
  ASSUME NEW run, NEW start, NEW known, NEW moving, RunFits(run, start, known, moving), run.error = "Ok"
  PROVE  Sound(run.game, start, run.runtimes, known, run.conditional, moving)
BY DEF RunFits, Sound

LEMMA MoveEffect ==
  ASSUME NEW run, NEW start, NEW known, RunFits(run, start, known, {}), run.error = "Ok",
         NEW effect \in DOMAIN Moves, NEW choice \in Cards,
         effect # "destroy" => run.game.zone[choice] # "stack"
  PROVE  LET new == Effect(run, effect, choice)
         IN /\ RunFits(new, start, known, {})
            /\ new.game.stack = run.game.stack /\ new.runtimes = run.runtimes
            /\ new.error = "Ok" => new.game.zone = [run.game.zone EXCEPT ![choice] = Moves[effect]]
<1> DEFINE g == run.game
           error == IF effect = "destroy" /\ g.zone[choice] # "battlefield" THEN "ObjectNotOnBattlefield" ELSE "Ok"
           new == Effect(run, effect, choice)
<1>1. /\ effect \in {"destroy", "bounce", "reanimate"}
      /\ Moves[effect] \in Zones \ {"stack"}
  BY DEF Moves, Zones
<1>5. PICK moved : moved = Move(g, choice, Moves[effect])
  OBVIOUS
<1>2. new = Then(run, error, moved)
  BY <1>1, <1>5 DEF Effect
<1> HIDE DEF new
<1>3. CASE error # "Ok"
  <2>1. new = [run EXCEPT !.error = error] /\ error \in Errors
    BY <1>2, <1>3 DEF Then, Errors
  <2> HIDE DEF error
  <2>2. RunFits(new, start, known, {}) /\ new.game = g /\ new.runtimes = run.runtimes /\ new.error = error
    BY <1>3, <2>1, FailFits
  <2> QED BY <1>3, <2>2 DEF new
<1>4. CASE error = "Ok"
  <2>1. new = [run EXCEPT !.game = moved]
    BY <1>2, <1>4 DEF Then
  <2>2. g.zone[choice] # "stack"
    BY <1>4
  <2>3. Sound(g, start, run.runtimes, known, run.conditional, {})
    BY RunSound
  <2>4. Sound(moved, start, run.runtimes, known, run.conditional, {})
        /\ moved.zone = [g.zone EXCEPT ![choice] = Moves[effect]] /\ moved.stack = g.stack
    BY <1>1, <1>5, <2>2, <2>3, MoveSound
  <2>5. RunFits(new, start, known, {}) /\ new.game = moved /\ new.runtimes = run.runtimes /\ new.error = "Ok"
    <3>1. run \in Runs /\ moved \in States
      BY <2>4 DEF RunFits, Sound, Core
    <3>2. /\ new \in Runs /\ new.game = moved /\ new.runtimes = run.runtimes /\ new.error = "Ok"
          /\ new.conditional = run.conditional
      BY <2>1, <3>1 DEF Runs
    <3> QED BY <2>4, <3>2, StepFits
  <2> QED BY <2>4, <2>5 DEF new
<1> QED BY <1>3, <1>4

LEMMA CounterEffect ==
  ASSUME NEW run, NEW start, NEW known, RunFits(run, start, known, {}), run.error = "Ok", NEW choice
  PROVE  LET new == Effect(run, "counter", choice)
         IN /\ RunFits(new, start, known, {})
            /\ Range(new.game.stack) \subseteq Range(run.game.stack) /\ new.runtimes \subseteq run.runtimes
<1> DEFINE g == run.game
           new == Effect(run, "counter", choice)
           error == IF choice \in EntryIds(g) THEN "Ok" ELSE "UnknownStackEntry"
           next == Then(run, error, Counter(g, choice))
           record == CounterRecord(g, choice)
<1>1. new = IF next.error # "Ok" THEN next ELSE RetireConditional(next, record)
  BY DEF Effect
<1>2. Sound(g, start, run.runtimes, known, run.conditional, {}) /\ g \in States /\ StackFits(g)
  BY RunSound DEF Sound, Core, CardFits
<1> HIDE DEF new
<1>3. CASE choice \notin EntryIds(g)
  <2>1. next = [run EXCEPT !.error = "UnknownStackEntry"] /\ "UnknownStackEntry" \in Errors
    BY <1>3 DEF Then, Errors
  <2>2. RunFits(next, start, known, {}) /\ next.game = g /\ next.runtimes = run.runtimes
        /\ next.error = "UnknownStackEntry"
    <3> HIDE DEF next, g
    <3> QED BY <2>1, FailFits DEF g
  <2> HIDE DEF next
  <2> QED BY <1>1, <2>2 DEF new
<1>4. CASE choice \in EntryIds(g)
  <2>8. PICK e, rest, popped, h : /\ e = EntryNamed(g, choice) /\ rest = Without(g.stack, choice)
                                /\ popped = [g EXCEPT !.stack = rest] /\ h = Counter(g, choice)
    OBVIOUS
  <2>1. Removes(g.stack, rest, e) /\ e \in Range(g.stack)
    BY <1>2, <1>4, <2>8, NamedRemoved
  <2>2. Range(rest) \subseteq Range(g.stack)
    BY <2>1 DEF Removes
  <2>3. next = [run EXCEPT !.game = h]
    BY <1>4, <2>8 DEF Then
  <2>4. record.object = e.object
    BY <2>8 DEF CounterRecord, Record
  <2>5. h = IF e.object = None THEN popped ELSE Move(popped, e.object, "graveyard")
    BY <2>8 DEF Counter
  <2>10. Popped(g, rest, popped)
    <3>1. rest \in Seq(Entries)
      BY <2>1 DEF Removes
    <3> QED BY <1>2, <2>8, <3>1, PoppedFits
  <2> HIDE DEF next, record
  <2>9. h \in States => /\ next \in Runs /\ next.game = h /\ next.runtimes = run.runtimes /\ next.error = "Ok"
                        /\ next.conditional = run.conditional
    <3>1. run \in Runs
      BY DEF RunFits
    <3> QED BY <2>3, <3>1 DEF Runs
  <2>6. CASE e.object = None
    <3>1. Sound(h, start, run.runtimes, known, run.conditional, {}) /\ h.stack = rest
      BY <1>2, <2>1, <2>5, <2>6, <2>10, DropSound DEF Popped
    <3>2. RunFits(next, start, known, {}) /\ next.game = h /\ next.runtimes = run.runtimes /\ next.error = "Ok"
      <4>1. h \in States
        BY <3>1 DEF Sound, Core
      <4> QED BY <2>9, <3>1, <4>1, StepFits
    <3>3. new = next
      BY <1>1, <2>4, <2>6, <3>2 DEF RetireConditional
    <3> QED BY <2>2, <3>1, <3>2, <3>3 DEF new, g
  <2>7. CASE e.object # None
    <3>1. Sound(h, start, run.runtimes, known, run.conditional, {e.object}) /\ h.stack = rest
      <4>1. h = Move(popped, e.object, "graveyard") /\ "graveyard" \in {"battlefield", "graveyard"}
        BY <2>5, <2>7
      <4>2. PICK before, moving : before = {} /\ moving = {e.object}
        OBVIOUS
      <4>3. before \subseteq moving /\ e.object \in moving
        BY <4>2
      <4>4. Sound(g, start, run.runtimes, known, run.conditional, before)
        BY <1>2, <4>2
      <4>5. Sound(h, start, run.runtimes, known, run.conditional, moving)
        BY <2>1, <2>7, <2>10, <4>1, <4>3, <4>4, LeaveSound
      <4>6. Left(g, rest, e.object, "graveyard", h)
        BY <1>2, <2>1, <2>7, <2>10, <4>1, LeaveFrame DEF Sound
      <4> QED BY <4>2, <4>5, <4>6 DEF Left
    <3>2. RunFits(next, start, known, {e.object}) /\ next.game = h /\ next.runtimes = run.runtimes /\ next.error = "Ok"
      <4>1. h \in States
        BY <3>1 DEF Sound, Core
      <4> QED BY <2>9, <3>1, <4>1, StepFits
    <3>3. new = RetireAll(next, record)
      BY <1>1, <2>4, <2>7, <3>2 DEF RetireConditional
    <3>4. record.object \in Cards
      <4>1. e \in Entries
        BY <1>2, <2>1 DEF States, Range
      <4> QED BY <2>4, <2>7, <4>1 DEF Entries
    <3>5. /\ RunFits(new, start, known, {}) /\ new.game.stack = next.game.stack
          /\ new.runtimes \subseteq next.runtimes
      BY <2>4, <3>2, <3>3, <3>4, RetireSound
    <3> QED BY <2>2, <3>1, <3>2, <3>5 DEF new, g
  <2> QED BY <2>6, <2>7
<1> QED BY <1>3, <1>4

Affect(h, record, i) ==
    IF record.legal[i] THEN Effect(h, Text[record.object].effect, record.targets[i].choice) ELSE h

LEMMA SpellStays ==
  ASSUME NEW run, NEW record, NEW n \in Nat, Len(record.targets) = n, NEW G, run \in G[0],
         \A i \in 1 .. n : \A h \in G[i - 1] : Affect(h, record, i) \in G[i],
         Bound(run.game, record)
  PROVE  SpellEffects(run, record) \in G[n]
<1> DEFINE Is(f) == f = [i \in 0 .. n |-> IF i = 0 THEN run
                                          ELSE IF record.legal[i]
                                               THEN Effect(f[i - 1], Text[record.object].effect, record.targets[i].choice)
                                          ELSE f[i - 1]]
           As(f) == f = [i \in 0 .. n |-> IF i = 0 THEN run ELSE Affect(f[i - 1], record, i)]
           F == CHOOSE f : Is(f)
           step == [i \in 1 .. n |-> [h \in G[i - 1] |-> Affect(h, record, i)]]
<1>1. SpellEffects(run, record) = F[n]
  BY DEF SpellEffects
<1>2. \E f : Is(f)
  <2>1. \A i \in 1 .. n : \A h \in G[i - 1] : step[i][h] \in G[i]
    OBVIOUS
  <2>2. PICK f : Recursion(f, n, run, step) /\ \A i \in 0 .. n : f[i] \in G[i]
    <3> HIDE DEF step
    <3> QED BY <2>1, RecursionStays
  <2>3. \A i \in 1 .. n : step[i][f[i - 1]] = Affect(f[i - 1], record, i)
    <3> SUFFICES ASSUME NEW i \in 1 .. n PROVE step[i][f[i - 1]] = Affect(f[i - 1], record, i)
      OBVIOUS
    <3>1. i - 1 \in 0 .. n
      OBVIOUS
    <3>2. f[i - 1] \in G[i - 1]
      BY <2>2, <3>1
    <3> QED BY <3>2
  <2>4. \A i \in 0 .. n : i = 0 \/ i \in 1 .. n
    OBVIOUS
  <2>5. As(f)
    <3> HIDE DEF step
    <3> QED BY <2>2, <2>3, <2>4 DEF Recursion
  <2>6. Is(f)
    BY <2>5 DEF Affect
  <2> HIDE DEF Is
  <2> QED BY <2>6
<1>3. Is(F)
  <2> HIDE DEF Is
  <2> QED BY <1>2
<1>4. As(F)
  <2> HIDE DEF F
  <2> QED BY <1>3 DEF Affect
<1> HIDE DEF F, Is
<1> DEFINE T == {i \in 0 .. n : F[i] \in G[i]}
<1>5. 0 \in T
  BY <1>4
<1>6. ASSUME NEW i \in 0 .. n, i > 0, i - 1 \in T
      PROVE  i \in T
  <2>1. F[i] = Affect(F[i - 1], record, i) /\ i \in 1 .. n
    BY <1>4, <1>6
  <2> QED BY <1>6, <2>1
<1>7. \A i \in 0 .. n : i \in T
  <2> HIDE DEF T
  <2> QED BY <1>5, <1>6, UpTo
<1> QED BY <1>1, <1>7

\* A failed run stays as it is.
LEMMA FailedStays ==
  ASSUME NEW run, run.error # "Ok", NEW effect, NEW choice
  PROVE  Effect(run, effect, choice) = run
BY DEF Effect, Then

\* How the record of a spell and the effect of its program fit together.
Aims(record, effect) ==
    /\ record.object \in Cards /\ effect = Text[record.object].effect
    /\ effect \in {"none", "counter"} \cup DOMAIN Moves
    /\ Len(record.targets) \in Nat /\ DOMAIN record.targets = 1 .. Len(record.targets)
    /\ effect = "none" => Len(record.targets) = 0
    /\ \A i \in 1 .. Len(record.targets) :
          record.legal[i] /\ effect \in DOMAIN Moves => record.targets[i].choice \in Cards

\* The first k targets are where the effect puts them, if they were legal.
Aimed(record, k, c) == \E i \in 1 .. k : record.legal[i] /\ record.targets[i].choice = c
Settled(before, run, record, to, k) ==
    /\ run.game.stack = before.stack
    /\ run.error = "Ok" =>
          \A c \in Cards : run.game.zone[c] = IF Aimed(record, k, c) THEN to ELSE before.zone[c]

LEMMA AimedNext ==
  ASSUME NEW record, NEW k \in Nat, k > 0, NEW c
  PROVE  Aimed(record, k, c) <=> Aimed(record, k - 1, c) \/ (record.legal[k] /\ record.targets[k].choice = c)
<1>1. \A i \in 1 .. k : i \in 1 .. k - 1 \/ i = k
  OBVIOUS
<1>2. \A i \in 1 .. k - 1 : i \in 1 .. k
  OBVIOUS
<1>3. k \in 1 .. k
  OBVIOUS
<1> QED BY <1>1, <1>2, <1>3 DEF Aimed

LEMMA SpellStep ==
  ASSUME NEW run, NEW start, NEW known, NEW record, NEW effect, Aims(record, effect), Bound(run.game, record),
         NEW h, RunFits(h, start, known, {}), NEW i \in 1 .. Len(record.targets),
         effect \in DOMAIN Moves => Settled(run.game, h, record, Moves[effect], i - 1)
  PROVE  LET new == Affect(h, record, i)
         IN /\ RunFits(new, start, known, {})
            /\ Range(new.game.stack) \subseteq Range(h.game.stack) /\ new.runtimes \subseteq h.runtimes
            /\ effect \in DOMAIN Moves => Settled(run.game, new, record, Moves[effect], i)
<1> DEFINE choice == record.targets[i].choice
           to == Moves[effect]
           new == Affect(h, record, i)
<1>1. /\ record.object \in Cards /\ effect = Text[record.object].effect
      /\ effect \in {"counter"} \cup DOMAIN Moves
      /\ i \in Nat /\ i > 0
      /\ record.legal[i] /\ effect \in DOMAIN Moves => choice \in Cards
  <2>1. Len(record.targets) # 0
    OBVIOUS
  <2> QED BY <2>1 DEF Aims
<1>2. \A c : Aimed(record, i, c) <=> Aimed(record, i - 1, c) \/ (record.legal[i] /\ choice = c)
  BY <1>1, AimedNext
<1>3. new = IF record.legal[i] THEN Effect(h, effect, choice) ELSE h
  BY <1>1 DEF Affect
<1> HIDE DEF new, choice
<1>4. CASE ~record.legal[i]
  <2>1. new = h
    BY <1>3, <1>4
  <2>2. \A c : Aimed(record, i, c) <=> Aimed(record, i - 1, c)
    BY <1>2, <1>4
  <2>3. effect \in DOMAIN Moves => Settled(run.game, h, record, Moves[effect], i)
    BY <2>2 DEF Settled
  <2> QED BY <2>1, <2>3 DEF new
<1>5. CASE record.legal[i] /\ h.error # "Ok"
  <2>1. new = h
    BY <1>3, <1>5, FailedStays
  <2>2. effect \in DOMAIN Moves => Settled(run.game, h, record, Moves[effect], i)
    BY <1>5 DEF Settled
  <2> QED BY <2>1, <2>2 DEF new
<1>6. CASE record.legal[i] /\ h.error = "Ok" /\ effect = "counter"
  <2>1. effect \notin DOMAIN Moves
    BY <1>6 DEF Moves
  <2>2. new = Effect(h, "counter", choice)
    BY <1>3, <1>6
  <2>3. LET after == Effect(h, "counter", choice)
        IN /\ RunFits(after, start, known, {})
           /\ Range(after.game.stack) \subseteq Range(h.game.stack) /\ after.runtimes \subseteq h.runtimes
    BY <1>6, CounterEffect
  <2> QED BY <2>1, <2>2, <2>3 DEF new
<1>7. CASE record.legal[i] /\ h.error = "Ok" /\ effect \in DOMAIN Moves
  <2>1. choice \in Cards /\ new = Effect(h, effect, choice)
    BY <1>1, <1>3, <1>7
  <2>2. Settled(run.game, h, record, to, i - 1)
    BY <1>7
  <2>3. to # "stack"
    BY <1>7 DEF Moves
  <2>4. effect # "destroy" => h.game.zone[choice] # "stack"
    <3> SUFFICES ASSUME effect # "destroy" PROVE h.game.zone[choice] # "stack"
      OBVIOUS
    <3>1. effect = "bounce" \/ effect = "reanimate"
      BY <1>7 DEF Moves
    <3>2. run.game.zone[choice] # "stack"
      <4>1. i \in DOMAIN record.targets
        BY DEF Aims
      <4> DEFINE from == [bounce |-> "battlefield", reanimate |-> "graveyard"]
      <4>2. run.game.zone[choice] = from[effect]
        BY <1>1, <1>7, <3>1, <4>1 DEF Bound, choice
      <4> QED BY <3>1, <4>2
    <3> QED BY <1>7, <2>1, <2>2, <2>3, <3>2 DEF Settled
  <2>5. LET after == Effect(h, effect, choice)
        IN /\ RunFits(after, start, known, {})
           /\ after.game.stack = h.game.stack /\ after.runtimes = h.runtimes
           /\ after.error = "Ok" => after.game.zone = [h.game.zone EXCEPT ![choice] = Moves[effect]]
    BY <1>7, <2>1, <2>4, MoveEffect
  <2>6. /\ RunFits(new, start, known, {})
        /\ new.game.stack = h.game.stack /\ new.runtimes = h.runtimes
        /\ new.error = "Ok" => new.game.zone = [h.game.zone EXCEPT ![choice] = to]
    BY <2>1, <2>5
  <2> HIDE DEF to
  <2>7. Settled(run.game, new, record, to, i)
    <3>1. h.game.zone \in [Cards -> Zones]
      BY DEF RunFits, Core, States
    <3>2. new.error = "Ok" => \A c \in Cards : new.game.zone[c] = IF c = choice THEN to ELSE h.game.zone[c]
      BY <2>6, <3>1
    <3>3. \A c \in Cards : h.game.zone[c] = IF Aimed(record, i - 1, c) THEN to ELSE run.game.zone[c]
      BY <1>7, <2>2 DEF Settled
    <3>4. new.game.stack = run.game.stack
      BY <2>2, <2>6 DEF Settled
    <3> QED BY <1>2, <1>7, <3>2, <3>3, <3>4 DEF Settled
  <2> QED BY <2>6, <2>7 DEF new, to
<1> QED BY <1>1, <1>4, <1>5, <1>6, <1>7

LEMMA SpellSound ==
  ASSUME NEW run, NEW start, NEW known, RunFits(run, start, known, {}),
         NEW record, NEW effect, Aims(record, effect)
  PROVE  LET new == SpellEffects(run, record)
         IN /\ RunFits(new, start, known, {})
            /\ Range(new.game.stack) \subseteq Range(run.game.stack) /\ new.runtimes \subseteq run.runtimes
            /\ effect \in DOMAIN Moves /\ new.error = "Ok" =>
                  Settled(run.game, new, record, Moves[effect], Len(record.targets))
<1> DEFINE new == SpellEffects(run, record)
           n == Len(record.targets)
<1>1. CASE ~Bound(run.game, record)
  <2>1. new = [run EXCEPT !.error = "InvalidChoice"] /\ "InvalidChoice" \in Errors
    BY <1>1 DEF SpellEffects, Errors
  <2>2. RunFits(new, start, known, {}) /\ new.game = run.game /\ new.runtimes = run.runtimes
        /\ new.error = "InvalidChoice"
    <3>1. LET failed == [run EXCEPT !.error = "InvalidChoice"]
          IN RunFits(failed, start, known, {}) /\ failed.game = run.game /\ failed.runtimes = run.runtimes
             /\ failed.error = "InvalidChoice"
      BY <2>1, FailFits
    <3> HIDE DEF new
    <3> QED BY <2>1, <3>1
  <2> QED BY <2>2
<1>2. CASE Bound(run.game, record)
  <2> DEFINE Good(h, i) == /\ RunFits(h, start, known, {})
                           /\ Range(h.game.stack) \subseteq Range(run.game.stack)
                           /\ h.runtimes \subseteq run.runtimes
                           /\ effect \in DOMAIN Moves => Settled(run.game, h, record, Moves[effect], i)
             G == [i \in 0 .. n |-> {h \in Runs : Good(h, i)}]
  <2>1. n \in Nat
    BY DEF Aims
  <2>2. run \in G[0]
    <3>1. \A c : ~Aimed(record, 0, c)
      BY DEF Aimed
    <3>2. effect \in DOMAIN Moves => Settled(run.game, run, record, Moves[effect], 0)
      BY <3>1 DEF Settled
    <3>3. run \in Runs
      BY DEF RunFits
    <3> QED BY <2>1, <3>2, <3>3
  <2>3. ASSUME NEW i \in 1 .. n, NEW h \in G[i - 1]
        PROVE  Affect(h, record, i) \in G[i]
    <3> DEFINE after == Affect(h, record, i)
    <3>1. i - 1 \in 0 .. n /\ i \in 0 .. n
      BY <2>1
    <3>2. Good(h, i - 1)
      BY <2>3, <3>1
    <3>3. RunFits(h, start, known, {}) /\ (effect \in DOMAIN Moves => Settled(run.game, h, record, Moves[effect], i - 1))
      BY <3>2
    <3>4. /\ RunFits(after, start, known, {})
          /\ Range(after.game.stack) \subseteq Range(h.game.stack) /\ after.runtimes \subseteq h.runtimes
          /\ effect \in DOMAIN Moves => Settled(run.game, after, record, Moves[effect], i)
      BY <1>2, <3>3, SpellStep
    <3> HIDE DEF after
    <3>5. Good(after, i) /\ after \in Runs
      BY <3>2, <3>4 DEF RunFits
    <3> HIDE DEF Good
    <3> QED BY <3>1, <3>5 DEF after
  <2>4. new \in G[n]
    <3> HIDE DEF G
    <3> QED BY <1>2, <2>1, <2>2, <2>3, SpellStays
  <2>5. Good(new, n)
    <3> HIDE DEF Good, new
    <3> QED BY <2>1, <2>4
  <2> QED BY <2>5
<1> QED BY <1>1, <1>2

----------------------------------------------------------------------------
(* A resolution as a whole.                                                 *)

\* What the rows of the tables say of a trigger that a state may hold.
LEMMA LookUp ==
  ASSUME runtimes \subseteq Rows, NEW t, \E r \in runtimes : r.trigger = t,
         \A q, r \in runtimes : q.trigger = r.trigger => q = r
  PROVE  /\ \A r \in runtimes : r.trigger = t => AbilityOf(t) = AbilityIn(r) /\ SourceOf(t) = r.source
         /\ SourceOf(t) \in Cards /\ AbilityOf(t) \in Abilities
<1> DEFINE row == CHOOSE x \in runtimes : x.trigger = t
<1>1. row \in runtimes /\ row.trigger = t
  OBVIOUS
<1>2. AbilityOf(t) = AbilityIn(row) /\ SourceOf(t) = row.source
  BY DEF AbilityOf, SourceOf, AbilityIn
<1> HIDE DEF row
<1>3. row \in Rows
  BY <1>1
<1>4. row.source \in Cards /\ AbilityIn(row) \in Abilities
  BY <1>3, RowTypes
<1> QED BY <1>1, <1>2, <1>4

LEMMA TriggerSound ==
  ASSUME NEW run, NEW start, NEW known, RunFits(run, start, known, {}), run.error = "Ok",
         NEW record, record.controller \in Players, SourceOf(record.trigger) \in Cards,
         AbilityOf(record.trigger) \in Abilities, NEW paid
  PROVE  LET new == TriggerEffects(run, record, paid)
         IN /\ RunFits(new, start, known, {})
            /\ new.game.stack = run.game.stack /\ new.runtimes = run.runtimes
<1> DEFINE g == run.game
           source == SourceOf(record.trigger)
           does == AbilityOf(record.trigger).does
           new == TriggerEffects(run, record, paid)
<1>1. does \in {"draw", "drawUnlessPaid", "sacrificeSource"}
  BY DEF Abilities
<1>2. PICK moved, drawn : moved = Move(g, source, "graveyard") /\ drawn = Draw(g, record.controller, 1)
  OBVIOUS
<1>3. new = CASE does = "sacrificeSource" ->
                     Then(run, IF g.zone[source] = "battlefield" THEN "Ok" ELSE "InvalidChoice", moved)
              [] does = "draw" -> Then(run, "Ok", drawn)
              [] does = "drawUnlessPaid" -> IF paid THEN run ELSE Then(run, "Ok", drawn)
  BY <1>2 DEF TriggerEffects
<1>4. Sound(g, start, run.runtimes, known, run.conditional, {})
  BY RunSound
<1> HIDE DEF new, does, source
<1>5. ASSUME NEW h, Sound(h, start, run.runtimes, known, run.conditional, {}), h.stack = g.stack, new = Then(run, "Ok", h)
      PROVE  RunFits(new, start, known, {}) /\ new.game.stack = g.stack /\ new.runtimes = run.runtimes
  <2>1. run \in Runs /\ h \in States
    BY <1>5 DEF RunFits, Sound, Core
  <2>2. new = [run EXCEPT !.game = h]
    BY <1>5 DEF Then
  <2>3. new \in Runs /\ new.game = h /\ new.runtimes = run.runtimes /\ new.conditional = run.conditional
    BY <2>1, <2>2 DEF Runs
  <2>4. RunFits(new, start, known, {})
    BY <1>5, <2>3, StepFits
  <2> QED BY <1>5, <2>3, <2>4
<1>6. CASE new = Then(run, "Ok", drawn)
  <2>1. Sound(drawn, start, run.runtimes, known, run.conditional, {}) /\ drawn.stack = g.stack
    BY <1>2, <1>4, DrawSound
  <2> QED BY <1>5, <1>6, <2>1 DEF new
<1>7. CASE new = Then(run, "Ok", moved) /\ g.zone[source] = "battlefield"
  <2>1. "graveyard" \in Zones \ {"stack"} /\ source \in Cards /\ g.zone[source] # "stack"
    BY <1>7 DEF Zones, source
  <2>2. Sound(moved, start, run.runtimes, known, run.conditional, {}) /\ moved.stack = g.stack
    <3>1. LET after == Move(g, source, "graveyard")
          IN /\ Sound(after, start, run.runtimes, known, run.conditional, {})
             /\ after.zone = [g.zone EXCEPT ![source] = "graveyard"] /\ after.stack = g.stack
             /\ after.nextTrigger = g.nextTrigger /\ after.nextEntry = g.nextEntry
      BY <1>4, <2>1, MoveSound
    <3> QED BY <1>2, <3>1
  <2> QED BY <1>5, <1>7, <2>2 DEF new
<1>8. CASE new = Then(run, "InvalidChoice", moved)
  <2>1. new = [run EXCEPT !.error = "InvalidChoice"] /\ "InvalidChoice" \in Errors
    BY <1>8 DEF Then, Errors
  <2>2. LET failed == [run EXCEPT !.error = "InvalidChoice"]
        IN RunFits(failed, start, known, {}) /\ failed.game = run.game /\ failed.runtimes = run.runtimes
    BY <2>1, FailFits
  <2> QED BY <2>1, <2>2 DEF new
<1>9. new = run \/ new = Then(run, "Ok", drawn) \/ new = Then(run, "InvalidChoice", moved)
      \/ (new = Then(run, "Ok", moved) /\ g.zone[source] = "battlefield")
  BY <1>1, <1>3
<1> QED BY <1>6, <1>7, <1>8, <1>9 DEF new

LEMMA RetireFits ==
  ASSUME NEW run, NEW start, NEW known, NEW moving, RunFits(run, start, known, moving), run.error = "Ok",
         NEW record, record.object = None => moving = {},
         record.object # None => record.object \in Cards /\ moving = {record.object}
  PROVE  LET new == RetireConditional(run, record)
         IN /\ RunFits(new, start, known, {})
            /\ new.game.zone = run.game.zone /\ new.game.stack = run.game.stack
            /\ new.runtimes \subseteq run.runtimes
<1>1. CASE record.object = None
  <2>1. RetireConditional(run, record) = run /\ RunFits(run, start, known, {})
    BY <1>1 DEF RetireConditional
  <2> QED BY <2>1
<1>2. CASE record.object # None
  <2>1. RetireConditional(run, record) = RetireAll(run, record) /\ RunFits(run, start, known, {record.object})
        /\ record.object \in Cards
    BY <1>2 DEF RetireConditional
  <2>2. LET new == RetireAll(run, record)
        IN /\ RunFits(new, start, known, {})
           /\ new.game.zone = run.game.zone /\ new.game.stack = run.game.stack
           /\ new.runtimes \subseteq run.runtimes
    BY <2>1, RetireSound
  <2> QED BY <2>1, <2>2
<1> QED BY <1>1, <1>2

\* The record of the entry on top.
LEMMA RecordFacts ==
  ASSUME NEW g \in States, CardFits(g), g.stack # <<>>
  PROVE  LET entry == Last(g.stack)
             record == Resolution(g)
         IN /\ entry \in Entries /\ entry \in Range(g.stack) /\ EntryFits(g, entry)
            /\ record.entry = entry.id /\ record.controller = entry.controller /\ record.object = entry.object
            /\ record.trigger = entry.trigger /\ record.targets = entry.targets
            /\ DOMAIN record.targets = 1 .. Len(record.targets)
            /\ \A i \in DOMAIN record.targets : record.legal[i] <=> StillLegal(g, entry.targets[i])
            /\ record.outcome # "Resolved" => \A i \in DOMAIN record.targets : ~record.legal[i]
            /\ record.object # None => Aims(record, Text[record.object].effect)
<1> DEFINE entry == Last(g.stack)
           record == Resolution(g)
           legal == [i \in DOMAIN entry.targets |-> StillLegal(g, entry.targets[i])]
           outcome == IF legal # <<>> /\ \A i \in DOMAIN legal : ~legal[i] THEN "CounteredOnResolution" ELSE "Resolved"
<1>1. record = [entry |-> entry.id, controller |-> entry.controller, object |-> entry.object,
                trigger |-> entry.trigger, targets |-> entry.targets, legal |-> legal, outcome |-> outcome]
  BY DEF Resolution, Record
<1>2. /\ record.entry = entry.id /\ record.controller = entry.controller /\ record.object = entry.object
      /\ record.trigger = entry.trigger /\ record.targets = entry.targets
      /\ record.legal = legal /\ record.outcome = outcome
  <2> HIDE DEF record, entry, legal, outcome
  <2> QED BY <1>1
<1> HIDE DEF record
<1>3. entry \in Entries /\ entry \in Range(g.stack)
  <2>1. /\ g.stack \in Seq(Entries) /\ Len(g.stack) \in 1 .. Len(g.stack)
        /\ DOMAIN g.stack = 1 .. Len(g.stack) /\ entry = g.stack[Len(g.stack)]
    <3>1. g.stack \in Seq(Entries)
      BY DEF States
    <3> QED BY <3>1 DEF Last
  <2> HIDE DEF entry
  <2> QED BY <2>1 DEF Range
<1>4. EntryFits(g, entry)
  BY <1>3 DEF CardFits, StackFits
<1>5. /\ entry.targets \in Seq(Targets) /\ Len(entry.targets) \in Nat
      /\ DOMAIN entry.targets = 1 .. Len(entry.targets)
      /\ entry.object \in Cards \cup {None}
  <2>1. entry.targets \in Seq(Targets) /\ entry.object \in Cards \cup {None}
    BY <1>3 DEF Entries
  <2> QED BY <2>1
<1> HIDE DEF entry
<1>6. \A i \in DOMAIN entry.targets : legal[i] <=> StillLegal(g, entry.targets[i])
  OBVIOUS
<1>7. outcome # "Resolved" => \A i \in DOMAIN entry.targets : ~legal[i]
  OBVIOUS
<1> HIDE DEF legal, outcome
<1>8. ASSUME entry.object # None
      PROVE  Aims(record, Text[record.object].effect)
  <2> DEFINE c == entry.object
             effect == Text[c].effect
             kinds == Text[c].targets
  <2>1. c \in Cards
    BY <1>5, <1>8
  <2>2. /\ effect \in {"none", "counter"} \cup DOMAIN Moves
        /\ kinds \in Seq({"permanent", "grave", "spell"})
        /\ effect = "none" => kinds = <<>>
        /\ \A i \in DOMAIN kinds : kinds[i] = "spell" <=> effect = "counter"
    <3>1. Text[c] \in Programs
      BY <2>1, ProgramAssumption DEF ProgramsFit
    <3>2. effect \in {"none", "counter"} \cup DOMAIN Moves
      BY <3>1 DEF Programs, Moves
    <3>3. kinds \in Seq({"permanent", "grave", "spell"})
      BY <3>1 DEF Programs
    <3> QED BY <2>1, <3>2, <3>3, ProgramAssumption DEF ProgramsFit
  <2> HIDE DEF c, effect, kinds
  <2>3. /\ Len(entry.targets) = Len(kinds)
        /\ \A i \in 1 .. Len(entry.targets) : entry.targets[i].kind = kinds[i]
    BY <1>4, <1>8 DEF EntryFits, c, kinds
  <2>4. effect = "none" => Len(entry.targets) = 0
    BY <2>2, <2>3
  <2>5. ASSUME NEW i \in 1 .. Len(entry.targets), legal[i], effect \in DOMAIN Moves
        PROVE  entry.targets[i].choice \in Cards
    <3>1. DOMAIN kinds = 1 .. Len(kinds)
      BY <2>2
    <3>2. effect # "counter"
      BY <2>5 DEF Moves
    <3>3. i \in DOMAIN kinds /\ i \in DOMAIN entry.targets
      BY <1>5, <2>3, <3>1
    <3>4. kinds[i] = "permanent" \/ kinds[i] = "grave"
      BY <2>2, <3>1, <3>2, <3>3
    <3>5. Matches(g, kinds[i], entry.targets[i].choice)
      BY <1>6, <2>3, <2>5, <3>3 DEF StillLegal
    <3> QED BY <3>4, <3>5 DEF Matches
  <2> QED BY <1>2, <1>5, <2>1, <2>2, <2>4, <2>5 DEF Aims, c, effect
<1> QED BY <1>2, <1>3, <1>4, <1>5, <1>6, <1>7, <1>8 DEF record, entry

\* The card whose conditional triggers a resolution retires.
Retiring(record, moving) ==
    /\ record.object = None => moving = {}
    /\ record.object # None => record.object \in Cards /\ moving = {record.object}
Resolved(g, record, new) ==
    /\ new.stack = Front(g.stack) /\ new.nextEntry = g.nextEntry
    /\ \A c \in Cards : c # record.object => new.zone[c] = g.zone[c]

\* The card of a resolved spell goes to its destination with the entry.
LEMMA TopSound ==
  ASSUME NEW g, NEW start, NEW rows, NEW known, NEW table, Sound(g, start, rows, known, table, {}),
         g.stack # <<>>, NEW record, record = Resolution(g), NEW new, new = ResolveTop(g)
  PROVE  \E moving : /\ Retiring(record, moving) /\ Sound(new, start, rows, known, table, moving)
                     /\ Resolved(g, record, new)
<1> PICK entry, rest, popped : /\ entry = Last(g.stack) /\ rest = Front(g.stack)
                               /\ popped = [g EXCEPT !.stack = rest]
  OBVIOUS
<1>1. g \in States /\ g.stack \in Seq(Entries) /\ IsInjective(g.stack) /\ CardFits(g) /\ g.zone \in [Cards -> Zones]
  BY DEF Sound, Core, States, CardFits, StackFits
<1>2. Removes(g.stack, rest, entry)
  BY <1>1, TopRemoved
<1>3. rest \in Seq(Entries)
  BY <1>2 DEF Removes
<1>4. Popped(g, rest, popped)
  BY <1>1, <1>3, PoppedFits
<1>5. record.object = entry.object /\ entry \in Entries
  BY <1>1, RecordFacts
<1>6. new = IF entry.object = None THEN popped ELSE Move(popped, entry.object, Destination(record))
  BY <1>5 DEF ResolveTop
<1>7. Destination(record) = "battlefield" \/ Destination(record) = "graveyard"
  BY DEF Destination
<1>8. CASE entry.object = None
  <2>1. Sound(popped, start, rows, known, table, {})
    BY <1>2, <1>4, <1>8, DropSound
  <2>2. new = popped
    BY <1>6, <1>8
  <2>3. popped.stack = rest /\ popped.zone = g.zone /\ popped.nextEntry = g.nextEntry
    BY <1>4 DEF Popped
  <2> QED BY <1>5, <1>8, <2>1, <2>2, <2>3 DEF Retiring, Resolved
<1>9. CASE entry.object # None
  <2>1. PICK before, moving : before = {} /\ moving = {entry.object}
    OBVIOUS
  <2>2. Sound(g, start, rows, known, table, before) /\ before \subseteq moving /\ entry.object \in moving
    BY <2>1
  <2>3. PICK to : to = Destination(record)
    OBVIOUS
  <2>4. new = Move(popped, entry.object, to) /\ (to = "battlefield" \/ to = "graveyard")
    BY <1>6, <1>7, <1>9, <2>3
  <2>5. Sound(new, start, rows, known, table, moving)
    BY <1>2, <1>4, <1>9, <2>2, <2>4, LeaveSound
  <2>6. Left(g, rest, entry.object, to, new)
    <3>1. Core(g, start, rows)
      BY DEF Sound
    <3> QED BY <1>2, <1>4, <1>9, <2>4, <3>1, LeaveFrame
  <2>7. \A c \in Cards : c # record.object => new.zone[c] = g.zone[c]
    BY <1>1, <1>5, <2>6 DEF Left
  <2>8. record.object \in Cards
    BY <1>5, <1>9 DEF Entries
  <2> QED BY <1>5, <1>9, <2>1, <2>5, <2>6, <2>7, <2>8 DEF Left, Retiring, Resolved
<1> QED BY <1>8, <1>9

LEMMA HandleSound ==
  ASSUME NEW run, NEW start, NEW known, NEW moving, RunFits(run, start, known, moving), run.error = "Ok",
         NEW record, record.object = None => moving = {} /\ record.trigger # None,
         record.object # None =>
            /\ record.object \in Cards /\ moving = {record.object} /\ record.trigger = None
            /\ Aims(record, Text[record.object].effect),
         record.controller \in Players,
         record.trigger # None =>
            SourceOf(record.trigger) \in Cards /\ AbilityOf(record.trigger) \in Abilities,
         NEW paid
  PROVE  LET new == HandleResolution(run, record, paid)
         IN /\ RunFits(new, start, known, {})
            /\ Range(new.game.stack) \subseteq Range(run.game.stack) /\ new.runtimes \subseteq run.runtimes
            /\ record.object # None /\ Text[record.object].effect \in DOMAIN Moves /\ new.error = "Ok" =>
                  IF record.outcome = "Resolved"
                  THEN Settled(run.game, new, record, Moves[Text[record.object].effect], Len(record.targets))
                  ELSE new.game.zone = run.game.zone
<1> PICK retired : retired = RetireConditional(run, record)
  OBVIOUS
<1> DEFINE new == HandleResolution(run, record, paid)
<1>1. /\ RunFits(retired, start, known, {})
      /\ retired.game.zone = run.game.zone /\ retired.game.stack = run.game.stack
      /\ retired.runtimes \subseteq run.runtimes
  <2>1. record.object = None => moving = {}
    OBVIOUS
  <2>2. record.object # None => record.object \in Cards /\ moving = {record.object}
    OBVIOUS
  <2>3. LET after == RetireConditional(run, record)
        IN /\ RunFits(after, start, known, {})
           /\ after.game.zone = run.game.zone /\ after.game.stack = run.game.stack
           /\ after.runtimes \subseteq run.runtimes
    BY <2>1, <2>2, RetireFits
  <2> QED BY <2>3
<1>2. new = IF retired.error # "Ok" \/ record.outcome # "Resolved" THEN retired
            ELSE IF record.trigger # None THEN TriggerEffects(retired, record, paid)
            ELSE SpellEffects(retired, record)
  BY DEF HandleResolution
<1> HIDE DEF new
<1>3. CASE retired.error # "Ok" \/ record.outcome # "Resolved"
  <2>1. new = retired
    BY <1>2, <1>3
  <2> QED BY <1>1, <1>3, <2>1 DEF new
<1>4. CASE retired.error = "Ok" /\ record.outcome = "Resolved" /\ record.trigger # None
  <2>1. new = TriggerEffects(retired, record, paid)
    BY <1>2, <1>4
  <2>2. LET after == TriggerEffects(retired, record, paid)
        IN /\ RunFits(after, start, known, {})
           /\ after.game.stack = retired.game.stack /\ after.runtimes = retired.runtimes
    BY <1>1, <1>4, TriggerSound
  <2>3. record.object = None
    BY <1>4
  <2> QED BY <1>1, <2>1, <2>2, <2>3 DEF new
<1>5. CASE retired.error = "Ok" /\ record.outcome = "Resolved" /\ record.trigger = None
  <2>1. new = SpellEffects(retired, record)
    BY <1>2, <1>5
  <2>2. PICK effect : effect = Text[record.object].effect
    OBVIOUS
  <2>3. Aims(record, effect)
    BY <1>5, <2>2
  <2>4. LET after == SpellEffects(retired, record)
        IN /\ RunFits(after, start, known, {})
           /\ Range(after.game.stack) \subseteq Range(retired.game.stack) /\ after.runtimes \subseteq retired.runtimes
           /\ effect \in DOMAIN Moves /\ after.error = "Ok" =>
                 Settled(retired.game, after, record, Moves[effect], Len(record.targets))
    BY <1>1, <2>3, SpellSound
  <2>5. ASSUME effect \in DOMAIN Moves, new.error = "Ok"
        PROVE  Settled(run.game, new, record, Moves[effect], Len(record.targets))
    <3>1. Settled(retired.game, new, record, Moves[effect], Len(record.targets))
      BY <2>1, <2>4, <2>5
    <3> QED BY <1>1, <3>1 DEF Settled
  <2>6. /\ RunFits(new, start, known, {})
        /\ Range(new.game.stack) \subseteq Range(run.game.stack) /\ new.runtimes \subseteq run.runtimes
    BY <1>1, <2>1, <2>4
  <2> QED BY <1>5, <2>2, <2>5, <2>6 DEF new
<1> QED BY <1>3, <1>4, <1>5

----------------------------------------------------------------------------
(* The actions.                                                             *)

\* The cursor of the turn, and the state as it stands between two actions.
TurnCursor == [turn |-> game.log.turn, next |-> turnStart]

\* What a step shows of the state it leaves, for the cursor of that state's turn.
LandsFit(start) ==
    /\ Core(game', start, runtimes') /\ CardFits(game') /\ registered' \subseteq Cards
    /\ ContextFits(game'.stack, runtimes', contexts')
    /\ TableFits(conditional', runtimes')
    /\ Running' => Exact(game', runtimes', registered', conditional', {})
    /\ LookupFits(game', result')

LEMMA NowSound ==
  ASSUME RuntimeFits, Running
  PROVE  Sound(game, TurnCursor, runtimes, registered, conditional, {})
BY DEF RuntimeFits, Sound, TurnCursor

\* What is known of a stack entry outlives other entries.
LEMMA ContextsStay ==
  ASSUME NEW stack, NEW rows, NEW known, ContextFits(stack, rows, known),
         \A x, y \in Range(stack) : x.id = y.id => x = y,
         NEW e \in Range(stack), NEW rest, Range(rest) \subseteq Range(stack) \ {e}, NEW left \in SUBSET rows
  PROVE  ContextFits(rest, left, {c \in known : c.entry # e.id})
<1> SUFFICES ASSUME NEW x \in Range(rest), NEW r \in left, r.trigger = x.trigger, AbilityIn(r).does = "drawUnlessPaid"
             PROVE  \E c \in {c \in known : c.entry # e.id} : c.entry = x.id /\ c.player \in Players \ {x.controller}
  BY DEF ContextFits
<1>1. x \in Range(stack) /\ x.id # e.id
  OBVIOUS
<1>2. PICK c \in known : c.entry = x.id /\ c.player \in Players \ {x.controller}
  BY <1>1 DEF ContextFits
<1> QED BY <1>1, <1>2

\* A resolving spell affects every target the kernel checks, whether or not
\* that card has been away meanwhile, and moves no other but itself and the dead.
AffectedAsChecked ==
    LET entry == Last(game.stack)
    IN EffectRuns(entry) => \A c \in Cards \ {entry.object} :
           IF AimsAt(entry, c) THEN game'.zone[c] = Fate[Text[entry.object].effect] ELSE Stays(c)

LEMMA ResolveStep ==
  ASSUME RuntimeFits, ResolveEntry, NEW start, start = TurnCursor
  PROVE  LandsFit(start) /\ AffectedAsChecked
<1> PICK entry, record, resolved : /\ entry = Last(game.stack) /\ record = Resolution(game)
                                   /\ resolved = ResolveTop(game)
  OBVIOUS
<1>1. PICK dead \in Deaths(resolved), paid \in BOOLEAN :
         /\ Ended(HandleResolution(Now(Bury(resolved, dead)), record, paid))
         /\ contexts' = {c \in contexts : c.entry # record.entry}
         /\ UNCHANGED <<registered, fuel>>
         /\ Running /\ game.stack # <<>>
  BY DEF ResolveEntry
<1> PICK buried : buried = Bury(resolved, dead)
  OBVIOUS
<1> PICK run : run = Now(buried)
  OBVIOUS
<1> PICK new : new = HandleResolution(run, record, paid)
  OBVIOUS
<1>2. game' = new.game /\ runtimes' = new.runtimes /\ conditional' = new.conditional /\ result' = new.error
  BY <1>1 DEF Ended
<1>3. /\ Sound(game, start, runtimes, registered, conditional, {})
      /\ game \in States /\ CardFits(game) /\ runtimes \subseteq Rows /\ registered \subseteq Cards
      /\ RowsFit(game, runtimes) /\ WaitingFits(game, runtimes)
      /\ ContextFits(game.stack, runtimes, contexts) /\ conditional \in Tables
  BY <1>1, NowSound DEF Sound, Core, RuntimeFits, TableFits
<1>4. /\ entry \in Entries /\ entry \in Range(game.stack) /\ EntryFits(game, entry)
      /\ record.entry = entry.id /\ record.controller = entry.controller /\ record.object = entry.object
      /\ record.trigger = entry.trigger /\ record.targets = entry.targets
      /\ DOMAIN record.targets = 1 .. Len(record.targets)
      /\ \A i \in DOMAIN record.targets : record.legal[i] <=> StillLegal(game, entry.targets[i])
      /\ record.outcome # "Resolved" => \A i \in DOMAIN record.targets : ~record.legal[i]
      /\ record.object # None => Aims(record, Text[record.object].effect)
  BY <1>1, <1>3, RecordFacts
<1>5. PICK moving :
         /\ record.object = None => moving = {}
         /\ record.object # None => record.object \in Cards /\ moving = {record.object}
         /\ Sound(resolved, start, runtimes, registered, conditional, moving)
         /\ resolved.stack = Front(game.stack)
         /\ \A c \in Cards : c # record.object => resolved.zone[c] = game.zone[c]
  <2>1. Sound(game, start, runtimes, registered, conditional, {}) /\ game.stack # <<>>
    BY <1>1, <1>3
  <2>2. \E moving :
            /\ Retiring(record, moving) /\ Sound(resolved, start, runtimes, registered, conditional, moving)
            /\ Resolved(game, record, resolved)
    BY <2>1, TopSound
  <2> QED BY <2>2 DEF Retiring, Resolved
<1>6. /\ Sound(buried, start, runtimes, registered, conditional, moving) /\ Buried(resolved, buried)
      /\ buried.stack = Front(game.stack)
  <2>1. LET after == Bury(resolved, dead)
        IN /\ Sound(after, start, runtimes, registered, conditional, moving) /\ Buried(resolved, after)
           /\ after.stack = resolved.stack /\ after.nextTrigger = resolved.nextTrigger /\ after.nextEntry = resolved.nextEntry
    BY <1>5, BurySound
  <2> QED BY <1>5, <2>1
<1>7. /\ RunFits(run, start, registered, moving) /\ run.error = "Ok" /\ run.game = buried /\ run.runtimes = runtimes
  <2>1. run.game = buried /\ run.runtimes = runtimes /\ run.conditional = conditional /\ run.error = "Ok"
    BY DEF Now
  <2>2. buried \in States
    BY <1>6 DEF Sound, Core
  <2>3. run \in Runs
    BY <1>3, <2>2 DEF Now, Runs, Errors
  <2>4. RunFits(run, start, registered, moving)
    BY <1>6, <2>1, <2>3 DEF Sound, RunFits
  <2> QED BY <2>1, <2>4
<1>8. /\ record.object = None => moving = {} /\ record.trigger # None
      /\ record.object # None =>
            /\ record.object \in Cards /\ moving = {record.object} /\ record.trigger = None
            /\ Aims(record, Text[record.object].effect)
  BY <1>4, <1>5 DEF EntryFits
<1>9. /\ record.controller \in Players
      /\ record.trigger # None => SourceOf(record.trigger) \in Cards /\ AbilityOf(record.trigger) \in Abilities
  <2>1. entry.controller \in Players
    BY <1>4 DEF Entries
  <2>2. ASSUME record.trigger # None
        PROVE  SourceOf(record.trigger) \in Cards /\ AbilityOf(record.trigger) \in Abilities
    <3>1. record.trigger \in Waiting(game)
      BY <1>4, <2>2 DEF Waiting
    <3>2. \E r \in runtimes : r.trigger = record.trigger
      BY <1>3, <3>1 DEF WaitingFits
    <3>3. \A q, r \in runtimes : q.trigger = r.trigger => q = r
      BY <1>3 DEF RowsFit
    <3> QED BY <1>3, <3>2, <3>3, LookUp
  <2> QED BY <1>4, <2>1, <2>2
<1>10. /\ RunFits(new, start, registered, {})
       /\ Range(new.game.stack) \subseteq Range(run.game.stack) /\ new.runtimes \subseteq run.runtimes
       /\ record.object # None /\ Text[record.object].effect \in DOMAIN Moves /\ new.error = "Ok" =>
             IF record.outcome = "Resolved"
             THEN Settled(run.game, new, record, Moves[Text[record.object].effect], Len(record.targets))
             ELSE new.game.zone = run.game.zone
  <2>1. LET after == HandleResolution(run, record, paid)
        IN /\ RunFits(after, start, registered, {})
           /\ Range(after.game.stack) \subseteq Range(run.game.stack) /\ after.runtimes \subseteq run.runtimes
           /\ record.object # None /\ Text[record.object].effect \in DOMAIN Moves /\ after.error = "Ok" =>
                 IF record.outcome = "Resolved"
                 THEN Settled(run.game, after, record, Moves[Text[record.object].effect], Len(record.targets))
                 ELSE after.game.zone = run.game.zone
    BY <1>7, <1>8, <1>9, HandleSound
  <2> QED BY <2>1
<1>11. ContextFits(game'.stack, runtimes', contexts')
  <2>1. \A x, y \in Range(game.stack) : x.id = y.id => x = y
    BY <1>3 DEF CardFits, StackFits
  <2>2. Range(new.game.stack) \subseteq Range(game.stack) \ {entry}
    <3>1. game.stack \in Seq(Entries) /\ IsInjective(game.stack)
      BY <1>3 DEF States, CardFits, StackFits
    <3>2. Range(Front(game.stack)) = Range(game.stack) \ {entry}
      BY <1>1, <3>1, TopRemoved DEF Removes
    <3> QED BY <1>6, <1>7, <1>10, <3>2
  <2>3. new.runtimes \in SUBSET runtimes
    BY <1>7, <1>10
  <2>4. ContextFits(new.game.stack, new.runtimes, {c \in contexts : c.entry # entry.id})
    BY <1>3, <1>4, <2>1, <2>2, <2>3, ContextsStay
  <2> QED BY <1>1, <1>2, <1>4, <2>4
<1>12. AffectedAsChecked
  <2> DEFINE effect == Text[entry.object].effect
  <2> SUFFICES ASSUME entry.object # None, effect \in DOMAIN Fate, new.error = "Ok",
                      NEW c \in Cards \ {entry.object}
               PROVE  IF \E i \in DOMAIN entry.targets : entry.targets[i].choice = c /\ StillLegal(game, entry.targets[i])
                      THEN new.game.zone[c] = Fate[effect]
                      ELSE new.game.zone[c] = game.zone[c] \/ (c \in Mortal /\ new.game.zone[c] = "graveyard")
    BY <1>1, <1>2 DEF AffectedAsChecked, EffectRuns, AimsAt, Stays
  <2>1. Fate = Moves
    BY DEF Fate, Moves
  <2>2. Aimed(record, Len(record.targets), c) <=>
            \E i \in DOMAIN entry.targets : entry.targets[i].choice = c /\ StillLegal(game, entry.targets[i])
    BY <1>4 DEF Aimed
  <2>3. buried.zone[c] = game.zone[c] \/ (c \in Mortal /\ buried.zone[c] = "graveyard")
    BY <1>4, <1>5, <1>6 DEF Buried
  <2>4. IF record.outcome = "Resolved"
        THEN Settled(buried, new, record, Moves[effect], Len(record.targets))
        ELSE new.game.zone = buried.zone
    BY <1>4, <1>7, <1>10, <2>1
  <2>5. CASE record.outcome = "Resolved"
    <3>1. new.game.zone[c] = IF Aimed(record, Len(record.targets), c) THEN Moves[effect] ELSE buried.zone[c]
      BY <2>4, <2>5 DEF Settled
    <3> QED BY <2>1, <2>2, <2>3, <3>1
  <2>6. CASE record.outcome # "Resolved"
    <3>1. ~Aimed(record, Len(record.targets), c)
      BY <1>4, <2>6 DEF Aimed
    <3> QED BY <2>2, <2>3, <2>4, <2>6, <3>1
  <2> QED BY <2>5, <2>6
<1>13. new.error # "CannotRecoverEvent"
  BY <1>10 DEF RunFits, Runs, Errors
<1> QED BY <1>1, <1>2, <1>3, <1>10, <1>11, <1>12, <1>13 DEF LandsFit, RunFits, Running, LookupFits

\* An action that takes no entry off the stack resolves nothing.
LEMMA NothingResolved ==
  ASSUME Len(game.stack) \in Nat, game.stack \in Seq(Entries), Len(game'.stack) \in Nat,
         Len(game'.stack) >= Len(game.stack)
  PROVE  AffectedAsChecked
<1> SUFFICES ASSUME game.stack # <<>>, game'.stack = Front(game.stack)
             PROVE  FALSE
  BY DEF AffectedAsChecked, EffectRuns
<1>1. Len(Front(game.stack)) = Len(game.stack) - 1
  BY DEF Front
<1> QED BY <1>1

\* The entry that a pending trigger becomes.
Raised(g, p, k) == [id |-> g.nextEntry + k - 1, controller |-> p.controller, object |-> None,
                    trigger |-> p.trigger, targets |-> <<>>]

Drained(g, order, new) ==
    /\ new.zone = g.zone /\ Len(new.stack) \in Nat /\ Len(new.stack) >= Len(g.stack)
    /\ \A e : e \in Range(new.stack) <=>
          e \in Range(g.stack) \/ \E k \in 1 .. Len(order) : e = Raised(g, order[k], k)

LEMMA DrainSound ==
  ASSUME NEW g, NEW start, NEW rows, NEW known, NEW table, NEW moving,
         Sound(g, start, rows, known, table, moving),
         NEW order \in Seq(Pendings), Range(order) \subseteq Range(g.pending)
  PROVE  LET new == Drain(g, order)
         IN Sound(new, start, rows, known, table, moving) /\ Drained(g, order, new)
<1> DEFINE raised == [k \in DOMAIN order |-> Raised(g, order[k], k)]
           stack == g.stack \o raised
           n == Len(order)
           new == Drain(g, order)
<1>1. /\ Core(g, start, rows) /\ CardFits(g) /\ g \in States
      /\ g.stack \in Seq(Entries) /\ IsInjective(g.stack) /\ g.nextEntry \in Nat /\ g.nextTrigger \in Nat
  BY DEF Sound, Core, States, CardFits, StackFits
<1>2. n \in Nat /\ DOMAIN order = 1 .. n /\ \A k \in 1 .. n : order[k] \in Pendings /\ order[k] \in Range(g.pending)
  <2>1. n \in Nat /\ DOMAIN order = 1 .. n /\ \A k \in 1 .. n : order[k] \in Pendings
    OBVIOUS
  <2>2. \A k \in 1 .. n : order[k] \in Range(order)
    BY <2>1 DEF Range
  <2> QED BY <2>1, <2>2
<1> HIDE DEF n
<1>3. ASSUME NEW k \in 1 .. n
      PROVE  /\ Raised(g, order[k], k) \in Entries
             /\ Raised(g, order[k], k).id = g.nextEntry + k - 1 /\ Raised(g, order[k], k).object = None
             /\ Raised(g, order[k], k).trigger = order[k].trigger /\ Raised(g, order[k], k).targets = <<>>
             /\ Raised(g, order[k], k).controller = order[k].controller
             /\ order[k].trigger \in Nat
  <2>1. g.nextEntry + k - 1 \in Nat
    BY <1>1, <1>2
  <2>2. order[k].trigger \in Nat /\ order[k].controller \in Players
    BY <1>2 DEF Pendings
  <2>3. <<>> \in Seq(Targets)
    OBVIOUS
  <2> QED BY <2>1, <2>2, <2>3 DEF Raised, Entries
<1>4. raised \in Seq(Entries) /\ Len(raised) = n /\ DOMAIN raised = 1 .. n /\ \A k \in 1 .. n : raised[k] = Raised(g, order[k], k)
  BY <1>2, <1>3
<1> HIDE DEF raised
<1>5. IsInjective(raised)
  <2>1. ASSUME NEW i \in 1 .. n, NEW j \in 1 .. n, raised[i] = raised[j]
        PROVE  i = j
    <3>1. g.nextEntry + i - 1 = g.nextEntry + j - 1
      BY <1>3, <1>4, <2>1
    <3> QED BY <1>1, <1>2, <3>1
  <2> QED BY <1>4, <2>1 DEF IsInjective
<1>6. \A e : e \in Range(raised) <=> \E k \in 1 .. n : e = Raised(g, order[k], k)
  BY <1>4 DEF Range
<1>7. \A e \in Range(g.stack) : EntryFits(g, e) /\ e \in Entries
  <2>1. \A e \in Range(g.stack) : e \in Entries
    BY <1>1 DEF Range
  <2> QED BY <1>1, <2>1 DEF CardFits, StackFits
<1>8. \A e \in Range(raised) : e.id >= g.nextEntry /\ e.id < g.nextEntry + n
  <2> SUFFICES ASSUME NEW e \in Range(raised) PROVE e.id >= g.nextEntry /\ e.id < g.nextEntry + n
    OBVIOUS
  <2>1. PICK k \in 1 .. n : e.id = g.nextEntry + k - 1
    BY <1>3, <1>6
  <2> QED BY <1>1, <1>2, <2>1
<1>9. \A e \in Range(g.stack) : e.id < g.nextEntry /\ e.id \in Nat
  BY <1>7 DEF EntryFits, Entries
<1>10. Range(g.stack) \cap Range(raised) = {}
  BY <1>1, <1>8, <1>9
<1>11. /\ stack \in Seq(Entries) /\ Len(stack) = Len(g.stack) + n
       /\ Range(stack) = Range(g.stack) \cup Range(raised) /\ IsInjective(stack)
  <2> PICK s : s = g.stack
    OBVIOUS
  <2>1. s \in Seq(Entries) /\ raised \in Seq(Entries) /\ IsInjective(s) /\ IsInjective(raised) /\ Len(raised) = n
        /\ Range(s) \cap Range(raised) = {} /\ stack = s \o raised
    BY <1>1, <1>4, <1>5, <1>10
  <2> HIDE DEF stack
  <2>2. /\ s \o raised \in Seq(Entries) /\ Len(s \o raised) = Len(s) + Len(raised)
        /\ Range(s \o raised) = Range(s) \cup Range(raised)
        /\ IsInjective(s) /\ IsInjective(raised) /\ Range(s) \cap Range(raised) = {} => IsInjective(s \o raised)
    <3>1. s \in Seq(Entries) /\ raised \in Seq(Entries)
      BY <2>1
    <3> QED BY <3>1, ConcatFacts
  <2> QED BY <2>1, <2>2
<1>12. new = [g EXCEPT !.pending = <<>>, !.stack = stack, !.nextEntry = g.nextEntry + n]
  BY DEF Drain, stack, raised, Raised, n
<1> HIDE DEF new, stack
<1>13. /\ new \in States /\ new.zone = g.zone /\ new.stack = stack /\ new.subs = g.subs /\ new.log = g.log
       /\ new.pending = <<>> /\ new.nextTrigger = g.nextTrigger /\ new.nextEntry = g.nextEntry + n
  <2>1. <<>> \in Seq(Pendings) /\ g.nextEntry + n \in Nat
    BY <1>1, <1>2
  <2> QED BY <1>1, <1>11, <1>12, <2>1 DEF States
<1>14. Core(new, start, rows)
  <2>1. Range(new.pending) = {}
    BY <1>13 DEF Range
  <2>2. Waiting(new) \subseteq Waiting(g)
    <3>1. \A e \in Range(raised) : \E p \in Range(g.pending) : e.trigger = p.trigger
      BY <1>2, <1>3, <1>6
    <3> QED BY <1>11, <1>13, <2>1, <3>1 DEF Waiting
  <2>3. WaitingFits(new, rows)
    BY <1>1, <1>13, <2>2 DEF Core, WaitingFits
  <2>4. LogFits(new.log, start.next) /\ PendingFits(new, start.next) /\ RowsFit(new, rows) /\ SubsFit(new, rows)
    BY <1>1, <1>13, <2>1 DEF Core, PendingFits, RowsFit, SubsFit
  <2> QED BY <1>1, <1>13, <2>3, <2>4 DEF Core
<1>15. CardFits(new)
  <2>1. ASSUME NEW e \in Range(stack)
        PROVE  EntryFits(new, e)
    <3>1. CASE e \in Range(g.stack)
      <4>1. e.id < new.nextEntry
        BY <1>1, <1>2, <1>9, <1>13, <3>1
      <4> QED BY <1>7, <1>13, <3>1, <4>1 DEF EntryFits
    <3>2. CASE e \in Range(raised)
      <4>1. e.object = None /\ e.targets = <<>> /\ e.trigger \in Nat
        BY <1>3, <1>6, <3>2
      <4>2. e.id < new.nextEntry
        BY <1>8, <1>13, <3>2
      <4> QED BY <4>1, <4>2, SpellStackAssumption DEF EntryFits
    <3> QED BY <1>11, <3>1, <3>2
  <2>2. ASSUME NEW x \in Range(stack), NEW y \in Range(stack), x.id = y.id \/ (x.object = y.object /\ x.object # None)
        PROVE  x = y
    <3>1. CASE x \in Range(g.stack) /\ y \in Range(g.stack)
      BY <1>1, <2>2, <3>1 DEF CardFits, StackFits
    <3>2. CASE x \in Range(raised) /\ y \in Range(raised)
      <4>1. PICK i \in 1 .. n : x = Raised(g, order[i], i)
        BY <1>6, <3>2
      <4>2. PICK j \in 1 .. n : y = Raised(g, order[j], j)
        BY <1>6, <3>2
      <4>3. g.nextEntry + i - 1 = g.nextEntry + j - 1
        BY <1>3, <2>2, <4>1, <4>2
      <4>4. i = j
        BY <1>1, <1>2, <4>3
      <4> QED BY <4>1, <4>2, <4>4
    <3>3. CASE x \in Range(g.stack) /\ y \in Range(raised)
      <4>1. y.object = None
        BY <1>3, <1>6, <3>3
      <4> QED BY <1>1, <1>8, <1>9, <2>2, <3>3, <4>1
    <3>4. CASE x \in Range(raised) /\ y \in Range(g.stack)
      <4>1. x.object = None
        BY <1>3, <1>6, <3>4
      <4> QED BY <1>1, <1>8, <1>9, <2>2, <3>4, <4>1
    <3> QED BY <1>11, <3>1, <3>2, <3>3, <3>4
  <2>3. StackFits(new)
    BY <1>11, <1>13, <2>1, <2>2 DEF StackFits
  <2> QED BY <1>1, <1>11, <1>13, <2>3 DEF CardFits
<1>16. Exact(new, rows, known, table, moving)
  BY <1>13 DEF Sound, Exact, Subscribed
<1>17. Sound(new, start, rows, known, table, moving)
  BY <1>14, <1>15, <1>16 DEF Sound
<1>18. Len(new.stack) \in Nat /\ Len(new.stack) >= Len(g.stack)
  <2>1. Len(g.stack) \in Nat
    BY <1>1
  <2> QED BY <1>2, <1>11, <1>13, <2>1
<1> QED BY <1>6, <1>11, <1>13, <1>17, <1>18 DEF new, n, Drained

LEMMA PutStep ==
  ASSUME RuntimeFits, PutTriggersOnStack, NEW start, start = TurnCursor
  PROVE  LandsFit(start) /\ AffectedAsChecked
<1> DEFINE ordered(o) == [i \in DOMAIN o |-> game.pending[o[i]]]
           failing(o) == {i \in DOMAIN o : ContextError(ordered(o)[i]) # "Ok"}
<1>1. PICK o \in Orders :
         \/ \E i \in failing(o) :
               /\ \A j \in failing(o) : i <= j
               /\ result' = ContextError(ordered(o)[i])
               /\ UNCHANGED <<game, contexts>>
         \/ /\ failing(o) = {}
            /\ \E dead \in Deaths(game) : game' = Bury(Drain(game, ordered(o)), dead)
            /\ contexts' = contexts \cup
                 {[entry |-> game.nextEntry + i - 1, player |-> PlayerOf(ordered(o)[i])] :
                       i \in {j \in DOMAIN o : NeedsContext(ordered(o)[j])}}
            /\ UNCHANGED result
  BY DEF PutTriggersOnStack
<1>2. Running /\ UNCHANGED <<tables, fuel>>
  BY DEF PutTriggersOnStack
<1> PICK order : order = ordered(o)
  OBVIOUS
<1>3. /\ Sound(game, start, runtimes, registered, conditional, {})
      /\ Core(game, start, runtimes) /\ game \in States /\ CardFits(game) /\ runtimes \subseteq Rows /\ registered \subseteq Cards
      /\ RowsFit(game, runtimes) /\ WaitingFits(game, runtimes) /\ PendingFits(game, start.next)
      /\ LogFits(game.log, start.next) /\ game.log \in Logs
      /\ ContextFits(game.stack, runtimes, contexts) /\ TableFits(conditional, runtimes)
      /\ game.stack \in Seq(Entries) /\ game.pending \in Seq(Pendings)
  BY <1>2, NowSound DEF Sound, Core, RuntimeFits, States
<1>4. UNCHANGED <<registered, runtimes, conditional>>
  BY <1>2 DEF tables
<1>5. /\ DOMAIN o = 1 .. Len(order) /\ order \in Seq(Pendings)
      /\ \A i \in DOMAIN o : o[i] \in DOMAIN game.pending /\ order[i] = game.pending[o[i]]
      /\ Range(order) \subseteq Range(game.pending)
  <2> DEFINE n == Len(game.pending)
  <2>1. n \in Nat /\ DOMAIN game.pending = 1 .. n /\ \A i \in 1 .. n : game.pending[i] \in Pendings
    BY <1>3
  <2> HIDE DEF n
  <2>2. o \in [1 .. n -> 1 .. n]
    BY DEF Orders, n
  <2>3. /\ DOMAIN order = 1 .. n /\ \A i \in 1 .. n : order[i] = game.pending[o[i]]
        /\ order = [i \in 1 .. n |-> game.pending[o[i]]]
    BY <2>2
  <2>4. order \in Seq(Pendings) /\ Len(order) = n
    BY <2>1, <2>2, <2>3
  <2>5. Range(order) \subseteq Range(game.pending)
    BY <2>1, <2>2, <2>3 DEF Range
  <2> QED BY <2>1, <2>2, <2>3, <2>4, <2>5
<1> HIDE DEF ordered
<1>6. failing(o) = {i \in DOMAIN o : ContextError(order[i]) # "Ok"}
  OBVIOUS
<1>7. ASSUME NEW i \in DOMAIN o
      PROVE  /\ order[i] \in Pendings /\ order[i] \in Range(game.pending)
             /\ order[i].turn = game.log.turn /\ start.next <= order[i].sequence /\ order[i].sequence < game.log.next
             /\ \A r \in Range(game.log.events) : r.sequence = order[i].sequence /\ r.event.kind = "drawn" =>
                   r.event.player \in Players \ {order[i].controller}
             /\ \A r \in runtimes : r.trigger = order[i].trigger => AbilityOf(order[i].trigger) = AbilityIn(r)
             /\ AbilityOf(order[i].trigger) \in Abilities
  <2>1. order[i] \in Pendings /\ order[i] \in Range(game.pending)
    BY <1>3, <1>5 DEF Range
  <2>2. order[i].trigger \in Waiting(game)
    BY <2>1 DEF Waiting
  <2>3. \E r \in runtimes : r.trigger = order[i].trigger
    BY <1>3, <2>2 DEF WaitingFits
  <2>4. \A q, r \in runtimes : q.trigger = r.trigger => q = r
    BY <1>3 DEF RowsFit
  <2>5. /\ \A r \in runtimes : r.trigger = order[i].trigger => AbilityOf(order[i].trigger) = AbilityIn(r)
        /\ AbilityOf(order[i].trigger) \in Abilities
    BY <1>3, <2>3, <2>4, LookUp
  <2> QED BY <1>3, <2>1, <2>5 DEF PendingFits
<1>8. CASE \E i \in failing(o) :
              /\ result' = ContextError(ordered(o)[i])
              /\ UNCHANGED <<game, contexts>>
  <2>1. PICK i \in DOMAIN o : /\ result' = ContextError(order[i]) /\ ContextError(order[i]) # "Ok"
                              /\ game' = game /\ contexts' = contexts
    BY <1>6, <1>8
  <2>2. ~Running'
    BY <2>1 DEF Running
  <2>3. ASSUME result' = "CannotRecoverEvent"
        PROVE  \E k \in DOMAIN game.pending : game.log.next - game.pending[k].sequence > Capacity
    <3>1. TriggeringEvent(order[i]) = {}
      BY <2>1, <2>3 DEF ContextError
    <3>2. Recorded(game.log, game.log.turn, order[i].sequence) = {}
      BY <1>7, <3>1 DEF TriggeringEvent
    <3>3. order[i].sequence \in Nat
      BY <1>7 DEF Pendings
    <3>4. ~(game.log.next - order[i].sequence <= Capacity)
      BY <1>3, <1>7, <3>2, <3>3, LogFinds
    <3>5. game.log.next - order[i].sequence > Capacity
      <4>1. game.log.next \in Nat /\ Capacity \in Nat
        BY <1>3, CapacityAssumption DEF Logs
      <4> QED BY <3>3, <3>4, <4>1
    <3> QED BY <1>5, <3>5
  <2>4. AffectedAsChecked
    <3>1. Len(game.stack) \in Nat
      BY <1>3
    <3> QED BY <1>3, <2>1, <3>1, NothingResolved
  <2> QED BY <1>3, <1>4, <2>1, <2>2, <2>3, <2>4 DEF LandsFit, LookupFits
<1>9. CASE /\ failing(o) = {}
           /\ \E dead \in Deaths(game) : game' = Bury(Drain(game, ordered(o)), dead)
           /\ contexts' = contexts \cup
                {[entry |-> game.nextEntry + i - 1, player |-> PlayerOf(ordered(o)[i])] :
                      i \in {j \in DOMAIN o : NeedsContext(ordered(o)[j])}}
           /\ UNCHANGED result
  <2> PICK drained : drained = Drain(game, order)
    OBVIOUS
  <2>1. PICK dead \in Deaths(game) : game' = Bury(drained, dead)
    BY <1>9
  <2>2. /\ contexts \subseteq contexts' /\ result' = result
        /\ \A i \in DOMAIN o : NeedsContext(order[i]) =>
              [entry |-> game.nextEntry + i - 1, player |-> PlayerOf(order[i])] \in contexts'
    BY <1>9
  <2>3. \A i \in DOMAIN o : ContextError(order[i]) = "Ok"
    BY <1>6, <1>9
  <2>4. /\ Sound(drained, start, runtimes, registered, conditional, {}) /\ drained.zone = game.zone
        /\ Len(drained.stack) \in Nat /\ Len(drained.stack) >= Len(game.stack)
        /\ \A e : e \in Range(drained.stack) <=>
              e \in Range(game.stack) \/ \E k \in 1 .. Len(order) : e = Raised(game, order[k], k)
    <3>1. LET new == Drain(game, order)
          IN Sound(new, start, runtimes, registered, conditional, {}) /\ Drained(game, order, new)
      BY <1>3, <1>5, DrainSound
    <3> QED BY <3>1 DEF Drained
  <2>5. dead \in Deaths(drained)
    BY <2>4 DEF Deaths
  <2>6. Sound(game', start, runtimes, registered, conditional, {}) /\ game'.stack = drained.stack
    <3>1. LET after == Bury(drained, dead)
          IN /\ Sound(after, start, runtimes, registered, conditional, {}) /\ Buried(drained, after)
             /\ after.stack = drained.stack /\ after.nextTrigger = drained.nextTrigger /\ after.nextEntry = drained.nextEntry
      BY <2>4, <2>5, BurySound
    <3> QED BY <2>1, <3>1
  <2>7. ContextFits(game'.stack, runtimes, contexts')
    <3> SUFFICES ASSUME NEW e \in Range(drained.stack), NEW r \in runtimes, r.trigger = e.trigger,
                        AbilityIn(r).does = "drawUnlessPaid"
                 PROVE  \E c \in contexts' : c.entry = e.id /\ c.player \in Players \ {e.controller}
      BY <2>6 DEF ContextFits
    <3>1. CASE e \in Range(game.stack)
      BY <1>3, <2>2, <3>1 DEF ContextFits
    <3>2. CASE \E k \in 1 .. Len(order) : e = Raised(game, order[k], k)
      <4>1. PICK k \in DOMAIN o : e = Raised(game, order[k], k)
        BY <1>5, <3>2
      <4>2. e.id = game.nextEntry + k - 1 /\ e.controller = order[k].controller /\ e.trigger = order[k].trigger
        BY <4>1 DEF Raised
      <4>3. NeedsContext(order[k])
        BY <1>7, <4>2 DEF NeedsContext
      <4>4. /\ TriggeringEvent(order[k]) # {}
            /\ \A i \in TriggeringEvent(order[k]) : game.log.events[i].event.kind = "drawn"
        BY <2>3, <4>3 DEF ContextError
      <4>5. PICK i \in TriggeringEvent(order[k]) : PlayerOf(order[k]) = game.log.events[i].event.player
        BY <4>4 DEF PlayerOf
      <4>6. i \in DOMAIN game.log.events /\ game.log.events[i].sequence = order[k].sequence
        BY DEF TriggeringEvent, Recorded
      <4>7. game.log.events[i] \in Range(game.log.events)
        BY <4>6 DEF Range
      <4>8. PlayerOf(order[k]) \in Players \ {e.controller}
        BY <1>7, <4>2, <4>4, <4>5, <4>6, <4>7
      <4> DEFINE c == [entry |-> game.nextEntry + k - 1, player |-> PlayerOf(order[k])]
      <4>9. c \in contexts' /\ c.entry = e.id /\ c.player = PlayerOf(order[k])
        BY <2>2, <4>2, <4>3
      <4> HIDE DEF c
      <4> QED BY <4>8, <4>9
    <3> QED BY <2>4, <3>1, <3>2
  <2>8. AffectedAsChecked
    <3>1. Len(game.stack) \in Nat
      BY <1>3
    <3> QED BY <1>3, <2>4, <2>6, <3>1, NothingResolved
  <2>9. LookupFits(game', result')
    BY <1>2, <2>2 DEF LookupFits, Running
  <2> QED BY <1>3, <1>4, <2>6, <2>7, <2>8, <2>9 DEF LandsFit, Sound
<1> QED BY <1>1, <1>8, <1>9

----------------------------------------------------------------------------
(* Registering the triggers of a card that was cast.                        *)

NewSub(g, player, card, a, k) ==
    [trigger |-> g.nextTrigger + k - 1, controller |-> player, source |-> card,
     event |-> Text[card].abilities[a].event, once |-> Text[card].abilities[a].alternate # "none"]
NewRow(g, card, a, k) == [trigger |-> g.nextTrigger + k - 1, source |-> card, ability |-> a]

\* `new` lists abilities of the card, each once; `after` is subscribed to them.
Listed(card, new) ==
    new \in Seq(DOMAIN Text[card].abilities) /\ IsInjective(new)
SubsAdded(g, after, player, card, new) ==
    /\ after \in States /\ after.zone = g.zone /\ after.stack = g.stack /\ after.pending = g.pending
    /\ after.log = g.log /\ after.nextEntry = g.nextEntry /\ after.nextTrigger = g.nextTrigger + Len(new)
    /\ IsInjective(after.subs)
    /\ \A x : x \in Range(after.subs) <=>
          x \in Range(g.subs) \/ \E k \in 1 .. Len(new) : x = NewSub(g, player, card, new[k], k)

LEMMA ListedFacts ==
  ASSUME NEW card \in Cards, NEW new, Listed(card, new)
  PROVE  /\ Len(new) \in Nat /\ DOMAIN new = 1 .. Len(new)
         /\ \A k \in 1 .. Len(new) : /\ new[k] \in DOMAIN Text[card].abilities /\ new[k] \in Nat
                                     /\ Text[card].abilities[new[k]] \in Abilities
         /\ \A i, j \in 1 .. Len(new) : new[i] = new[j] => i = j
<1>1. Text[card].abilities \in Seq(Abilities)
  BY ProgramAssumption DEF ProgramsFit, Programs
<1> DEFINE abilities == Text[card].abilities
<1>2. DOMAIN abilities = 1 .. Len(abilities) /\ Len(abilities) \in Nat /\ \A a \in DOMAIN abilities : abilities[a] \in Abilities
  BY <1>1
<1> HIDE DEF abilities
<1>3. new \in Seq(DOMAIN abilities) /\ IsInjective(new)
  BY DEF Listed, abilities
<1>4. Len(new) \in Nat /\ DOMAIN new = 1 .. Len(new) /\ \A k \in 1 .. Len(new) : new[k] \in DOMAIN abilities
  BY <1>3
<1>5. \A i, j \in 1 .. Len(new) : new[i] = new[j] => i = j
  BY <1>3, <1>4 DEF IsInjective
<1>6. \A k \in 1 .. Len(new) : new[k] \in DOMAIN abilities /\ new[k] \in Nat /\ abilities[new[k]] \in Abilities
  BY <1>2, <1>4
<1> QED BY <1>4, <1>5, <1>6 DEF abilities

LEMMA RegisterAdds ==
  ASSUME NEW g, NEW start, NEW rows, Core(g, start, rows), NEW player \in Players, NEW card \in Cards,
         NEW new, Listed(card, new), NEW definitions,
         definitions = [k \in DOMAIN new |-> [event |-> Text[card].abilities[new[k]].event,
                                              once |-> Text[card].abilities[new[k]].alternate # "none"]]
  PROVE  SubsAdded(g, Register(g, player, card, definitions), player, card, new)
<1> DEFINE n == Len(new)
           added == [k \in 1 .. n |-> NewSub(g, player, card, new[k], k)]
           subs == g.subs \o added
           after == Register(g, player, card, definitions)
<1>1. /\ g \in States /\ g.subs \in Seq(Subscriptions) /\ g.nextTrigger \in Nat /\ IsInjective(g.subs)
      /\ \A r \in rows : r.trigger < g.nextTrigger
      /\ \A x \in Range(g.subs) : \E r \in rows : r.trigger = x.trigger
  BY DEF Core, States, SubsFit, RowsFit
<1>2. /\ n \in Nat /\ DOMAIN new = 1 .. n
      /\ \A k \in 1 .. n : Text[card].abilities[new[k]] \in Abilities
  BY ListedFacts
<1>3. DOMAIN definitions = 1 .. n /\ Len(definitions) = n
  BY <1>2
<1> HIDE DEF n
<1>4. \A k \in 1 .. n : NewSub(g, player, card, new[k], k) = [trigger |-> g.nextTrigger + k - 1, controller |-> player,
         source |-> card, event |-> definitions[k].event, once |-> definitions[k].once]
  BY <1>2 DEF NewSub
<1>5. added = [k \in DOMAIN definitions |->
                  [trigger |-> g.nextTrigger + k - 1, controller |-> player, source |-> card,
                   event |-> definitions[k].event, once |-> definitions[k].once]]
  BY <1>3, <1>4
<1>6. after = [g EXCEPT !.subs = subs, !.nextTrigger = g.nextTrigger + n]
  <2> HIDE DEF added
  <2> QED BY <1>3, <1>5 DEF Register
<1> HIDE DEF after
<1>7. ASSUME NEW k \in 1 .. n
      PROVE  /\ NewSub(g, player, card, new[k], k) \in Subscriptions
             /\ NewSub(g, player, card, new[k], k).trigger = g.nextTrigger + k - 1
  <2>1. g.nextTrigger + k - 1 \in Nat
    BY <1>1, <1>2
  <2>2. Text[card].abilities[new[k]].event \in Happenings
    BY <1>2 DEF Abilities, Happenings
  <2> QED BY <2>1, <2>2 DEF NewSub, Subscriptions
<1>8. /\ added \in Seq(Subscriptions) /\ DOMAIN added = 1 .. n
      /\ \A k \in 1 .. n : added[k] = NewSub(g, player, card, new[k], k)
  BY <1>2, <1>7
<1> HIDE DEF added
<1>9. \A i, j \in 1 .. n : added[i] = added[j] => i = j
  <2> SUFFICES ASSUME NEW i \in 1 .. n, NEW j \in 1 .. n, added[i] = added[j]
               PROVE  i = j
    OBVIOUS
  <2>1. g.nextTrigger + i - 1 = g.nextTrigger + j - 1
    BY <1>7, <1>8
  <2> QED BY <1>1, <1>2, <2>1
<1>10. IsInjective(added)
  BY <1>8, <1>9 DEF IsInjective
<1>11. \A x : x \in Range(added) <=> \E k \in 1 .. n : x = NewSub(g, player, card, new[k], k)
  BY <1>8 DEF Range
<1>12. Range(g.subs) \cap Range(added) = {}
  <2> SUFFICES ASSUME NEW x \in Range(g.subs), NEW k \in 1 .. n, x = NewSub(g, player, card, new[k], k)
               PROVE  FALSE
    BY <1>11
  <2>1. PICK r \in rows : r.trigger = x.trigger
    BY <1>1
  <2>2. x.trigger < g.nextTrigger /\ x.trigger = g.nextTrigger + k - 1
    BY <1>1, <1>7, <2>1
  <2> QED BY <1>1, <1>2, <2>2
<1>13. subs \in Seq(Subscriptions) /\ Range(subs) = Range(g.subs) \cup Range(added) /\ IsInjective(subs)
  <2> PICK s : s = g.subs
    OBVIOUS
  <2>1. s \in Seq(Subscriptions) /\ IsInjective(s) /\ Range(s) \cap Range(added) = {} /\ subs = s \o added
    BY <1>1, <1>12
  <2> HIDE DEF subs
  <2>2. /\ s \o added \in Seq(Subscriptions)
        /\ Range(s \o added) = Range(s) \cup Range(added)
        /\ IsInjective(s) /\ IsInjective(added) /\ Range(s) \cap Range(added) = {} => IsInjective(s \o added)
    <3>1. s \in Seq(Subscriptions) /\ added \in Seq(Subscriptions)
      BY <1>8, <2>1
    <3> QED BY <3>1, ConcatFacts
  <2> QED BY <1>10, <2>1, <2>2
<1> HIDE DEF subs
<1>14. /\ after \in States /\ after.zone = g.zone /\ after.stack = g.stack /\ after.pending = g.pending
       /\ after.log = g.log /\ after.nextEntry = g.nextEntry /\ after.nextTrigger = g.nextTrigger + n
       /\ after.subs = subs
  <2>1. g.nextTrigger + n \in Nat
    BY <1>1, <1>2
  <2> QED BY <1>1, <1>6, <1>13, <2>1 DEF States
<1> QED BY <1>11, <1>13, <1>14 DEF SubsAdded, after, n

RowsAdded(g, rows, card, new, more) ==
    \A r : r \in more <=> r \in rows \/ \E k \in 1 .. Len(new) : r = NewRow(g, card, new[k], k)

NewOnes(g, player, card, new, k) ==
    LET x == NewSub(g, player, card, new[k], k)
        r == NewRow(g, card, new[k], k)
    IN /\ r \in Rows /\ r.trigger = g.nextTrigger + k - 1 /\ r.trigger >= g.nextTrigger
       /\ r.trigger < g.nextTrigger + Len(new) /\ r.source = card /\ r.ability = new[k]
       /\ AbilityIn(r) = Text[card].abilities[new[k]]
       /\ x.trigger = r.trigger /\ x.source = card
       /\ x.event = AbilityIn(r).event /\ (x.once <=> Conditional(r))
       /\ \A i \in 1 .. Len(new) : NewRow(g, card, new[i], i).trigger = r.trigger => i = k

LEMMA NewFacts ==
  ASSUME NEW g, g.nextTrigger \in Nat, NEW player, NEW card \in Cards, NEW new, Listed(card, new),
         NEW k \in 1 .. Len(new)
  PROVE  NewOnes(g, player, card, new, k)
<1>1. Len(new) \in Nat /\ new[k] \in DOMAIN Text[card].abilities /\ new[k] \in Nat
  BY ListedFacts
<1> DEFINE r == NewRow(g, card, new[k], k)
           x == NewSub(g, player, card, new[k], k)
<1>2. r.trigger = g.nextTrigger + k - 1 /\ r.source = card /\ r.ability = new[k]
  BY DEF NewRow
<1>3. g.nextTrigger + k - 1 \in Nat /\ g.nextTrigger + k - 1 >= g.nextTrigger
      /\ g.nextTrigger + k - 1 < g.nextTrigger + Len(new)
  BY <1>1
<1>4. r \in Rows
  BY <1>1, <1>3 DEF Rows, NewRow
<1>5. AbilityIn(r) = Text[card].abilities[new[k]]
  BY <1>2 DEF AbilityIn
<1>6. /\ x.trigger = r.trigger /\ x.source = card
      /\ x.event = AbilityIn(r).event /\ (x.once <=> Conditional(r))
  BY <1>2, <1>5 DEF NewSub, Conditional
<1>7. \A i \in 1 .. Len(new) : NewRow(g, card, new[i], i).trigger = r.trigger => i = k
  <2> SUFFICES ASSUME NEW i \in 1 .. Len(new), NewRow(g, card, new[i], i).trigger = r.trigger
               PROVE  i = k
    OBVIOUS
  <2>1. NewRow(g, card, new[i], i).trigger = g.nextTrigger + i - 1
    BY DEF NewRow
  <2>2. g.nextTrigger + i - 1 = g.nextTrigger + k - 1
    BY <1>2, <2>1
  <2> QED BY <1>1, <2>2
<1> QED BY <1>2, <1>3, <1>4, <1>5, <1>6, <1>7 DEF NewOnes

LEMMA RegisterCore ==
  ASSUME NEW g, NEW start, NEW rows, Core(g, start, rows), NEW player \in Players, NEW card \in Cards,
         NEW new, Listed(card, new), NEW after, SubsAdded(g, after, player, card, new),
         NEW more, RowsAdded(g, rows, card, new, more)
  PROVE  /\ Core(after, start, more)
         /\ \A r \in rows : r.trigger < g.nextTrigger /\ (Subscribed(after, r.trigger) <=> Subscribed(g, r.trigger))
         /\ \A k \in 1 .. Len(new) : Subscribed(after, NewRow(g, card, new[k], k).trigger)
<1> DEFINE n == Len(new)
           Row(k) == NewRow(g, card, new[k], k)
           Sub(k) == NewSub(g, player, card, new[k], k)
<1>1. /\ g \in States /\ g.nextTrigger \in Nat /\ rows \subseteq Rows /\ g.log.turn = start.turn
      /\ LogFits(g.log, start.next) /\ PendingFits(g, start.next)
      /\ RowsFit(g, rows) /\ SubsFit(g, rows) /\ WaitingFits(g, rows)
  BY DEF Core, States
<1>2. /\ after \in States /\ after.zone = g.zone /\ after.stack = g.stack /\ after.pending = g.pending
      /\ after.log = g.log /\ after.nextTrigger = g.nextTrigger + n
      /\ IsInjective(after.subs)
      /\ \A x : x \in Range(after.subs) <=> x \in Range(g.subs) \/ \E k \in 1 .. n : x = Sub(k)
  BY DEF SubsAdded
<1>3. n \in Nat
  BY ListedFacts
<1>4. ASSUME NEW k \in 1 .. n
      PROVE  /\ Row(k) \in Rows /\ Row(k).trigger >= g.nextTrigger /\ Row(k).trigger < g.nextTrigger + n
             /\ Row(k).trigger \in Nat
             /\ Row(k).source = card
             /\ Sub(k).trigger = Row(k).trigger /\ Sub(k).source = card
             /\ Sub(k).event = AbilityIn(Row(k)).event /\ (Sub(k).once <=> Conditional(Row(k)))
             /\ \A i \in 1 .. n : Row(i).trigger = Row(k).trigger => i = k
  <2>1. NewOnes(g, player, card, new, k)
    BY <1>1, NewFacts
  <2>2. Row(k).trigger \in Nat
    BY <1>1, <1>3, <2>1 DEF NewOnes
  <2> QED BY <2>1, <2>2 DEF NewOnes
<1>5. \A r : r \in more <=> r \in rows \/ \E k \in 1 .. n : r = Row(k)
  BY DEF RowsAdded
<1>6. \A r \in rows : r.trigger < g.nextTrigger /\ r.trigger \in Nat
  BY <1>1 DEF RowsFit, Rows
<1>7. \A x \in Range(g.subs) : \E r \in rows :
         /\ r.trigger = x.trigger /\ r.source = x.source
         /\ x.event = AbilityIn(r).event /\ (x.once <=> Conditional(r))
  BY <1>1 DEF SubsFit
<1> HIDE DEF n, Row, Sub
<1>8. \A r \in rows, k \in 1 .. n : r.trigger # Row(k).trigger
  BY <1>1, <1>4, <1>6
<1>9. \A x \in Range(g.subs), k \in 1 .. n : x.trigger # Row(k).trigger
  BY <1>7, <1>8
<1>10. more \subseteq Rows
  BY <1>1, <1>4, <1>5
<1>11. RowsFit(after, more)
  <2>1. ASSUME NEW r \in more
        PROVE  r.trigger < after.nextTrigger
    <3>1. CASE r \in rows
      BY <1>1, <1>2, <1>3, <1>6, <3>1
    <3>2. CASE \E k \in 1 .. n : r = Row(k)
      BY <1>2, <1>4, <3>2
    <3> QED BY <1>5, <3>1, <3>2
  <2>2. ASSUME NEW q \in more, NEW r \in more, q.trigger = r.trigger
        PROVE  q = r
    <3>1. CASE q \in rows /\ r \in rows
      BY <1>1, <2>2, <3>1 DEF RowsFit
    <3>2. CASE q \notin rows /\ r \notin rows
      <4>1. PICK i \in 1 .. n : q = Row(i)
        BY <1>5, <3>2
      <4>2. PICK j \in 1 .. n : r = Row(j)
        BY <1>5, <3>2
      <4> QED BY <1>4, <2>2, <4>1, <4>2
    <3>3. CASE q \in rows /\ r \notin rows
      BY <1>5, <1>8, <2>2, <3>3
    <3>4. CASE q \notin rows /\ r \in rows
      BY <1>5, <1>8, <2>2, <3>4
    <3> QED BY <3>1, <3>2, <3>3, <3>4
  <2> QED BY <2>1, <2>2 DEF RowsFit
<1>12. SubsFit(after, more)
  <2>1. ASSUME NEW x \in Range(after.subs), NEW y \in Range(after.subs), x.trigger = y.trigger
        PROVE  x = y
    <3>1. CASE x \in Range(g.subs) /\ y \in Range(g.subs)
      BY <1>1, <2>1, <3>1 DEF SubsFit
    <3>2. CASE x \notin Range(g.subs) /\ y \notin Range(g.subs)
      <4>1. PICK i \in 1 .. n : x = Sub(i)
        BY <1>2, <3>2
      <4>2. PICK j \in 1 .. n : y = Sub(j)
        BY <1>2, <3>2
      <4> QED BY <1>4, <2>1, <4>1, <4>2
    <3>3. CASE x \in Range(g.subs) /\ y \notin Range(g.subs)
      BY <1>2, <1>4, <1>9, <2>1, <3>3
    <3>4. CASE x \notin Range(g.subs) /\ y \in Range(g.subs)
      BY <1>2, <1>4, <1>9, <2>1, <3>4
    <3> QED BY <3>1, <3>2, <3>3, <3>4
  <2>2. ASSUME NEW x \in Range(after.subs)
        PROVE  \E r \in more : /\ r.trigger = x.trigger /\ r.source = x.source
                               /\ x.event = AbilityIn(r).event /\ (x.once <=> Conditional(r))
    <3>1. CASE x \in Range(g.subs)
      BY <1>5, <1>7, <3>1
    <3>2. CASE \E k \in 1 .. n : x = Sub(k)
      BY <1>4, <1>5, <3>2
    <3> QED BY <1>2, <3>1, <3>2
  <2> QED BY <1>2, <2>1, <2>2 DEF SubsFit
<1>13. WaitingFits(after, more)
  <2>1. Waiting(after) = Waiting(g)
    BY <1>2 DEF Waiting
  <2>2. \A t \in Waiting(g) : \E r \in rows : r.trigger = t
    BY <1>1 DEF WaitingFits
  <2>3. ASSUME NEW x \in Range(after.subs), x.once
        PROVE  x.trigger \notin Waiting(g)
    <3>1. CASE x \in Range(g.subs)
      BY <1>1, <2>3, <3>1 DEF WaitingFits
    <3>2. CASE \E k \in 1 .. n : x = Sub(k)
      BY <1>4, <1>8, <2>2, <3>2
    <3> QED BY <1>2, <3>1, <3>2
  <2> QED BY <1>5, <2>1, <2>2, <2>3 DEF WaitingFits
<1>14. Core(after, start, more)
  <2>1. LogFits(after.log, start.next) /\ PendingFits(after, start.next)
    BY <1>1, <1>2 DEF PendingFits
  <2> QED BY <1>1, <1>2, <1>10, <1>11, <1>12, <1>13, <2>1 DEF Core
<1>15. ASSUME NEW r \in rows
       PROVE  Subscribed(after, r.trigger) <=> Subscribed(g, r.trigger)
  BY <1>2, <1>4, <1>8 DEF Subscribed
<1>16. ASSUME NEW k \in 1 .. n
       PROVE  Subscribed(after, Row(k).trigger)
  BY <1>2, <1>4 DEF Subscribed
<1> QED BY <1>6, <1>14, <1>15, <1>16 DEF n, Row

\* The conditional triggers of this cast, at most one, are what the table holds.
TableAdded(g, table, card, new, kept) ==
    /\ kept \in Tables /\ Len(kept[card]) <= 1
    /\ \A d \in Cards \ {card} : kept[d] = table[d]
    /\ \A t : t \in Range(kept[card]) <=>
          \E k \in 1 .. Len(new) : t = NewRow(g, card, new[k], k).trigger /\ Conditional(NewRow(g, card, new[k], k))
\* An unconditional ability is registered on the first cast, and only then.
CalledFor(card, new, known) ==
    /\ \A k \in 1 .. Len(new) : Text[card].abilities[new[k]].alternate = "none" => card \notin known
    /\ card \notin known =>
          \A a \in DOMAIN Text[card].abilities :
              Text[card].abilities[a].alternate = "none" => \E k \in 1 .. Len(new) : new[k] = a

LEMMA RegisterSound ==
  ASSUME NEW g, NEW start, NEW rows, NEW known, NEW table, Sound(g, start, rows, known, table, {}),
         NEW player \in Players, NEW card \in Cards, g.zone[card] = "stack", table[card] = <<>>,
         NEW new, Listed(card, new), CalledFor(card, new, known),
         NEW after, SubsAdded(g, after, player, card, new),
         NEW more, RowsAdded(g, rows, card, new, more), NEW kept, TableAdded(g, table, card, new, kept)
  PROVE  Sound(after, start, more, known \cup {card}, kept, {})
<1> DEFINE n == Len(new)
           Row(k) == NewRow(g, card, new[k], k)
           all == known \cup {card}
<1>1. /\ Core(g, start, rows) /\ CardFits(g) /\ known \subseteq Cards /\ TableFits(table, rows)
      /\ Exact(g, rows, known, table, {}) /\ rows \subseteq Rows /\ g.nextTrigger \in Nat
  BY DEF Sound, Core, States
<1>2. /\ Core(after, start, more)
      /\ \A r \in rows : r.trigger < g.nextTrigger /\ (Subscribed(after, r.trigger) <=> Subscribed(g, r.trigger))
      /\ \A k \in 1 .. n : Subscribed(after, Row(k).trigger)
  BY <1>1, RegisterCore
<1>3. ASSUME NEW k \in 1 .. n
      PROVE  /\ Row(k) \in Rows /\ Row(k).source = card /\ Row(k).ability = new[k]
             /\ AbilityIn(Row(k)) = Text[card].abilities[new[k]]
             /\ \A i \in 1 .. n : new[i] = new[k] => i = k
  <2>1. NewOnes(g, player, card, new, k)
    BY <1>1, NewFacts
  <2>2. \A i \in 1 .. n : new[i] = new[k] => i = k
    BY ListedFacts
  <2> QED BY <2>1, <2>2 DEF NewOnes
<1>4. \A r : r \in more <=> r \in rows \/ \E k \in 1 .. n : r = Row(k)
  BY DEF RowsAdded
<1>5. /\ kept \in Tables /\ Len(kept[card]) <= 1
      /\ \A d \in Cards \ {card} : kept[d] = table[d]
      /\ \A t : t \in Range(kept[card]) <=> \E k \in 1 .. n : t = Row(k).trigger /\ Conditional(Row(k))
  BY DEF TableAdded
<1>6. after.zone = g.zone /\ after.stack = g.stack /\ after.nextEntry = g.nextEntry
  BY DEF SubsAdded
<1>7. /\ \A k \in 1 .. n : ~Conditional(Row(k)) => card \notin known
      /\ card \notin known =>
            \A a \in DOMAIN Text[card].abilities :
                Text[card].abilities[a].alternate = "none" => \E k \in 1 .. n : new[k] = a
  <2>1. \A k \in 1 .. n : Text[card].abilities[new[k]].alternate = "none" => card \notin known
    BY DEF CalledFor
  <2>2. \A k \in 1 .. n : ~Conditional(Row(k)) => card \notin known
    BY <1>3, <2>1 DEF Conditional
  <2> QED BY <2>2 DEF CalledFor
<1> HIDE DEF n, Row, all
<1>8. CardFits(after)
  BY <1>1, <1>6 DEF CardFits, StackFits, EntryFits
<1>9. TableFits(kept, more)
  <2> SUFFICES ASSUME NEW c \in Cards
               PROVE  /\ Len(kept[c]) <= 1
                      /\ \A t \in Range(kept[c]) : \E r \in more : r.trigger = t /\ r.source = c /\ Conditional(r)
    BY <1>5 DEF TableFits
  <2>1. CASE c = card
    BY <1>3, <1>4, <1>5, <2>1
  <2>2. CASE c # card
    BY <1>1, <1>4, <1>5, <2>2 DEF TableFits
  <2> QED BY <2>1, <2>2
<1>10. Exact(after, more, all, kept, {})
  <2>1. ASSUME NEW r \in more, ~Conditional(r)
        PROVE  /\ r.source \in all /\ Subscribed(after, r.trigger)
               /\ \A q \in more : q.source = r.source /\ q.ability = r.ability => q = r
    <3>1. \A q \in more : q.source = r.source /\ q.ability = r.ability => ~Conditional(q)
      BY <2>1 DEF Conditional, AbilityIn
    <3>2. CASE r \in rows
      <4>1. /\ r.source \in known /\ Subscribed(after, r.trigger)
            /\ \A q \in rows : q.source = r.source /\ q.ability = r.ability => q = r
        BY <1>1, <1>2, <2>1, <3>2 DEF Exact
      <4>2. \A k \in 1 .. n : ~(Row(k).source = r.source /\ Row(k).ability = r.ability)
        BY <1>3, <1>4, <1>7, <3>1, <4>1
      <4> QED BY <1>4, <4>1, <4>2 DEF all
    <3>3. CASE r \notin rows
      <4>1. PICK k \in 1 .. n : r = Row(k)
        BY <1>4, <3>3
      <4>2. card \notin known /\ r.source = card /\ r.ability = new[k]
        BY <1>3, <1>7, <2>1, <4>1
      <4>3. ASSUME NEW q \in more, q.source = r.source, q.ability = r.ability
            PROVE  q = r
        <5>1. ~Conditional(q)
          BY <3>1, <4>3
        <5>2. q \notin rows
          BY <1>1, <4>2, <4>3, <5>1 DEF Exact
        <5>3. PICK i \in 1 .. n : q = Row(i)
          BY <1>4, <5>2
        <5>4. new[i] = new[k]
          BY <1>3, <4>1, <4>3, <5>3
        <5> QED BY <1>3, <4>1, <5>3, <5>4
      <4> QED BY <1>2, <4>1, <4>2, <4>3 DEF all
    <3> QED BY <3>2, <3>3
  <2>2. ASSUME NEW c \in all, NEW a \in DOMAIN Text[c].abilities, Text[c].abilities[a].alternate = "none"
        PROVE  \E r \in more : r.source = c /\ r.ability = a
    <3>1. CASE c \in known
      BY <1>1, <1>4, <2>2, <3>1 DEF Exact
    <3>2. CASE c \notin known
      <4>1. c = card
        BY <3>2 DEF all
      <4>2. PICK k \in 1 .. n : new[k] = a
        BY <1>7, <2>2, <3>2, <4>1
      <4> QED BY <1>3, <1>4, <4>1, <4>2
    <3> QED BY <3>1, <3>2
  <2>3. ASSUME NEW r \in more, Conditional(r), Subscribed(after, r.trigger)
        PROVE  r.trigger \in Range(kept[r.source])
    <3>1. CASE r \in rows
      <4>1. r.trigger \in Range(table[r.source]) /\ r.source \in Cards
        BY <1>1, <1>2, <2>3, <3>1 DEF Exact, Rows
      <4>2. r.source # card
        <5>1. Range(<<>>) = {}
          BY DEF Range
        <5> QED BY <4>1, <5>1
      <4> QED BY <1>5, <4>1, <4>2
    <3>2. CASE r \notin rows
      BY <1>3, <1>4, <1>5, <2>3, <3>2
    <3> QED BY <3>1, <3>2
  <2>4. ASSUME NEW c \in Cards, kept[c] # <<>>
        PROVE  after.zone[c] = "stack" /\ \A t \in Range(kept[c]) : Subscribed(after, t)
    <3>1. CASE c = card
      BY <1>2, <1>5, <1>6, <3>1
    <3>2. CASE c # card
      <4>1. g.zone[c] = "stack" /\ \A t \in Range(table[c]) : Subscribed(g, t)
        BY <1>1, <1>5, <2>4, <3>2 DEF Exact
      <4>2. \A t \in Range(table[c]) : \E r \in rows : r.trigger = t
        BY <1>1 DEF TableFits
      <4> QED BY <1>2, <1>5, <1>6, <3>2, <4>1, <4>2
    <3> QED BY <3>1, <3>2
  <2> QED BY <2>1, <2>2, <2>3, <2>4 DEF Exact
<1>11. all \subseteq Cards
  BY <1>1 DEF all
<1> QED BY <1>2, <1>8, <1>9, <1>10, <1>11 DEF Sound, all

\* What a cast registers.
LEMMA ToRegisterFits ==
  ASSUME NEW card \in Cards, NEW alternate
  PROVE  Listed(card, ToRegister(card, alternate)) /\ CalledFor(card, ToRegister(card, alternate), registered)
<1> DEFINE abilities == Text[card].abilities
           D == DOMAIN abilities
           all == [i \in D |-> i]
           S == {i \in D : IF abilities[i].alternate = "none" THEN card \notin registered
                           ELSE abilities[i].alternate = alternate}
           new == ToRegister(card, alternate)
<1>1. abilities \in Seq(Abilities)
  BY ProgramAssumption DEF ProgramsFit, Programs
<1>2. new = Keep(all, S)
  BY DEF ToRegister
<1>3. D = 1 .. Len(abilities) /\ Len(abilities) \in Nat
  BY <1>1
<1> HIDE DEF abilities, D
<1>4. all \in Seq(D) /\ IsInjective(all) /\ Range(all) = D
  <2>1. all \in Seq(D)
    BY <1>3
  <2>2. IsInjective(all) /\ Range(all) = D
    BY DEF IsInjective, Range
  <2> QED BY <2>1, <2>2
<1> HIDE DEF all, S, new
<1>5. new \in Seq(D) /\ Range(new) = Range(all) \cap S /\ IsInjective(new)
  BY <1>2, <1>4, KeepFacts
<1>6. DOMAIN new = 1 .. Len(new)
  BY <1>5
<1>7. \A a \in D : a \in S <=> \E k \in 1 .. Len(new) : new[k] = a
  BY <1>4, <1>5, <1>6 DEF Range
<1>8. \A k \in 1 .. Len(new) : new[k] \in S /\ new[k] \in D
  BY <1>4, <1>5, <1>6 DEF Range
<1>9. Listed(card, new)
  BY <1>5 DEF Listed, D, abilities
<1>10. CalledFor(card, new, registered)
  BY <1>7, <1>8 DEF CalledFor, S, D, abilities
<1> QED BY <1>9, <1>10 DEF new

\* Those of the identifiers that fire once.
OnceOnly(card, new, id, once) ==
    \A t : t \in once <=> \E k \in 1 .. Len(new) : t = id[k] /\ Text[card].abilities[new[k]].alternate # "none"

LEMMA TableGrows ==
  ASSUME NEW g, g.nextTrigger \in Nat, NEW table \in Tables, NEW card \in Cards, table[card] = <<>>,
         NEW new, Listed(card, new),
         NEW id, id = [k \in DOMAIN new |-> g.nextTrigger + k - 1],
         NEW once, OnceOnly(card, new, id, once)
  PROVE  TableAdded(g, table, card, new, [table EXCEPT ![card] = @ \o Keep(id, once)])
<1> PICK kept : kept = [table EXCEPT ![card] = @ \o Keep(id, once)]
  OBVIOUS
<1> DEFINE n == Len(new)
           mine == Keep(id, once)
<1>1. /\ n \in Nat /\ DOMAIN new = 1 .. n
      /\ \A k \in 1 .. n : new[k] \in DOMAIN Text[card].abilities
      /\ \A i, j \in 1 .. n : new[i] = new[j] => i = j
  BY ListedFacts
<1> HIDE DEF n
<1>2. DOMAIN id = 1 .. n /\ \A k \in 1 .. n : id[k] = g.nextTrigger + k - 1 /\ id[k] \in Nat
  BY <1>1
<1>3. id \in Seq(Nat) /\ \A i, j \in 1 .. n : id[i] = id[j] => i = j
  <2>1. id \in Seq(Nat)
    BY <1>1, <1>2
  <2>2. ASSUME NEW i \in 1 .. n, NEW j \in 1 .. n, id[i] = id[j]
        PROVE  i = j
    <3>1. g.nextTrigger + i - 1 = g.nextTrigger + j - 1
      BY <1>2, <2>2
    <3> QED BY <1>1, <3>1
  <2> QED BY <2>1, <2>2
<1>4. IsInjective(id)
  BY <1>2, <1>3 DEF IsInjective
<1>5. mine \in Seq(Nat) /\ Range(mine) = Range(id) \cap once /\ IsInjective(mine)
  BY <1>3, <1>4, KeepFacts
<1> HIDE DEF mine
<1>6. \A t : t \in Range(mine) <=> \E k \in 1 .. n : t = id[k] /\ Text[card].abilities[new[k]].alternate # "none"
  <2>1. \A t : t \in once <=> \E k \in 1 .. n : t = id[k] /\ Text[card].abilities[new[k]].alternate # "none"
    BY DEF n, OnceOnly
  <2>2. \A t \in once : t \in Range(id)
    BY <1>2, <2>1 DEF Range
  <2> QED BY <1>5, <2>1, <2>2
<1>7. \A i, j \in 1 .. n : Text[card].abilities[new[i]].alternate # "none"
                           /\ Text[card].abilities[new[j]].alternate # "none" => i = j
  BY <1>1, ProgramAssumption DEF ProgramsFit
<1>8. Len(mine) \in Nat /\ Len(mine) <= 1 /\ DOMAIN mine = 1 .. Len(mine)
  <2>1. Len(mine) \in Nat /\ DOMAIN mine = 1 .. Len(mine)
    BY <1>5
  <2>2. ASSUME Len(mine) > 1
        PROVE  FALSE
    <3>1. 1 \in DOMAIN mine /\ 2 \in DOMAIN mine
      BY <2>1, <2>2
    <3>2. mine[1] \in Range(mine) /\ mine[2] \in Range(mine)
      BY <3>1 DEF Range
    <3>3. mine[1] = mine[2]
      BY <1>6, <1>7, <3>2
    <3> QED BY <1>5, <3>1, <3>3 DEF IsInjective
  <2> QED BY <2>1, <2>2
<1>9. <<>> \o mine = mine
  BY <1>5
<1>10. kept = [table EXCEPT ![card] = mine]
  BY <1>9 DEF mine
<1>11. kept \in Tables /\ kept[card] = mine /\ \A d \in Cards \ {card} : kept[d] = table[d]
  BY <1>5, <1>10 DEF Tables
<1>12. \A k \in 1 .. n : /\ NewRow(g, card, new[k], k).trigger = id[k]
                         /\ Conditional(NewRow(g, card, new[k], k)) <=> Text[card].abilities[new[k]].alternate # "none"
  BY <1>2 DEF NewRow, Conditional, AbilityIn
<1> DEFINE Row(k) == NewRow(g, card, new[k], k)
<1>13. \A k \in 1 .. n : Row(k).trigger = id[k] /\ (Conditional(Row(k)) <=> Text[card].abilities[new[k]].alternate # "none")
  BY <1>12
<1> HIDE DEF Row
<1>14. \A t : t \in Range(kept[card]) <=> \E k \in 1 .. n : t = Row(k).trigger /\ Conditional(Row(k))
  <2>1. \A t : t \in Range(mine) <=> \E k \in 1 .. n : t = Row(k).trigger /\ Conditional(Row(k))
    <3>1. ASSUME NEW t, t \in Range(mine)
          PROVE  \E k \in 1 .. n : t = Row(k).trigger /\ Conditional(Row(k))
      <4>1. PICK k \in 1 .. n : t = id[k] /\ Text[card].abilities[new[k]].alternate # "none"
        BY <1>6, <3>1
      <4>2. Row(k).trigger = id[k] /\ (Conditional(Row(k)) <=> Text[card].abilities[new[k]].alternate # "none")
        BY <1>13
      <4> QED BY <4>1, <4>2
    <3>2. ASSUME NEW t, NEW k \in 1 .. n, t = Row(k).trigger, Conditional(Row(k))
          PROVE  t \in Range(mine)
      BY <1>6, <1>13, <3>2
    <3> QED BY <3>1, <3>2
  <2> QED BY <1>11, <2>1
<1>15. Len(kept[card]) <= 1
  BY <1>8, <1>11
<1> QED BY <1>11, <1>14, <1>15 DEF TableAdded, n, Row

----------------------------------------------------------------------------
(* Announcing a spell.                                                      *)

TargetsFit(card, targets) ==
    /\ targets \in Seq(Targets) /\ Len(targets) = Len(Text[card].targets)
    /\ \A i \in 1 .. Len(targets) : targets[i].kind = Text[card].targets[i]

LEMMA SnapshotsFit ==
  ASSUME NEW g \in States, NEW card \in Cards,
         NEW choices \in [DOMAIN Text[card].targets -> Cards \cup EntryIds(g)]
  PROVE  LET targets == [i \in DOMAIN choices |-> Snapshot(g, Text[card].targets[i], choices[i])]
         IN TargetsFit(card, targets)
<1> DEFINE kinds == Text[card].targets
           n == Len(kinds)
           Target(i) == Snapshot(g, kinds[i], choices[i])
           targets == [i \in DOMAIN choices |-> Target(i)]
<1>1. kinds \in Seq({"permanent", "grave", "spell"})
  BY ProgramAssumption DEF ProgramsFit, Programs
<1>2. n \in Nat /\ DOMAIN kinds = 1 .. n /\ \A i \in 1 .. n : kinds[i] \in {"permanent", "grave", "spell"}
  BY <1>1
<1>3. g.zone \in [Cards -> Zones] /\ g.stack \in Seq(Entries)
  BY DEF States
<1>4. EntryIds(g) \subseteq Nat
  <2>1. \A e \in Range(g.stack) : e \in Entries
    BY <1>3 DEF Range
  <2> QED BY <2>1 DEF EntryIds, Entries
<1>5. DOMAIN choices = 1 .. n /\ \A i \in 1 .. n : choices[i] \in Cards \cup Nat
  BY <1>2, <1>4
<1> HIDE DEF n, kinds
<1>6. ASSUME NEW i \in 1 .. n
      PROVE  Target(i) \in Targets /\ Target(i).kind = kinds[i]
  <2> DEFINE zone == IF choices[i] \in Cards THEN g.zone[choices[i]] ELSE "none"
  <2>1. zone \in Places
    BY <1>3 DEF Places
  <2>2. Target(i) = [kind |-> kinds[i], choice |-> choices[i], zone |-> zone]
    BY DEF Snapshot
  <2> HIDE DEF zone
  <2>3. [kind |-> kinds[i], choice |-> choices[i], zone |-> zone] \in Targets
    BY <1>2, <1>5, <2>1 DEF Targets
  <2> QED BY <2>2, <2>3
<1> HIDE DEF Target
<1>7. targets = [i \in 1 .. n |-> Target(i)]
  BY <1>5
<1>8. targets \in Seq(Targets) /\ Len(targets) = n /\ \A i \in 1 .. n : targets[i] = Target(i)
  BY <1>2, <1>6, <1>7
<1> QED BY <1>6, <1>8 DEF n, kinds, Target, TargetsFit

\* The entry of a spell on top of the others, its card in the stack zone.
Pushed(g, entry, new) ==
    /\ new \in States /\ new.stack = Append(g.stack, entry) /\ new.zone = g.zone
    /\ new.subs = g.subs /\ new.pending = g.pending /\ new.log = g.log
    /\ new.nextTrigger = g.nextTrigger /\ new.nextEntry = g.nextEntry + 1
SpellOf(g, player, card, entry) ==
    /\ entry \in Entries /\ entry.id = g.nextEntry /\ entry.controller = player
    /\ entry.object = card /\ entry.trigger = None /\ TargetsFit(card, entry.targets)
Spell(player, card, targets) ==
    [id |-> None, controller |-> player, object |-> card, trigger |-> None, targets |-> targets]

LEMMA PushFits ==
  ASSUME NEW g \in States, NEW player \in Players, NEW card \in Cards, NEW targets, TargetsFit(card, targets)
  PROVE  \E e : SpellOf(g, player, card, e) /\ Pushed(g, e, Push(g, Spell(player, card, targets)))
<1> PICK entry : entry = Spell(player, card, targets)
  OBVIOUS
<1> PICK e : e = [entry EXCEPT !.id = g.nextEntry]
  OBVIOUS
<1>1. e = [id |-> g.nextEntry, controller |-> player, object |-> card, trigger |-> None, targets |-> targets]
  BY DEF Spell
<1>2. g.nextEntry \in Nat /\ g.stack \in Seq(Entries)
  BY DEF States
<1>3. e \in Entries
  <2>1. targets \in Seq(Targets)
    BY DEF TargetsFit
  <2> PICK id \in Nat : id = g.nextEntry
    BY <1>2
  <2>2. [id |-> id, controller |-> player, object |-> card, trigger |-> None, targets |-> targets] \in Entries
    BY <2>1 DEF Entries
  <2> QED BY <1>1, <2>2
<1>4. SpellOf(g, player, card, e)
  BY <1>1, <1>3 DEF SpellOf
<1> PICK stack : stack = Append(g.stack, e)
  OBVIOUS
<1>5. stack \in Seq(Entries)
  BY <1>2, <1>3
<1> PICK next : next = g.nextEntry + 1
  OBVIOUS
<1>6. next \in Nat
  BY <1>2
<1> PICK new : new = Push(g, entry)
  OBVIOUS
<1>7. new = [g EXCEPT !.stack = stack, !.nextEntry = next]
  BY DEF Push
<1>8. new \in States
  BY <1>5, <1>6, <1>7 DEF States
<1>9. /\ new.stack = stack /\ new.zone = g.zone /\ new.subs = g.subs /\ new.pending = g.pending
      /\ new.log = g.log /\ new.nextTrigger = g.nextTrigger /\ new.nextEntry = next
  BY <1>7 DEF States
<1>10. Pushed(g, e, new)
  BY <1>8, <1>9 DEF Pushed
<1> QED BY <1>4, <1>10

LEMMA PushedStack ==
  ASSUME NEW g \in States, NEW entry, NEW new, Pushed(g, entry, new), entry \in Entries
  PROVE  /\ \A e : e \in Range(new.stack) <=> e \in Range(g.stack) \/ e = entry
         /\ Len(new.stack) = Len(g.stack) + 1 /\ Len(g.stack) \in Nat
         /\ IsInjective(g.stack) /\ entry \notin Range(g.stack) => IsInjective(new.stack)
<1> DEFINE n == Len(g.stack)
<1>1. g.stack \in Seq(Entries) /\ n \in Nat /\ DOMAIN g.stack = 1 .. n
  BY DEF States
<1> HIDE DEF n
<1> PICK stack : stack = new.stack
  OBVIOUS
<1>2. /\ stack \in Seq(Entries) /\ Len(stack) = n + 1 /\ DOMAIN stack = 1 .. (n + 1)
      /\ \A i \in 1 .. n : stack[i] = g.stack[i]
      /\ stack[n + 1] = entry
  <2>1. stack = Append(g.stack, entry)
    BY DEF Pushed
  <2>2. Len(stack) = n + 1 /\ stack \in Seq(Entries)
    BY <1>1, <2>1 DEF n
  <2> QED BY <1>1, <2>1, <2>2 DEF n
<1>3. \A e : e \in Range(stack) <=> e \in Range(g.stack) \/ e = entry
  <2>1. ASSUME NEW e \in Range(stack)
        PROVE  e \in Range(g.stack) \/ e = entry
    <3>1. PICK i \in 1 .. (n + 1) : e = stack[i]
      BY <1>2 DEF Range
    <3>2. CASE i = n + 1
      BY <1>2, <3>1, <3>2
    <3>3. CASE i \in 1 .. n
      BY <1>1, <1>2, <3>1, <3>3 DEF Range
    <3> QED BY <1>1, <3>2, <3>3
  <2>2. ASSUME NEW e \in Range(g.stack)
        PROVE  e \in Range(stack)
    <3>1. PICK i \in 1 .. n : e = g.stack[i]
      BY <1>1 DEF Range
    <3>2. i \in 1 .. (n + 1) /\ stack[i] = e
      BY <1>1, <1>2, <3>1
    <3> QED BY <1>2, <3>2 DEF Range
  <2>3. entry \in Range(stack)
    <3>1. n + 1 \in 1 .. (n + 1)
      BY <1>1
    <3> QED BY <1>2, <3>1 DEF Range
  <2> QED BY <2>1, <2>2, <2>3
<1>4. ASSUME IsInjective(g.stack), entry \notin Range(g.stack)
      PROVE  IsInjective(stack)
  <2> SUFFICES ASSUME NEW i \in 1 .. (n + 1), NEW j \in 1 .. (n + 1), stack[i] = stack[j]
               PROVE  i = j
    BY <1>2 DEF IsInjective
  <2>1. \A k \in 1 .. n : stack[k] \in Range(g.stack) /\ stack[k] # entry
    BY <1>1, <1>2, <1>4 DEF Range
  <2>2. \A k, m \in 1 .. n : g.stack[k] = g.stack[m] => k = m
    BY <1>1, <1>4 DEF IsInjective
  <2>3. CASE i \in 1 .. n /\ j \in 1 .. n
    BY <1>2, <2>2, <2>3
  <2>4. CASE i = n + 1 \/ j = n + 1
    <3>1. i \in 1 .. n => stack[j] # entry
      BY <2>1
    <3>2. j \in 1 .. n => stack[i] # entry
      BY <2>1
    <3> QED BY <1>1, <1>2, <2>4, <3>1, <3>2
  <2> QED BY <1>1, <2>3, <2>4
<1> QED BY <1>1, <1>2, <1>3, <1>4 DEF n

\* A card leaves for a zone that no trigger fires for.
Lifted(g, c, to, new) ==
    /\ new.zone = [g.zone EXCEPT ![c] = to] /\ new.stack = g.stack
    /\ new.nextTrigger = g.nextTrigger /\ new.nextEntry = g.nextEntry
    /\ Range(new.subs) = Range(g.subs)

LEMMA LiftCore ==
  ASSUME NEW g, NEW start, NEW rows, Core(g, start, rows), NEW c \in Cards, NEW to \in Zones, to # "battlefield"
  PROVE  LET new == Move(g, c, to) IN Core(new, start, rows) /\ Lifted(g, c, to, new)
<1> DEFINE new == Move(g, c, to)
<1>1. /\ Core(new, start, rows)
      /\ new.zone = [g.zone EXCEPT ![c] = to] /\ new.stack = g.stack
      /\ new.nextTrigger = g.nextTrigger /\ new.nextEntry = g.nextEntry
      /\ Range(new.subs) \subseteq Range(g.subs)
      /\ \A x \in Range(g.subs) : x \in Range(new.subs) \/ (x.once /\ x.source = c /\ to = "battlefield")
  BY MoveCore
<1> HIDE DEF new
<1>2. Range(new.subs) = Range(g.subs)
  BY <1>1
<1> QED BY <1>1, <1>2 DEF Lifted, new

\* What a cast changes, besides the log and what is pending.
Announced(g, card, new) ==
    /\ new.zone[card] = "stack"
    /\ Len(g.stack) \in Nat /\ Len(new.stack) = Len(g.stack) + 1
    /\ \A e \in Range(new.stack) : e \in Range(g.stack) \/ e.trigger = None

LEMMA CastSound ==
  ASSUME NEW g, NEW start, NEW rows, NEW known, NEW table, Sound(g, start, rows, known, table, {}),
         NEW player \in Players, NEW card \in Cards, g.zone[card] = "hand",
         NEW choices \in [DOMAIN Text[card].targets -> Cards \cup EntryIds(g)]
  PROVE  LET new == Cast(g, player, card, choices)
         IN Sound(new, start, rows, known, table, {}) /\ Announced(g, card, new)
<1> DEFINE new == Cast(g, player, card, choices)
<1>1. /\ Core(g, start, rows) /\ CardFits(g) /\ g \in States /\ known \subseteq Cards
      /\ TableFits(table, rows) /\ Exact(g, rows, known, table, {}) /\ SubsFit(g, rows)
      /\ g.zone \in [Cards -> Zones] /\ g.nextEntry \in Nat
  BY DEF Sound, Core, States
<1> PICK moved : moved = Move(g, card, "stack")
  OBVIOUS
<1>2. /\ Core(moved, start, rows)
      /\ moved.zone = [g.zone EXCEPT ![card] = "stack"] /\ moved.stack = g.stack
      /\ moved.nextTrigger = g.nextTrigger /\ moved.nextEntry = g.nextEntry
      /\ Range(moved.subs) \subseteq Range(g.subs)
      /\ \A x \in Range(g.subs) : x \in Range(moved.subs)
  <2>1. "stack" \in Zones /\ "stack" # "battlefield"
    BY DEF Zones
  <2>2. Core(moved, start, rows) /\ Lifted(g, card, "stack", moved)
    BY <1>1, <2>1, LiftCore
  <2> QED BY <2>2 DEF Lifted
<1>3. moved \in States
  BY <1>2 DEF Core
<1> PICK targets : targets = [i \in DOMAIN choices |-> Snapshot(g, Text[card].targets[i], choices[i])]
  OBVIOUS
<1>4. TargetsFit(card, targets)
  BY <1>1, SnapshotsFit
<1>5. new = Push(moved, Spell(player, card, targets))
  BY DEF Cast, Spell
<1>6. PICK e : SpellOf(moved, player, card, e) /\ Pushed(moved, e, new)
  BY <1>3, <1>4, <1>5, PushFits
<1> HIDE DEF new
<1>7. /\ e \in Entries /\ e.id = g.nextEntry /\ e.object = card /\ e.trigger = None
      /\ Len(e.targets) = Len(Text[card].targets)
      /\ \A i \in 1 .. Len(e.targets) : e.targets[i].kind = Text[card].targets[i]
  BY <1>2, <1>6 DEF SpellOf, TargetsFit
<1>8. /\ new \in States /\ new.zone = moved.zone /\ new.subs = moved.subs /\ new.pending = moved.pending
      /\ new.log = moved.log /\ new.nextTrigger = moved.nextTrigger /\ new.nextEntry = g.nextEntry + 1
  BY <1>2, <1>6 DEF Pushed
<1>9. /\ \A x : x \in Range(new.stack) <=> x \in Range(g.stack) \/ x = e
      /\ Len(new.stack) = Len(g.stack) + 1 /\ Len(g.stack) \in Nat
      /\ IsInjective(g.stack) /\ e \notin Range(g.stack) => IsInjective(new.stack)
  <2>1. /\ \A x : x \in Range(new.stack) <=> x \in Range(moved.stack) \/ x = e
        /\ Len(new.stack) = Len(moved.stack) + 1 /\ Len(moved.stack) \in Nat
        /\ IsInjective(moved.stack) /\ e \notin Range(moved.stack) => IsInjective(new.stack)
    BY <1>3, <1>6, <1>7, PushedStack
  <2> QED BY <1>2, <2>1
<1>10. Core(new, start, rows)
  <2>1. Waiting(new) \subseteq Waiting(moved)
    BY <1>2, <1>7, <1>8, <1>9 DEF Waiting
  <2> QED BY <1>2, <1>8, <2>1, CoreFrame
<1>11. new.zone[card] = "stack" /\ \A d \in Cards \ {card} : new.zone[d] = g.zone[d]
  BY <1>1, <1>2, <1>8
<1>12. StackFits(g)
  BY <1>1 DEF CardFits
<1>13. \A x \in Range(g.stack) : x \in Entries /\ x.object # card /\ x.id < g.nextEntry
  <2>1. \A x \in Range(g.stack) : x \in Entries
    BY <1>1 DEF States, Range
  <2> QED BY <1>12, <2>1, SpellStackAssumption DEF StackFits, EntryFits
<1>14. CardFits(new)
  <2>1. IsInjective(new.stack)
    BY <1>7, <1>9, <1>12, <1>13 DEF StackFits
  <2>2. ASSUME NEW x \in Range(new.stack), NEW y \in Range(new.stack),
               x.id = y.id \/ (x.object = y.object /\ x.object # None)
        PROVE  x = y
    <3>1. CASE x \in Range(g.stack) /\ y \in Range(g.stack)
      BY <1>12, <2>2, <3>1 DEF StackFits
    <3>2. ASSUME NEW z \in Range(g.stack)
          PROVE  z.id # e.id /\ z.object # e.object
      BY <1>1, <1>7, <1>13 DEF Entries
    <3> QED BY <1>9, <2>2, <3>1, <3>2
  <2>3. ASSUME NEW x \in Range(g.stack)
        PROVE  EntryFits(new, x)
    <3>1. EntryFits(g, x)
      BY <1>12 DEF StackFits
    <3>2. x.id < new.nextEntry
      BY <1>1, <1>8, <1>13 DEF Entries
    <3>3. x.object # None => new.zone[x.object] = "stack"
      BY <1>11, <1>13, <3>1 DEF EntryFits, Entries
    <3> QED BY <3>1, <3>2, <3>3 DEF EntryFits
  <2>4. EntryFits(new, e)
    <3>1. e.object # None
      BY <1>7, SpellStackAssumption
    <3>2. e.id < new.nextEntry
      BY <1>1, <1>7, <1>8
    <3> QED BY <1>7, <1>11, <3>1, <3>2 DEF EntryFits
  <2>5. StackFits(new)
    BY <1>9, <2>1, <2>2, <2>3, <2>4 DEF StackFits
  <2>6. ASSUME NEW c \in Cards, new.zone[c] = "stack"
        PROVE  \E x \in Range(new.stack) : x.object = c
    <3>1. CASE c = card
      BY <1>7, <1>9, <3>1
    <3>2. CASE c # card
      BY <1>1, <1>9, <1>11, <2>6, <3>2 DEF CardFits
    <3> QED BY <3>1, <3>2
  <2> QED BY <2>5, <2>6 DEF CardFits
<1>15. Exact(new, rows, known, table, {})
  <2>1. \A t : Subscribed(new, t) <=> Subscribed(g, t)
    BY <1>2, <1>8 DEF Subscribed
  <2>2. ASSUME NEW c \in Cards, table[c] # <<>>
        PROVE  new.zone[c] = "stack" /\ \A t \in Range(table[c]) : Subscribed(new, t)
    BY <1>1, <1>11, <2>1, <2>2 DEF Exact
  <2> QED BY <1>1, <2>1, <2>2 DEF Exact
<1>16. Announced(g, card, new)
  BY <1>7, <1>9, <1>11 DEF Announced
<1> QED BY <1>1, <1>10, <1>14, <1>15, <1>16 DEF Sound, new

\* A dispatch that casts a spell.
LEMMA CastStep ==
  ASSUME RuntimeFits, NEW player \in Players, NEW card \in Cards, CastProgram(player, card),
         NEW start, start = TurnCursor
  PROVE  LandsFit(start) /\ AffectedAsChecked
<1> DEFINE Ids(g, new) == [k \in DOMAIN new |-> g.nextTrigger + k - 1]
           Definitions(new) == [k \in DOMAIN new |-> [event |-> Text[card].abilities[new[k]].event,
                                                      once |-> Text[card].abilities[new[k]].alternate # "none"]]
<1>1. PICK alternate \in Text[card].alternates, choices \in [DOMAIN Text[card].targets -> Cards \cup EntryIds(game)] :
         LET cast == Cast(game, player, card, choices)
             new == ToRegister(card, alternate)
             id == Ids(cast, new)
             definitions == Definitions(new)
         IN /\ \E dead \in Deaths(cast) : game' = Register(Bury(cast, dead), player, card, definitions)
            /\ registered' = registered \cup {card}
            /\ runtimes' = runtimes \cup {[trigger |-> id[k], source |-> card, ability |-> new[k]] : k \in DOMAIN new}
            /\ conditional' = [conditional EXCEPT ![card] =
                   @ \o Keep(id, {id[k] : k \in {j \in DOMAIN new : definitions[j].once}})]
            /\ UNCHANGED <<contexts, result>>
  BY DEF CastProgram
<1>2. Running /\ game.zone[card] = "hand"
  BY DEF CastProgram, MayCast
<1>cast. PICK cast : cast = Cast(game, player, card, choices)
  OBVIOUS
<1>new. PICK new : new = ToRegister(card, alternate)
  OBVIOUS
<1>id. PICK id : id = Ids(cast, new)
  OBVIOUS
<1>definitions. PICK definitions : definitions = Definitions(new)
  OBVIOUS
<1>once. PICK once : once = {id[k] : k \in {j \in DOMAIN new : definitions[j].once}}
  OBVIOUS
<1>3. /\ \E dead \in Deaths(cast) : game' = Register(Bury(cast, dead), player, card, definitions)
      /\ registered' = registered \cup {card}
      /\ runtimes' = runtimes \cup {[trigger |-> id[k], source |-> card, ability |-> new[k]] : k \in DOMAIN new}
      /\ conditional' = [conditional EXCEPT ![card] = @ \o Keep(id, once)]
      /\ contexts' = contexts /\ result' = result
  BY <1>1, <1>cast, <1>new, <1>id, <1>definitions, <1>once
<1>dead. PICK dead \in Deaths(cast) : game' = Register(Bury(cast, dead), player, card, definitions)
  BY <1>3
<1>buried. PICK buried : buried = Bury(cast, dead)
  OBVIOUS
<1>4. game' = Register(buried, player, card, definitions)
  BY <1>dead, <1>buried
<1>5. /\ Sound(game, start, runtimes, registered, conditional, {})
      /\ game \in States /\ WaitingFits(game, runtimes) /\ runtimes \subseteq Rows
      /\ ContextFits(game.stack, runtimes, contexts) /\ game.stack \in Seq(Entries)
  BY <1>2, NowSound DEF Sound, Core, RuntimeFits, States
<1>6. Sound(cast, start, runtimes, registered, conditional, {}) /\ Announced(game, card, cast)
  <2>1. LET after == Cast(game, player, card, choices)
        IN Sound(after, start, runtimes, registered, conditional, {}) /\ Announced(game, card, after)
    BY <1>1, <1>2, <1>5, CastSound
  <2> QED BY <1>cast, <2>1
<1>7. /\ Sound(buried, start, runtimes, registered, conditional, {}) /\ Buried(cast, buried)
      /\ buried.stack = cast.stack /\ buried.nextTrigger = cast.nextTrigger
  <2>1. LET after == Bury(cast, dead)
        IN /\ Sound(after, start, runtimes, registered, conditional, {}) /\ Buried(cast, after)
           /\ after.stack = cast.stack /\ after.nextTrigger = cast.nextTrigger /\ after.nextEntry = cast.nextEntry
    BY <1>6, BurySound
  <2> QED BY <1>buried, <2>1
<1>8. buried.zone[card] = "stack"
  BY <1>6, <1>7 DEF Announced, Buried
<1>9. Listed(card, new) /\ CalledFor(card, new, registered)
  BY <1>new, ToRegisterFits
<1>10. /\ Core(buried, start, runtimes) /\ buried.nextTrigger \in Nat
       /\ conditional \in Tables /\ conditional[card] = <<>>
  <2>1. Core(game, start, runtimes) /\ Exact(game, runtimes, registered, conditional, {}) /\ TableFits(conditional, runtimes)
    BY <1>5 DEF Sound
  <2>2. conditional[card] = <<>>
    BY <1>2, <2>1 DEF Exact
  <2> QED BY <1>7, <2>1, <2>2 DEF Sound, Core, States, TableFits
<1>11. SubsAdded(buried, game', player, card, new)
  <2>1. definitions = [k \in DOMAIN new |-> [event |-> Text[card].abilities[new[k]].event,
                                             once |-> Text[card].abilities[new[k]].alternate # "none"]]
    BY <1>definitions
  <2>2. SubsAdded(buried, Register(buried, player, card, definitions), player, card, new)
    BY <1>9, <1>10, <2>1, RegisterAdds
  <2> QED BY <1>4, <2>2
<1>12. /\ id = [k \in DOMAIN new |-> buried.nextTrigger + k - 1]
       /\ DOMAIN new = 1 .. Len(new)
       /\ \A k \in DOMAIN new : id[k] = buried.nextTrigger + k - 1
  <2>1. DOMAIN new = 1 .. Len(new)
    BY <1>9, ListedFacts
  <2> QED BY <1>7, <1>id, <2>1
<1>13. RowsAdded(buried, runtimes, card, new, runtimes')
  <2>1. \A k \in DOMAIN new : NewRow(buried, card, new[k], k) = [trigger |-> id[k], source |-> card, ability |-> new[k]]
    BY <1>12 DEF NewRow
  <2>2. \A r : r \in runtimes' <=> r \in runtimes \/ \E k \in DOMAIN new : r = NewRow(buried, card, new[k], k)
    BY <1>3, <2>1
  <2>3. \A r : r \in runtimes' <=> r \in runtimes \/ \E k \in 1 .. Len(new) : r = NewRow(buried, card, new[k], k)
    BY <1>12, <2>2
  <2> QED BY <2>3 DEF RowsAdded
<1>14. TableAdded(buried, conditional, card, new, conditional')
  <2>1. OnceOnly(card, new, id, once)
    BY <1>12, <1>once, <1>definitions DEF OnceOnly
  <2>2. conditional' = [conditional EXCEPT ![card] = @ \o Keep(id, once)]
    BY <1>3
  <2> QED BY <1>9, <1>10, <1>12, <2>1, <2>2, TableGrows
<1>15. Sound(game', start, runtimes', registered', conditional', {})
  <2>1. Sound(game', start, runtimes', registered \cup {card}, conditional', {})
    BY <1>7, <1>8, <1>9, <1>10, <1>11, <1>13, <1>14, RegisterSound
  <2> QED BY <1>3, <2>1
<1>16. game'.stack = cast.stack
  BY <1>7, <1>11 DEF SubsAdded
<1>17. ContextFits(game'.stack, runtimes', contexts')
  <2> SUFFICES ASSUME NEW e \in Range(cast.stack), NEW r \in runtimes', r.trigger = e.trigger,
                      AbilityIn(r).does = "drawUnlessPaid"
               PROVE  \E c \in contexts : c.entry = e.id /\ c.player \in Players \ {e.controller}
    BY <1>3, <1>16 DEF ContextFits
  <2>1. runtimes' \subseteq Rows /\ \A q, x \in runtimes' : q.trigger = x.trigger => q = x
    BY <1>15 DEF Sound, Core, RowsFit
  <2>2. r.trigger # None
    BY <2>1, SpellStackAssumption DEF Rows
  <2>3. e \in Range(game.stack)
    BY <1>6, <2>2 DEF Announced
  <2>4. e.trigger \in Waiting(game)
    BY <2>2, <2>3 DEF Waiting
  <2>5. PICK q \in runtimes : q.trigger = e.trigger
    BY <1>5, <2>4 DEF WaitingFits
  <2>6. q \in runtimes'
    BY <1>3
  <2>7. r = q
    BY <2>1, <2>5, <2>6
  <2> QED BY <1>5, <2>3, <2>7 DEF ContextFits
<1>18. AffectedAsChecked
  <2>1. Len(game.stack) \in Nat /\ Len(cast.stack) = Len(game.stack) + 1
    BY <1>6 DEF Announced
  <2>2. Len(game'.stack) \in Nat /\ Len(game'.stack) >= Len(game.stack)
    BY <1>16, <2>1
  <2> QED BY <1>5, <2>1, <2>2, NothingResolved
<1>19. LookupFits(game', result')
  BY <1>2, <1>3 DEF LookupFits, Running
<1> QED BY <1>15, <1>17, <1>18, <1>19 DEF LandsFit, Sound

----------------------------------------------------------------------------
(* Draws and turns.                                                         *)

LEMMA DrawStep ==
  ASSUME RuntimeFits, NEW player \in Players, NEW count \in 1 .. 2, DrawCards(player, count),
         NEW start, start = TurnCursor
  PROVE  LandsFit(start) /\ AffectedAsChecked
<1>1. /\ Running /\ game' = Draw(game, player, count)
      /\ UNCHANGED <<registered, runtimes, conditional, contexts, result>>
  BY DEF DrawCards, tables
<1>2. /\ Sound(game, start, runtimes, registered, conditional, {}) /\ game \in States
      /\ ContextFits(game.stack, runtimes, contexts) /\ game.stack \in Seq(Entries)
  BY <1>1, NowSound DEF Sound, Core, RuntimeFits, States
<1>3. Sound(game', start, runtimes, registered, conditional, {}) /\ game'.stack = game.stack
  <2>1. LET new == Draw(game, player, count)
        IN /\ Sound(new, start, runtimes, registered, conditional, {})
           /\ new.zone = game.zone /\ new.stack = game.stack
           /\ new.nextTrigger = game.nextTrigger /\ new.nextEntry = game.nextEntry
    BY <1>2, DrawSound
  <2> QED BY <1>1, <2>1
<1>4. AffectedAsChecked
  <2>1. Len(game.stack) \in Nat /\ Len(game'.stack) \in Nat /\ Len(game'.stack) >= Len(game.stack)
    BY <1>2, <1>3
  <2> QED BY <1>2, <2>1, NothingResolved
<1>5. LookupFits(game', result')
  BY <1>1 DEF LookupFits, Running
<1> QED BY <1>1, <1>2, <1>3, <1>4, <1>5 DEF LandsFit, Sound

\* A turn starts with the log of the turn before gone and nothing pending.
LEMMA TurnStep ==
  ASSUME RuntimeFits, NewTurn, NEW start, start = [turn |-> game.log.turn + 1, next |-> game.log.next]
  PROVE  LandsFit(start) /\ AffectedAsChecked
<1>1. /\ Running /\ game' = BeginTurn(game) /\ game.stack = <<>> /\ game.pending = <<>>
      /\ UNCHANGED <<registered, runtimes, conditional, contexts, result>>
  BY DEF NewTurn, tables
<1>2. /\ Sound(game, TurnCursor, runtimes, registered, conditional, {}) /\ Core(game, TurnCursor, runtimes)
      /\ game \in States /\ game.log \in Logs
      /\ ContextFits(game.stack, runtimes, contexts) /\ game.stack \in Seq(Entries)
  BY <1>1, NowSound DEF Sound, Core, RuntimeFits, States
<1>log. PICK log : log = NextTurn(game.log)
  OBVIOUS
<1>3. log \in Logs /\ LogFits(log, start.next) /\ log.turn = start.turn
  <2>1. log.turn = game.log.turn + 1 /\ start.turn = game.log.turn + 1 /\ start.next = game.log.next
    BY <1>2, <1>log DEF NextTurn, Logs
  <2> QED BY <1>2, <1>log, <2>1, LogTurns
<1>g. PICK g : g = [game EXCEPT !.log = log]
  OBVIOUS
<1>4. /\ g \in States /\ g.log = log /\ g.zone = game.zone /\ g.stack = game.stack /\ g.subs = game.subs
      /\ g.pending = game.pending /\ g.nextTrigger = game.nextTrigger /\ g.nextEntry = game.nextEntry
  BY <1>2, <1>3, <1>g DEF States
<1>5. Core(g, start, runtimes)
  <2>1. Range(g.pending) = {}
    BY <1>1, <1>4 DEF Range
  <2>2. Waiting(g) = Waiting(game)
    BY <1>4 DEF Waiting
  <2> QED BY <1>2, <1>3, <1>4, <2>1, <2>2 DEF Core, PendingFits, RowsFit, SubsFit, WaitingFits
<1>6. CardFits(g)
  BY <1>2, <1>4 DEF Sound, CardFits, StackFits, EntryFits
<1>7. Exact(g, runtimes, registered, conditional, {})
  <2>1. \A t : Subscribed(g, t) <=> Subscribed(game, t)
    BY <1>4 DEF Subscribed
  <2> QED BY <1>2, <1>4, <2>1 DEF Sound, Exact
<1>8. Sound(g, start, runtimes, registered, conditional, {})
  BY <1>2, <1>5, <1>6, <1>7 DEF Sound
<1>event. PICK event : event = [kind |-> "upkeep", object |-> None, to |-> "none", player |-> None]
  OBVIOUS
<1>9. event \in Occurrences /\ event.kind # "moved"
  BY <1>event DEF Occurrences, Places
<1>10. game' = Emit(g, event)
  BY <1>1, <1>log, <1>g, <1>event DEF BeginTurn
<1>11. Sound(game', start, runtimes, registered, conditional, {}) /\ game'.stack = game.stack
  <2>1. LET new == Emit(g, event)
        IN /\ Sound(new, start, runtimes, registered, conditional, {})
           /\ new.zone = g.zone /\ new.stack = g.stack
           /\ new.nextTrigger = g.nextTrigger /\ new.nextEntry = g.nextEntry
    BY <1>8, <1>9, EmitSound
  <2> QED BY <1>4, <1>10, <2>1
<1>12. AffectedAsChecked
  BY <1>1 DEF AffectedAsChecked, EffectRuns
<1>13. LookupFits(game', result')
  BY <1>1 DEF LookupFits, Running
<1> QED BY <1>1, <1>2, <1>11, <1>12, <1>13 DEF LandsFit, Sound

----------------------------------------------------------------------------
(* The invariant.                                                           *)

LEMMA StartFits ==
  ASSUME SeenInit
  PROVE  RuntimeFits
<1> DEFINE start == [turn |-> game.log.turn, next |-> turnStart]
<1>1. /\ game = NewState /\ registered = {} /\ runtimes = {} /\ contexts = {}
      /\ conditional = [c \in Cards |-> <<>>] /\ result = "Ok" /\ turnStart = 0
  BY DEF SeenInit, Init
<1>2. /\ game.zone = [c \in Cards |-> "hand"] /\ game.stack = <<>> /\ game.subs = <<>> /\ game.pending = <<>>
      /\ game.log = NewLog /\ game.nextTrigger = 1 /\ game.nextEntry = 1
  BY <1>1 DEF NewState
<1>3. Range(game.stack) = {} /\ Range(game.subs) = {} /\ Range(game.pending) = {}
  BY <1>2 DEF Range
<1>4. game \in States
  <2>1. NewLog \in Logs
    BY LogStarts
  <2>2. [c \in Cards |-> "hand"] \in [Cards -> Zones]
    BY DEF Zones
  <2> QED BY <1>1, <2>1, <2>2 DEF NewState, States
<1>5. Core(game, start, runtimes)
  <2>1. LogFits(game.log, start.next) /\ game.log.turn = start.turn
    BY <1>1, <1>2, LogStarts
  <2>2. IsInjective(game.subs)
    BY <1>2 DEF IsInjective
  <2>3. Waiting(game) = {}
    BY <1>3 DEF Waiting
  <2> QED BY <1>1, <1>3, <1>4, <2>1, <2>2, <2>3 DEF Core, PendingFits, RowsFit, SubsFit, WaitingFits
<1>6. CardFits(game)
  <2>1. IsInjective(game.stack)
    BY <1>2 DEF IsInjective
  <2> QED BY <1>2, <1>3, <2>1 DEF CardFits, StackFits
<1>7. ContextFits(game.stack, runtimes, contexts)
  BY <1>1 DEF ContextFits
<1>8. TableFits(conditional, runtimes)
  <2>1. \A c \in Cards : conditional[c] = <<>>
    BY <1>1
  <2>2. conditional \in Tables
    BY <1>1 DEF Tables
  <2>3. Len(<<>>) <= 1 /\ Range(<<>>) = {}
    BY DEF Range
  <2> QED BY <2>1, <2>2, <2>3 DEF TableFits
<1>9. Exact(game, runtimes, registered, conditional, {})
  BY <1>1 DEF Exact
<1>10. LookupFits(game, result)
  BY <1>1 DEF LookupFits
<1> QED BY <1>1, <1>5, <1>6, <1>7, <1>8, <1>9, <1>10 DEF RuntimeFits

LEMMA StepCarries ==
  ASSUME NEW start, LandsFit(start), start = [turn |-> game'.log.turn, next |-> turnStart']
  PROVE  RuntimeFits'
BY DEF LandsFit, RuntimeFits

LEMMA SameTurn ==
  ASSUME SeenNext, NEW start, start = TurnCursor, game'.log.turn = start.turn
  PROVE  start = [turn |-> game'.log.turn, next |-> turnStart']
BY DEF SeenNext, TurnCursor

LEMMA RuntimeStep ==
  ASSUME RuntimeFits, SeenNext
  PROVE  RuntimeFits' /\ AffectedAsChecked
<1>1. Next /\ turnStart' = IF game'.log.turn # game.log.turn THEN game.log.next ELSE turnStart
  BY DEF SeenNext
<1>turn. PICK start : start = TurnCursor
  OBVIOUS
<1>2. ASSUME LandsFit(start), AffectedAsChecked
      PROVE  RuntimeFits' /\ AffectedAsChecked
  <2>1. game'.log.turn = start.turn
    BY <1>2 DEF LandsFit, Core
  <2>2. start = [turn |-> game'.log.turn, next |-> turnStart']
    BY <1>turn, <2>1, SameTurn
  <2> QED BY <1>2, <2>2, StepCarries
<1>3. CASE \E p \in Players, c \in Cards : CastProgram(p, c)
  BY <1>turn, <1>2, <1>3, CastStep
<1>4. CASE \E p \in Players, n \in 1 .. 2 : DrawCards(p, n)
  BY <1>turn, <1>2, <1>4, DrawStep
<1>5. CASE ResolveEntry
  BY <1>turn, <1>2, <1>5, ResolveStep
<1>6. CASE PutTriggersOnStack
  BY <1>turn, <1>2, <1>6, PutStep
<1>7. CASE NewTurn
  <2> PICK cursor : cursor = [turn |-> game.log.turn + 1, next |-> game.log.next]
    OBVIOUS
  <2>1. LandsFit(cursor) /\ AffectedAsChecked
    BY <1>7, TurnStep
  <2>2. game'.log.turn = game.log.turn + 1
    BY <2>1 DEF LandsFit, Core
  <2>3. game.log.turn \in Nat
    BY DEF RuntimeFits, Core, States, Logs
  <2>4. turnStart' = game.log.next
    BY <1>1, <2>2, <2>3
  <2>5. cursor = [turn |-> game'.log.turn, next |-> turnStart']
    BY <2>2, <2>4
  <2> QED BY <2>1, <2>5, StepCarries
<1>8. CASE Over
  <2>1. /\ game' = game /\ registered' = registered /\ runtimes' = runtimes /\ conditional' = conditional
        /\ contexts' = contexts /\ result' = result
    BY <1>8 DEF Over, vars
  <2>2. turnStart' = turnStart
    BY <1>1, <2>1
  <2>3. RuntimeFits'
    BY <2>1, <2>2 DEF RuntimeFits, Running
  <2>4. AffectedAsChecked
    <3>1. game.stack \in Seq(Entries) /\ Len(game.stack) \in Nat
      BY DEF RuntimeFits, Core, States
    <3> QED BY <2>1, <3>1, NothingResolved
  <2> QED BY <2>3, <2>4
<1> QED BY <1>1, <1>3, <1>4, <1>5, <1>6, <1>7, <1>8 DEF Next

\* The tables and the kernel's state belong together after every dispatch:
\* the invariant that the theorems below rest on.
THEOREM RuntimeInvariant == SeenSpec => []RuntimeFits
<1>1. SeenInit => RuntimeFits
  BY StartFits
<1>2. RuntimeFits /\ [SeenNext]_<<vars, turnStart, strayed>> => RuntimeFits'
  <2> SUFFICES ASSUME RuntimeFits, [SeenNext]_<<vars, turnStart, strayed>>
               PROVE  RuntimeFits'
    OBVIOUS
  <2>1. CASE SeenNext
    BY <2>1, RuntimeStep
  <2>2. CASE UNCHANGED <<vars, turnStart, strayed>>
    <3>1. /\ game' = game /\ registered' = registered /\ runtimes' = runtimes /\ conditional' = conditional
          /\ contexts' = contexts /\ result' = result /\ turnStart' = turnStart
      BY <2>2 DEF vars
    <3> QED BY <3>1 DEF RuntimeFits, Running
  <2> QED BY <2>1, <2>2
<1> QED BY <1>1, <1>2, PTL DEF SeenSpec

----------------------------------------------------------------------------
(* What follows from the invariant.                                         *)

\* A reader who took a cursor at any moment of this turn gets every event
\* since then, in order and once, or the error CursorTooOld: the ring drops
\* nothing that a reader is not told of (events_since, append_event).
THEOREM ReaderLosesNothing == SeenSpec => []ReaderMissesNothing
<1>1. RuntimeFits => ReaderMissesNothing
  <2> SUFFICES ASSUME RuntimeFits PROVE ReaderMissesNothing
    OBVIOUS
  <2>1. game.log \in Logs /\ LogFits(game.log, turnStart)
    BY DEF RuntimeFits, Core, States
  <2>2. ASSUME NEW n \in turnStart .. game.log.next
        PROVE  LET cursor == [turn |-> game.log.turn, next |-> n]
                   read == EventsSince(game.log, cursor)
               IN IF game.log.next - n > Capacity THEN CursorError(game.log, cursor) = "CursorTooOld"
                  ELSE /\ CursorError(game.log, cursor) = "None"
                       /\ Len(read) = game.log.next - n
                       /\ \A i \in DOMAIN read : read[i].sequence = n + i - 1
    BY <2>1, LogReads
  <2> QED BY <2>2 DEF ReaderMissesNothing
<1> QED BY <1>1, RuntimeInvariant, PTL

\* A card is in the stack zone exactly while one stack entry is about it,
\* whatever resolves, fizzles or is countered from under other entries
\* (cast_spell, resolve_top_stack_entry, counter_stack_entry).
THEOREM CardsAndEntries == SeenSpec => []CardsMatchEntries
<1>1. RuntimeFits => CardsMatchEntries
  <2> SUFFICES ASSUME RuntimeFits, NEW c \in Cards
               PROVE  Cardinality(EntriesOf(c)) = IF game.zone[c] = "stack" THEN 1 ELSE 0
    BY DEF CardsMatchEntries
  <2>1. CardFits(game) /\ StackFits(game) /\ c # None
    BY SpellStackAssumption DEF RuntimeFits, CardFits
  <2>2. ASSUME NEW i \in EntriesOf(c)
        PROVE  i \in DOMAIN game.stack /\ game.stack[i] \in Range(game.stack) /\ game.stack[i].object = c
    BY DEF EntriesOf, Range
  <2>3. CASE game.zone[c] = "stack"
    <3>1. PICK e \in Range(game.stack) : e.object = c
      BY <2>1, <2>3 DEF CardFits
    <3>2. PICK i \in DOMAIN game.stack : game.stack[i] = e
      BY DEF Range
    <3>3. i \in EntriesOf(c)
      BY <3>1, <3>2 DEF EntriesOf
    <3>4. ASSUME NEW j \in EntriesOf(c)
          PROVE  j = i
      <4>1. game.stack[j] = game.stack[i]
        BY <2>1, <2>2, <3>1, <3>2 DEF StackFits
      <4> QED BY <2>1, <2>2, <3>2, <4>1 DEF StackFits, IsInjective
    <3>5. EntriesOf(c) = {i}
      BY <3>3, <3>4
    <3> QED BY <2>3, <3>5, FS_Singleton
  <2>4. CASE game.zone[c] # "stack"
    <3>1. EntriesOf(c) = {}
      BY <2>1, <2>2, <2>4 DEF StackFits, EntryFits
    <3> QED BY <2>4, <3>1, FS_EmptySet
  <2> QED BY <2>3, <2>4
<1> QED BY <1>1, RuntimeInvariant, PTL

\* Every unless-paid ability on the stack knows the player who drew, and the
\* lookup of that draw fails only when the ring has dropped it since
\* (triggering_player_for_pending).
THEOREM TriggersKnow == SeenSpec => []TriggersKnowTheirPlayer
<1>1. RuntimeFits => TriggersKnowTheirPlayer
  <2> SUFFICES ASSUME RuntimeFits PROVE TriggersKnowTheirPlayer
    OBVIOUS
  <2>1. /\ runtimes \subseteq Rows /\ RowsFit(game, runtimes) /\ WaitingFits(game, runtimes)
        /\ ContextFits(game.stack, runtimes, contexts) /\ LookupFits(game, result)
    BY DEF RuntimeFits, Core
  <2>2. ASSUME NEW i \in DOMAIN game.stack, game.stack[i].trigger # None,
               AbilityOf(game.stack[i].trigger).does = "drawUnlessPaid"
        PROVE  \E c \in contexts : c.entry = game.stack[i].id /\ c.player \in Players \ {game.stack[i].controller}
    <3> DEFINE e == game.stack[i]
    <3>1. e \in Range(game.stack)
      BY DEF Range
    <3>2. e.trigger \in Waiting(game)
      BY <2>2, <3>1 DEF Waiting
    <3>3. PICK r \in runtimes : r.trigger = e.trigger
      BY <2>1, <3>2 DEF WaitingFits
    <3>4. \A q, x \in runtimes : q.trigger = x.trigger => q = x
      BY <2>1 DEF RowsFit
    <3>5. AbilityOf(e.trigger) = AbilityIn(r)
      BY <2>1, <3>3, <3>4, LookUp
    <3> QED BY <2>1, <2>2, <3>1, <3>3, <3>5 DEF ContextFits
  <2> QED BY <2>1, <2>2 DEF TriggersKnowTheirPlayer, LookupFits
<1> QED BY <1>1, RuntimeInvariant, PTL

\* The subscriptions are exactly what the casts so far call for: one for each
\* unconditional ability of a card that was ever cast, one for a conditional
\* ability while its spell is on the stack (register_triggers,
\* retire_conditional_triggers).
THEOREM SubscriptionsExact == SeenSpec => []SubscriptionsAreExact
<1>1. RuntimeFits => SubscriptionsAreExact
  <2> DEFINE live(c, a) == {i \in DOMAIN game.subs : [trigger |-> game.subs[i].trigger, source |-> c, ability |-> a] \in runtimes}
             due(c, a) == IF Text[c].abilities[a].alternate = "none" THEN c \in registered
                          ELSE conditional[c] # <<>> /\ game.zone[c] = "stack"
  <2> SUFFICES ASSUME RuntimeFits, Running, NEW c \in Cards, NEW a \in DOMAIN Text[c].abilities
               PROVE  Cardinality(live(c, a)) = IF due(c, a) THEN 1 ELSE 0
    BY DEF SubscriptionsAreExact
  <2>1. /\ runtimes \subseteq Rows /\ SubsFit(game, runtimes) /\ registered \subseteq Cards
        /\ TableFits(conditional, runtimes) /\ Exact(game, runtimes, registered, conditional, {})
        /\ conditional[c] \in Seq(Nat) /\ Len(conditional[c]) <= 1
    BY DEF RuntimeFits, Core, TableFits, Tables
  <2>2. ASSUME NEW i \in live(c, a)
        PROVE  \E r \in runtimes : /\ r.trigger = game.subs[i].trigger /\ r.source = c /\ r.ability = a
                                   /\ Subscribed(game, r.trigger)
                                   /\ (Conditional(r) <=> Text[c].abilities[a].alternate # "none")
    <3> DEFINE r == [trigger |-> game.subs[i].trigger, source |-> c, ability |-> a]
    <3>1. r \in runtimes /\ r.trigger = game.subs[i].trigger /\ r.source = c /\ r.ability = a
      OBVIOUS
    <3>2. i \in DOMAIN game.subs /\ game.subs[i] \in Range(game.subs)
      BY DEF Range
    <3>3. Conditional(r) <=> Text[c].abilities[a].alternate # "none"
      BY DEF Conditional, AbilityIn
    <3> HIDE DEF r
    <3> QED BY <3>1, <3>2, <3>3 DEF Subscribed
  <2>3. ASSUME NEW r \in runtimes, r.source = c, r.ability = a, Subscribed(game, r.trigger)
        PROVE  \E i \in live(c, a) : game.subs[i].trigger = r.trigger
    <3>1. PICK x \in Range(game.subs) : x.trigger = r.trigger
      BY <2>3 DEF Subscribed
    <3>2. PICK i \in DOMAIN game.subs : game.subs[i] = x
      BY DEF Range
    <3>3. r = [trigger |-> r.trigger, source |-> c, ability |-> a]
      BY <2>1, <2>3 DEF Rows
    <3> QED BY <3>1, <3>2, <3>3
  <2> HIDE DEF live
  <2>4. ASSUME NEW i \in live(c, a), NEW j \in live(c, a), game.subs[i].trigger = game.subs[j].trigger
        PROVE  i = j
    <3>1. /\ i \in DOMAIN game.subs /\ game.subs[i] \in Range(game.subs)
          /\ j \in DOMAIN game.subs /\ game.subs[j] \in Range(game.subs)
      BY DEF live, Range
    <3> QED BY <2>1, <2>4, <3>1 DEF SubsFit, IsInjective
  <2>5. ASSUME NEW i \in live(c, a)
        PROVE  due(c, a)
    <3>1. PICK r \in runtimes : /\ r.source = c /\ Subscribed(game, r.trigger)
                                /\ (Conditional(r) <=> Text[c].abilities[a].alternate # "none")
      BY <2>2
    <3>2. CASE Text[c].abilities[a].alternate = "none"
      BY <2>1, <3>1, <3>2 DEF Exact
    <3>3. CASE Text[c].abilities[a].alternate # "none"
      <4>1. r.trigger \in Range(conditional[c])
        BY <2>1, <3>1, <3>3 DEF Exact
      <4>2. conditional[c] # <<>>
        BY <4>1 DEF Range
      <4> QED BY <2>1, <3>3, <4>2 DEF Exact
    <3> QED BY <3>2, <3>3
  <2>6. ASSUME NEW i \in live(c, a), NEW j \in live(c, a)
        PROVE  i = j
    <3>1. PICK q \in runtimes : /\ q.trigger = game.subs[i].trigger /\ q.source = c /\ q.ability = a
                                /\ Subscribed(game, q.trigger)
                                /\ (Conditional(q) <=> Text[c].abilities[a].alternate # "none")
      BY <2>2
    <3>2. PICK r \in runtimes : /\ r.trigger = game.subs[j].trigger /\ r.source = c /\ r.ability = a
                                /\ Subscribed(game, r.trigger)
                                /\ (Conditional(r) <=> Text[c].abilities[a].alternate # "none")
      BY <2>2
    <3>3. CASE Text[c].abilities[a].alternate = "none"
      <4>1. q = r
        BY <2>1, <3>1, <3>2, <3>3 DEF Exact
      <4> QED BY <2>4, <3>1, <3>2, <4>1
    <3>4. CASE Text[c].abilities[a].alternate # "none"
      <4>1. q.trigger \in Range(conditional[c]) /\ r.trigger \in Range(conditional[c])
        BY <2>1, <3>1, <3>2, <3>4 DEF Exact
      <4>2. \A k \in DOMAIN conditional[c] : k = 1
        BY <2>1
      <4>3. q.trigger = r.trigger
        BY <4>1, <4>2 DEF Range
      <4> QED BY <2>4, <3>1, <3>2, <4>3
    <3> QED BY <3>3, <3>4
  <2>7. ASSUME due(c, a)
        PROVE  \E i : i \in live(c, a)
    <3>1. CASE Text[c].abilities[a].alternate = "none"
      <4>1. PICK r \in runtimes : r.source = c /\ r.ability = a
        BY <2>1, <2>7, <3>1 DEF Exact
      <4>2. Subscribed(game, r.trigger)
        BY <2>1, <3>1, <4>1 DEF Exact, Conditional, AbilityIn
      <4> QED BY <2>3, <4>1, <4>2
    <3>2. CASE Text[c].abilities[a].alternate # "none"
      <4>1. conditional[c] # <<>>
        BY <2>7, <3>2
      <4>2. PICK t : t \in Range(conditional[c])
        <5>1. 1 \in DOMAIN conditional[c]
          BY <2>1, <4>1
        <5> QED BY <5>1 DEF Range
      <4>3. Subscribed(game, t)
        BY <2>1, <4>1, <4>2 DEF Exact
      <4>4. PICK r \in runtimes : r.trigger = t /\ r.source = c /\ Conditional(r)
        BY <2>1, <4>2 DEF TableFits
      <4>5. r.ability = a
        <5>1. r.ability \in DOMAIN Text[c].abilities /\ Text[c].abilities[r.ability].alternate # "none"
          BY <2>1, <4>4 DEF Rows, Conditional, AbilityIn
        <5> QED BY <3>2, <5>1, ProgramAssumption DEF ProgramsFit
      <4> QED BY <2>3, <4>3, <4>4, <4>5
    <3> QED BY <3>1, <3>2
  <2> HIDE DEF due
  <2>8. CASE due(c, a)
    <3>1. PICK i : live(c, a) = {i}
      <4>1. PICK i : i \in live(c, a)
        BY <2>7, <2>8
      <4>2. live(c, a) = {i}
        BY <2>6, <4>1
      <4> QED BY <4>2
    <3> QED BY <2>8, <3>1, FS_Singleton
  <2>9. CASE ~due(c, a)
    <3>1. live(c, a) = {}
      BY <2>5, <2>9
    <3> QED BY <2>9, <3>1, FS_EmptySet
  <2> QED BY <2>8, <2>9
<1> QED BY <1>1, RuntimeInvariant, PTL

\* A resolving spell affects each target that has stayed where it was
\* announced and moves no other card but itself, the dead, and targets that
\* have been away and are back (resolve_top_stack_entry, bind_program_actions,
\* the actions it dispatches one after another).
THEOREM LegalTargetsOnly == SeenSpec => OnlyLegalTargetsAreAffected
<1>1. AffectedAsChecked => TargetsAreAffected
  BY DEF AffectedAsChecked, TargetsAreAffected
<1>2. RuntimeFits /\ [SeenNext]_<<vars, turnStart, strayed>> => [TargetsAreAffected]_vars
  BY <1>1, RuntimeStep
<1> QED BY <1>2, RuntimeInvariant, PTL DEF SeenSpec, OnlyLegalTargetsAreAffected
=============================================================================
