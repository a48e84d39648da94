---- MODULE ZonesProofs ----
(***************************************************************************)
(* Proofs about Zones: every object stays in one place, and a view shows   *)
(* what its player was shown since the last shuffle, no more and no less.  *)
(* Every action is a relocation of objects between zones with the lessons  *)
(* that such moves teach, a shuffle, a mulligan, a reveal or a new token;  *)
(* the invariants are proved for these five shapes.                        *)
(***************************************************************************)
EXTENDS ZonesProperties, SelectionProofs

----------------------------------------------------------------------------
(* Zones *)

LEMMA SeatsAndZones ==
  /\ \A p \in Players : Library(p) \in ZoneIds /\ Hand(p) \in ZoneIds /\ Graveyard(p) \in ZoneIds
  /\ Battlefield \in ZoneIds /\ Ceased \in ZoneIds
  /\ \A p, q : /\ Library(p) # Hand(q) /\ Library(p) # Graveyard(q) /\ Hand(p) # Graveyard(q)
               /\ Hand(p) = Hand(q) => p = q
               /\ Library(p) = Library(q) => p = q
  /\ \A p : HidesIdentity(Hand(p)) /\ HidesIdentity(Library(p)) /\ ~HidesIdentity(Graveyard(p))
  /\ ~HidesIdentity(Battlefield) /\ ~HidesIdentity(Ceased)
BY DEF Library, Hand, Graveyard, Battlefield, Ceased, ZoneIds, OwnedKinds, SharedKinds,
       HidesIdentity

LEMMA HiddenZones ==
  ASSUME NEW z \in ZoneIds, HidesIdentity(z)
  PROVE  z[2] \in Players /\ (z = Hand(z[2]) \/ z = Library(z[2]))
BY DEF ZoneIds, OwnedKinds, SharedKinds, HidesIdentity, Hand, Library

LEMMA ZoneForType ==
  ASSUME NEW o \in Objects, NEW kind \in OwnedKinds \cup SharedKinds
  PROVE  ZoneFor(kind, o) \in ZoneIds
BY ObjectsAssumption DEF ZoneFor, ZoneIds

----------------------------------------------------------------------------
(* Where objects are, whoever knows it *)

In(zs, z) == Range(zs[z])

Apart(zs) == \A z, w \in ZoneIds : z # w => In(zs, z) \cap In(zs, w) = {}

\* Every object at most once.
InPlace(zs) ==
  /\ zs \in [ZoneIds -> Seq(Objects)]
  /\ \A z \in ZoneIds : IsInjective(zs[z])
  /\ Apart(zs)

\* The zone that an object in a zone goes to.
Ways == [ZoneIds \X Objects -> ZoneIds]

Relocated(zs, zt, d) ==
  \A z \in ZoneIds, o \in Objects :
    o \in In(zt, z) <=> \E w \in ZoneIds : o \in In(zs, w) /\ d[<<w, o>>] = z

\* Those of M in zone a go to zone b.
Way(a, b, M) == [x \in ZoneIds \X Objects |-> IF x[1] = a /\ x[2] \in M THEN b ELSE x[1]]

LEMMA InObjects ==
  ASSUME NEW zs \in [ZoneIds -> Seq(Objects)], NEW z \in ZoneIds
  PROVE  /\ zs[z] \in Seq(Objects) /\ In(zs, z) \subseteq Objects
         /\ DOMAIN zs[z] = 1 .. Len(zs[z]) /\ Len(zs[z]) \in Nat
<1>1. zs[z] \in Seq(Objects)
  OBVIOUS
<1>2. DOMAIN zs[z] = 1 .. Len(zs[z]) /\ Len(zs[z]) \in Nat
  BY <1>1
<1>3. \A i \in DOMAIN zs[z] : zs[z][i] \in Objects
  BY <1>1
<1> QED BY <1>1, <1>2, <1>3 DEF In, Range

LEMMA RelocatedApart ==
  ASSUME NEW zs, NEW zt, NEW d \in Ways, zt \in [ZoneIds -> Seq(Objects)],
         Apart(zs), Relocated(zs, zt, d)
  PROVE  Apart(zt)
<1> SUFFICES ASSUME NEW z \in ZoneIds, NEW w \in ZoneIds, NEW o \in In(zt, z), o \in In(zt, w)
             PROVE  z = w
  BY DEF Apart
<1>1. o \in Objects
  BY InObjects
<1>2. PICK z0 \in ZoneIds : o \in In(zs, z0) /\ d[<<z0, o>>] = z
  BY <1>1 DEF Relocated
<1>3. PICK w0 \in ZoneIds : o \in In(zs, w0) /\ d[<<w0, o>>] = w
  BY <1>1 DEF Relocated
<1>4. z0 = w0
  BY <1>2, <1>3 DEF Apart
<1> QED BY <1>2, <1>3, <1>4

\* Some objects of one zone go to another.
LEMMA Transfer ==
  ASSUME NEW zs, InPlace(zs), NEW a \in ZoneIds, NEW b \in ZoneIds, a # b,
         NEW s \in Seq(Objects), IsInjective(s), NEW t \in Seq(Objects), IsInjective(t),
         NEW M, Range(s) = In(zs, a) \ M, Range(t) = In(zs, b) \cup M, M \subseteq In(zs, a),
         NEW zt, zt = [zs EXCEPT ![a] = s, ![b] = t]
  PROVE  InPlace(zt) /\ Way(a, b, M) \in Ways /\ Relocated(zs, zt, Way(a, b, M))
<1> DEFINE d == Way(a, b, M)
<1>1. zs \in [ZoneIds -> Seq(Objects)]
  BY DEF InPlace
<1>2. /\ zt \in [ZoneIds -> Seq(Objects)] /\ zt[a] = s /\ zt[b] = t
      /\ \A z \in ZoneIds : z # a /\ z # b => zt[z] = zs[z]
  BY <1>1
<1>3. d \in Ways
  BY DEF Way, Ways
<1>4. \A z \in ZoneIds, o \in Objects : d[<<z, o>>] = IF z = a /\ o \in M THEN b ELSE z
  BY DEF Way
<1> HIDE DEF d
<1>5. /\ In(zt, a) = In(zs, a) \ M /\ In(zt, b) = In(zs, b) \cup M
      /\ \A z \in ZoneIds : z # a /\ z # b => In(zt, z) = In(zs, z)
  BY <1>2 DEF In
<1>6. Relocated(zs, zt, d)
  <2> SUFFICES ASSUME NEW z \in ZoneIds, NEW o \in Objects
               PROVE  o \in In(zt, z) <=> \E w \in ZoneIds : o \in In(zs, w) /\ d[<<w, o>>] = z
    BY DEF Relocated
  <2>1. CASE z = a
    <3>1. \A w \in ZoneIds : d[<<w, o>>] = a <=> w = a /\ o \notin M
      BY <1>4
    <3> QED BY <1>5, <2>1, <3>1
  <2>2. CASE z = b
    BY <1>4, <1>5, <2>2
  <2>3. CASE z # a /\ z # b
    BY <1>4, <1>5, <2>3
  <2> QED BY <2>1, <2>2, <2>3
<1>7. Apart(zt)
  BY <1>2, <1>3, <1>6, RelocatedApart DEF InPlace
<1>8. \A z \in ZoneIds : IsInjective(zt[z])
  BY <1>2 DEF InPlace
<1> QED BY <1>2, <1>3, <1>6, <1>7, <1>8 DEF InPlace, d

\* One zone takes another order.
LEMMA Reordered ==
  ASSUME NEW zs, InPlace(zs), NEW a \in ZoneIds,
         NEW s \in Seq(Objects), IsInjective(s), Range(s) = In(zs, a),
         NEW zt \in {[zs EXCEPT ![a] = s]}
  PROVE  InPlace(zt) /\ \A z \in ZoneIds : In(zt, z) = In(zs, z)
<1>1. zs \in [ZoneIds -> Seq(Objects)]
  BY DEF InPlace
<1>2. /\ zt \in [ZoneIds -> Seq(Objects)] /\ zt[a] = s
      /\ \A z \in ZoneIds : z # a => zt[z] = zs[z]
  BY <1>1
<1>3. \A z \in ZoneIds : In(zt, z) = In(zs, z)
  BY <1>2 DEF In
<1>4. Apart(zt)
  BY <1>3 DEF Apart, InPlace
<1>5. \A z \in ZoneIds : IsInjective(zt[z])
  BY <1>2 DEF InPlace
<1> QED BY <1>2, <1>3, <1>4, <1>5 DEF InPlace

LEMMA Stays ==
  ASSUME NEW zs, NEW zt, \A z \in ZoneIds : In(zt, z) = In(zs, z), NEW a \in ZoneIds
  PROVE  Way(a, a, {}) \in Ways /\ Relocated(zs, zt, Way(a, a, {}))
BY DEF Way, Ways, Relocated

----------------------------------------------------------------------------
(* What the helpers on sequences of objects make of a zone *)

LEMMA WithoutFacts ==
  ASSUME NEW s \in Seq(Objects), IsInjective(s), NEW S
  PROVE  /\ Without(s, S) \in Seq(Objects) /\ IsInjective(Without(s, S))
         /\ Range(Without(s, S)) = Range(s) \ S
BY KeepFacts DEF Without

LEMMA OrderFacts ==
  ASSUME NEW S \in SUBSET Objects, NEW s \in Orders(S)
  PROVE  s \in Seq(Objects) /\ IsInjective(s) /\ Range(s) = S
<1>1. IsFiniteSet(S)
  BY ObjectsAssumption, FS_Subset
<1>2. s \in Seq(S) /\ Range(s) = S /\ IsInjective(s)
  BY <1>1, ListFacts DEF Orders
<1>3. s \in Seq(Objects)
  BY <1>2
<1> QED BY <1>2, <1>3

LEMMA SelectionFacts ==
  ASSUME NEW S \in SUBSET Objects, NEW s \in Selections(S)
  PROVE  s \in Seq(Objects) /\ IsInjective(s) /\ Range(s) \subseteq S
<1>1. PICK T \in SUBSET S : s \in Orders(T)
  BY DEF Selections
<1>2. T \in SUBSET Objects
  OBVIOUS
<1> QED BY <1>1, <1>2, OrderFacts

\* Objects taken out of one zone and put at either end of another.
LEMMA Transferred ==
  ASSUME NEW zs, InPlace(zs), NEW a \in ZoneIds, NEW b \in ZoneIds, a # b,
         NEW objs \in Seq(Objects), IsInjective(objs), Range(objs) \subseteq In(zs, a),
         NEW zt, \/ zt = [zs EXCEPT ![a] = Without(@, Range(objs)), ![b] = @ \o objs]
                 \/ zt = [zs EXCEPT ![a] = Without(@, Range(objs)), ![b] = objs \o @]
  PROVE  /\ InPlace(zt) /\ Way(a, b, Range(objs)) \in Ways
         /\ Relocated(zs, zt, Way(a, b, Range(objs)))
<1>1. /\ zs \in [ZoneIds -> Seq(Objects)] /\ zs[a] \in Seq(Objects) /\ zs[b] \in Seq(Objects)
      /\ IsInjective(zs[a]) /\ IsInjective(zs[b]) /\ In(zs, a) \cap In(zs, b) = {}
  BY DEF InPlace, Apart
<1> DEFINE s == Without(zs[a], Range(objs))
           after == zs[b] \o objs
           before == objs \o zs[b]
<1>2. s \in Seq(Objects) /\ IsInjective(s) /\ Range(s) = In(zs, a) \ Range(objs)
  BY <1>1, WithoutFacts DEF In
<1>3. Range(zs[b]) \cap Range(objs) = {} /\ Range(objs) \cap Range(zs[b]) = {}
  BY <1>1 DEF In
<1>4. after \in Seq(Objects) /\ IsInjective(after) /\ Range(after) = In(zs, b) \cup Range(objs)
  BY <1>1, <1>3, ConcatFacts DEF In
<1>5. before \in Seq(Objects) /\ IsInjective(before) /\ Range(before) = In(zs, b) \cup Range(objs)
  BY <1>1, <1>3, ConcatFacts DEF In
<1>6. zt = [zs EXCEPT ![a] = s, ![b] = after] \/ zt = [zs EXCEPT ![a] = s, ![b] = before]
  OBVIOUS
<1> HIDE DEF s, after, before
<1> QED BY <1>1, <1>2, <1>4, <1>5, <1>6, Transfer

LEMMA PoppedFacts ==
  ASSUME NEW s \in Seq(Objects), IsInjective(s), NEW k \in 0 .. Len(s)
  PROVE  LET rest == SubSeq(s, 1, Len(s) - k)
             off  == Popped(s, k)
         IN /\ rest \in Seq(Objects) /\ IsInjective(rest)
            /\ off \in Seq(Objects) /\ IsInjective(off)
            /\ Range(off) \subseteq Range(s) /\ Range(rest) = Range(s) \ Range(off)
<1> DEFINE rest == SubSeq(s, 1, Len(s) - k)
           off == [i \in 1 .. k |-> s[Len(s) + 1 - i]]
<1>1. /\ rest \in Seq(Objects) /\ IsInjective(rest) /\ off \in Seq(Objects) /\ IsInjective(off)
      /\ Range(rest) \cap Range(off) = {} /\ Range(rest) \cup Range(off) = Range(s)
  <2>1. off \in [1 .. k -> Objects] /\ \A i \in 1 .. k : off[i] = s[Len(s) + 1 - i]
    <3>1. Len(s) \in Nat /\ \A i \in 1 .. Len(s) : s[i] \in Objects
      OBVIOUS
    <3>2. \A i \in 1 .. k : Len(s) + 1 - i \in 1 .. Len(s)
      BY <3>1
    <3> QED BY <3>1, <3>2
  <2> HIDE DEF off
  <2> QED BY <2>1, CutFacts
<1>2. Popped(s, k) = off
  BY DEF Popped
<1> HIDE DEF off
<1>3. Range(off) \subseteq Range(s) /\ Range(rest) = Range(s) \ Range(off)
  <2> HIDE DEF rest
  <2> QED BY <1>1
<1> QED BY <1>1, <1>2, <1>3

\* The cards that a draw of n takes.
Taken(zs, p, n) == Range(Popped(zs[Library(p)], Fewer(n, Len(zs[Library(p)]))))

LEMMA DrawnFacts ==
  ASSUME NEW zs, InPlace(zs), NEW p \in Players, NEW n \in Nat
  PROVE  LET zt == Drawn(zs, p, n) IN
         /\ InPlace(zt) /\ Way(Library(p), Hand(p), Taken(zs, p, n)) \in Ways
         /\ Relocated(zs, zt, Way(Library(p), Hand(p), Taken(zs, p, n)))
         /\ Taken(zs, p, n) \subseteq In(zs, Library(p))
<1> DEFINE lib == zs[Library(p)]
           k == Fewer(n, Len(lib))
           rest == SubSeq(lib, 1, Len(lib) - k)
           off == Popped(lib, k)
           hand == zs[Hand(p)] \o off
           zt == Drawn(zs, p, n)
<1>1. /\ Library(p) \in ZoneIds /\ Hand(p) \in ZoneIds /\ Library(p) # Hand(p)
  BY SeatsAndZones
<1>2. /\ zs \in [ZoneIds -> Seq(Objects)] /\ lib \in Seq(Objects) /\ zs[Hand(p)] \in Seq(Objects)
      /\ IsInjective(lib) /\ IsInjective(zs[Hand(p)])
      /\ In(zs, Library(p)) \cap In(zs, Hand(p)) = {}
  BY <1>1 DEF InPlace, Apart
<1>3. Len(lib) \in Nat
  BY <1>2
<1>4. k \in 0 .. Len(lib)
  BY <1>3 DEF Fewer
<1>5. zt = [zs EXCEPT ![Library(p)] = rest, ![Hand(p)] = hand]
  BY <1>1, <1>2 DEF Drawn
<1>7. In(zs, Library(p)) = Range(lib) /\ In(zs, Hand(p)) = Range(zs[Hand(p)]) /\ Taken(zs, p, n) = Range(off)
  BY DEF In, Taken
<1> HIDE DEF lib, k, rest, off, zt
<1>8. /\ rest \in Seq(Objects) /\ IsInjective(rest) /\ off \in Seq(Objects) /\ IsInjective(off)
      /\ Range(off) \subseteq Range(lib) /\ Range(rest) = Range(lib) \ Range(off)
  BY <1>2, <1>4, PoppedFacts DEF rest, off
<1>9. Range(rest) = In(zs, Library(p)) \ Range(off) /\ Range(off) \subseteq In(zs, Library(p))
  BY <1>7, <1>8
<1>10. Range(zs[Hand(p)]) \cap Range(off) = {}
  BY <1>2, <1>7, <1>9
<1>11. hand \in Seq(Objects) /\ IsInjective(hand) /\ Range(hand) = In(zs, Hand(p)) \cup Range(off)
  BY <1>2, <1>7, <1>8, <1>10, ConcatFacts
<1> HIDE DEF hand
<1>12. /\ InPlace(zt) /\ Way(Library(p), Hand(p), Range(off)) \in Ways
       /\ Relocated(zs, zt, Way(Library(p), Hand(p), Range(off)))
  BY <1>1, <1>2, <1>5, <1>8, <1>9, <1>11, Transfer
<1> QED BY <1>7, <1>9, <1>12 DEF zt

----------------------------------------------------------------------------
(* The shapes of a step *)

\* What players learn from objects that go their ways.
Learned(d) ==
  {k \in Players \X Objects : \E w \in ZoneIds :
     /\ k[2] \in In(zones, w) /\ d[<<w, k[2]>>] # w
     /\ k[1] \in Learners(w, d[<<w, k[2]>>])}

\* Objects go between the library and the hand of one player only.
Homeward(d) ==
  \A w \in ZoneIds, o \in Objects :
    o \in In(zones, w) /\ d[<<w, o>>] # w =>
      \E p \in Players : \/ w = Library(p) /\ d[<<w, o>>] = Hand(p)
                         \/ w = Hand(p) /\ d[<<w, o>>] = Library(p)

SamePlaces == \A z \in ZoneIds : In(zones', z) = In(zones, z)

MoveStep ==
  \E d \in Ways :
    /\ InPlace(zones') /\ Relocated(zones, zones', d)
    /\ known' = known \cup Learned(d) /\ events' = {}
    /\ begun' = begun /\ (begun \/ Homeward(d))

ShuffleStep ==
  \E p \in Players :
    /\ InPlace(zones') /\ SamePlaces
    /\ known' = Forget(In(zones, Library(p))) /\ events' = {<<"ZoneShuffled", p>>}
    /\ begun /\ begun'

MulliganStep ==
  \E p \in Players :
    LET S == In(zones, Hand(p)) \cup In(zones, Library(p)) IN
    /\ InPlace(zones') /\ In(zones', Hand(p)) \cup In(zones', Library(p)) = S
    /\ \A z \in ZoneIds : z # Hand(p) /\ z # Library(p) => In(zones', z) = In(zones, z)
    /\ known' = {k \in known : k[2] \notin S} /\ events' = {<<"ZoneShuffled", p>>}
    /\ ~begun /\ ~begun'

RevealStep ==
  \E o \in Objects :
    /\ Exists(o) /\ UNCHANGED zones
    /\ known' = known \cup (Players \X {o}) /\ events' = {<<"ObjectRevealed", o>>}
    /\ begun /\ begun'

TokenStep ==
  \E t \in Tokens :
    /\ InPlace(zones')
    /\ \A z \in ZoneIds : In(zones', z) = IF z = Battlefield THEN In(zones, z) \cup {t} ELSE In(zones, z)
    /\ UNCHANGED known /\ events' = {} /\ begun /\ begun'

IdleStep == UNCHANGED <<zones, known>> /\ events' \in {{}, events} /\ (begun => begun')

Shaped == \/ MoveStep \/ ShuffleStep \/ MulliganStep
          \/ RevealStep \/ TokenStep \/ IdleStep

LEMMA LearnersArePlayers ==
  ASSUME NEW a \in ZoneIds, NEW b \in ZoneIds
  PROVE  Learners(a, b) \subseteq Players
BY HiddenZones DEF Learners, ZoneIds, OwnedKinds, SharedKinds, HidesIdentity

LEMMA LearnedOnTheWay ==
  ASSUME InPlace(zones), NEW a \in ZoneIds, NEW b \in ZoneIds, a # b,
         NEW M, M \subseteq In(zones, a)
  PROVE  Learned(Way(a, b, M)) = Learners(a, b) \X M
<1> DEFINE d == Way(a, b, M)
<1>1. \A w \in ZoneIds, o \in Objects : d[<<w, o>>] = IF w = a /\ o \in M THEN b ELSE w
  BY DEF Way
<1>2. M \subseteq Objects
  BY InObjects DEF InPlace
<1>3. Learners(a, b) \subseteq Players
  BY LearnersArePlayers
<1> HIDE DEF d
<1>4. ASSUME NEW k \in Learned(d)
      PROVE  k \in Learners(a, b) \X M
  <2>1. k \in Players \X Objects /\ k = <<k[1], k[2]>>
    BY DEF Learned
  <2>2. PICK w \in ZoneIds : d[<<w, k[2]>>] # w /\ k[1] \in Learners(w, d[<<w, k[2]>>])
    BY DEF Learned
  <2>3. w = a /\ k[2] \in M /\ d[<<w, k[2]>>] = b
    BY <1>1, <2>1, <2>2
  <2> QED BY <2>1, <2>2, <2>3
<1>5. ASSUME NEW p \in Learners(a, b), NEW o \in M
      PROVE  <<p, o>> \in Learned(d)
  <2>1. d[<<a, o>>] = b
    BY <1>1, <1>2
  <2>2. o \in In(zones, a) /\ p \in Players /\ o \in Objects
    BY <1>2, <1>3
  <2> QED BY <2>1, <2>2 DEF Learned
<1>6. Learners(a, b) \X M \subseteq Learned(d)
  BY <1>5
<1> QED BY <1>4, <1>6 DEF d

LEMMA MoveOnTheWay ==
  ASSUME InPlace(zones), NEW a \in ZoneIds, NEW b \in ZoneIds, a # b,
         NEW M, M \subseteq In(zones, a), Way(a, b, M) \in Ways,
         InPlace(zones'), Relocated(zones, zones', Way(a, b, M)),
         known' = known \cup (Learners(a, b) \X M), events' = {}, begun' = begun,
         begun \/ \E p \in Players : \/ a = Library(p) /\ b = Hand(p)
                                     \/ a = Hand(p) /\ b = Library(p)
  PROVE  MoveStep
<1>1. known' = known \cup Learned(Way(a, b, M))
  BY LearnedOnTheWay
<1>2. ASSUME ~begun PROVE Homeward(Way(a, b, M))
  <2>1. \A w \in ZoneIds, o \in Objects :
          Way(a, b, M)[<<w, o>>] # w => w = a /\ Way(a, b, M)[<<w, o>>] = b
    BY DEF Way
  <2> QED BY <1>2, <2>1 DEF Homeward
<1> QED BY <1>1, <1>2 DEF MoveStep

LEMMA MoveWithinZones ==
  ASSUME InPlace(zones), InPlace(zones'), SamePlaces, UNCHANGED <<known, begun>>, events' = {}
  PROVE  MoveStep
<1> DEFINE d == Way(Battlefield, Battlefield, {})
<1>1. d \in Ways /\ Relocated(zones, zones', d)
  BY SeatsAndZones, Stays DEF SamePlaces
<1>2. \A w \in ZoneIds, o \in Objects : d[<<w, o>>] = w
  BY DEF Way
<1> HIDE DEF d
<1>3. Learned(d) = {}
  BY <1>2 DEF Learned
<1>4. Homeward(d)
  BY <1>2 DEF Homeward
<1> QED BY <1>1, <1>3, <1>4 DEF MoveStep

LEMMA Located ==
  ASSUME NEW o, Exists(o)
  PROVE  ZoneOf(o) \in ZoneIds /\ o \in In(zones, ZoneOf(o))
BY DEF Exists, ZoneOf, In

LEMMA MoveToMoves ==
  ASSUME InPlace(zones), NEW o \in Objects, Exists(o), NEW to \in ZoneIds, MoveTo(o, to),
         events' = {}, begun, begun' = begun
  PROVE  MoveStep
<1> DEFINE from == ZoneOf(o)
<1>1. from \in ZoneIds /\ o \in In(zones, from)
  BY Located
<1>2. CASE from = to
  <2>1. UNCHANGED <<zones, known>>
    BY <1>2 DEF MoveTo
  <2> QED BY <2>1, MoveWithinZones DEF SamePlaces
<1>3. CASE from # to
  <2>1. /\ zones' = [zones EXCEPT ![from] = Without(@, Range(<<o>>)), ![to] = @ \o <<o>>]
        /\ known' = known \cup (Learners(from, to) \X {o})
    BY <1>3 DEF MoveTo, Moved, Remember
  <2>2. Range(<<o>>) = {o} /\ IsInjective(<<o>>) /\ <<o>> \in Seq(Objects)
    BY DEF Range, IsInjective
  <2> HIDE DEF from
  <2>3. /\ InPlace(zones') /\ Way(from, to, {o}) \in Ways
        /\ Relocated(zones, zones', Way(from, to, {o}))
    <3> DEFINE objs == <<o>>
    <3>1. /\ objs \in Seq(Objects) /\ IsInjective(objs) /\ Range(objs) = {o}
          /\ Range(objs) \subseteq In(zones, from)
          /\ zones' = [zones EXCEPT ![from] = Without(@, Range(objs)), ![to] = @ \o objs]
      BY <1>1, <2>1, <2>2
    <3> HIDE DEF objs
    <3> QED BY <1>1, <1>3, <3>1, Transferred
  <2> QED BY <1>1, <1>3, <2>1, <2>3, MoveOnTheWay
<1> QED BY <1>2, <1>3

----------------------------------------------------------------------------
(* The opening *)

OpeningOver == kept \subseteq Players /\ (begun => kept = Players)

Searching == todo # <<>> => begun /\ found \in Objects /\ Exists(found)

\* Every object is at one place, and no card is lost.
Placed == InPlace(zones) /\ OpeningOver /\ Searching /\ \A c \in Cards : Exists(c)

LEMMA WayThere ==
  ASSUME NEW zs, NEW zt, InPlace(zs), InPlace(zt), NEW a \in ZoneIds, NEW b \in ZoneIds, a # b,
         NEW M, M \subseteq In(zs, a), Relocated(zs, zt, Way(a, b, M))
  PROVE  /\ In(zt, a) = In(zs, a) \ M /\ In(zt, b) = In(zs, b) \cup M
         /\ \A z \in ZoneIds : z # a /\ z # b => In(zt, z) = In(zs, z)
<1> DEFINE d == Way(a, b, M)
<1>1. \A w \in ZoneIds, o \in Objects : d[<<w, o>>] = IF w = a /\ o \in M THEN b ELSE w
  BY DEF Way
<1>2. \A z \in ZoneIds : In(zs, z) \subseteq Objects /\ In(zt, z) \subseteq Objects
  BY InObjects DEF InPlace
<1>3. \A z \in ZoneIds, o \in Objects :
        o \in In(zt, z) <=> \E w \in ZoneIds : o \in In(zs, w) /\ d[<<w, o>>] = z
  BY DEF Relocated
<1> HIDE DEF d
<1>4. ASSUME NEW z \in ZoneIds, NEW o \in Objects, o \in In(zt, z)
      PROVE  IF o \in M THEN z = b \/ (z # a /\ o \in In(zs, z)) ELSE o \in In(zs, z)
  <2>1. PICK w \in ZoneIds : o \in In(zs, w) /\ d[<<w, o>>] = z
    BY <1>3, <1>4
  <2>2. z = IF w = a /\ o \in M THEN b ELSE w
    BY <1>1, <2>1
  <2>3. CASE o \in M
    BY <2>1, <2>2, <2>3
  <2>4. CASE o \notin M
    BY <2>1, <2>2, <2>4
  <2> QED BY <2>3, <2>4
<1>5. ASSUME NEW z \in ZoneIds, NEW o \in Objects, o \in In(zs, z), z # a \/ o \notin M
      PROVE  o \in In(zt, z)
  <2>1. d[<<z, o>>] = z
    BY <1>1, <1>5
  <2> QED BY <1>3, <1>5, <2>1
<1>6. ASSUME NEW o \in M
      PROVE  o \in In(zt, b)
  <2>1. o \in Objects /\ o \in In(zs, a)
    BY <1>2
  <2>2. d[<<a, o>>] = b
    BY <1>1, <2>1
  <2> QED BY <1>3, <2>1, <2>2
<1>7. In(zt, a) = In(zs, a) \ M
  BY <1>2, <1>4, <1>5
<1>8. In(zt, b) = In(zs, b) \cup M
  BY <1>2, <1>4, <1>5, <1>6
<1>9. ASSUME NEW z \in ZoneIds, z # a, z # b
      PROVE  In(zt, z) = In(zs, z)
  BY <1>2, <1>4, <1>5, <1>9
<1> QED BY <1>7, <1>8, <1>9

LEMMA IdleMoves ==
  ASSUME OpeningOver,
         DecideTurnOrder \/ StartTurn \/ Rest \/ UNCHANGED vars
           \/ \E p \in Players : SearchLibrary(p)
  PROVE  IdleStep
BY DEF DecideTurnOrder, StartTurn, Rest, SearchLibrary, Playing, vars, openingVars, IdleStep

LEMMA DrawOpeningHandsMoves ==
  ASSUME InPlace(zones), DrawOpeningHands
  PROVE  MoveStep
<1> DEFINE taken(p) == Taken(zones, p, HandSize)
           after(p) == Drawn(zones, p, HandSize)
           d == [x \in ZoneIds \X Objects |->
                   IF x[1][1] = "Library" /\ x[2] \in taken(x[1][2]) THEN Hand(x[1][2]) ELSE x[1]]
<1>1. HandSize \in Nat
  BY OpeningAssumption
<1>2. \A p \in Players :
        /\ InPlace(after(p)) /\ taken(p) \subseteq In(zones, Library(p))
        /\ In(after(p), Library(p)) = In(zones, Library(p)) \ taken(p)
        /\ In(after(p), Hand(p)) = In(zones, Hand(p)) \cup taken(p)
  <2> SUFFICES ASSUME NEW p \in Players
               PROVE  /\ InPlace(after(p)) /\ taken(p) \subseteq In(zones, Library(p))
                      /\ In(after(p), Library(p)) = In(zones, Library(p)) \ taken(p)
                      /\ In(after(p), Hand(p)) = In(zones, Hand(p)) \cup taken(p)
    OBVIOUS
  <2>1. /\ InPlace(after(p)) /\ taken(p) \subseteq In(zones, Library(p))
        /\ Relocated(zones, after(p), Way(Library(p), Hand(p), taken(p)))
    BY <1>1, DrawnFacts
  <2> HIDE DEF after, taken
  <2> QED BY <2>1, SeatsAndZones, WayThere
<1>3. /\ \A p \in Players : /\ zones'[Library(p)] = after(p)[Library(p)]
                            /\ zones'[Hand(p)] = after(p)[Hand(p)]
      /\ \A z \in ZoneIds : ~HidesIdentity(z) => zones'[z] = zones[z]
  BY SeatsAndZones DEF DrawOpeningHands, Library, Hand, HidesIdentity
<1>4. zones' \in [ZoneIds -> Seq(Objects)] /\ \A z \in ZoneIds : IsInjective(zones'[z])
  <2>1. ASSUME NEW z \in ZoneIds
        PROVE  zones'[z] \in Seq(Objects) /\ IsInjective(zones'[z])
    <3> HIDE DEF after, taken
    <3>1. CASE HidesIdentity(z)
      <4>1. z[2] \in Players /\ (z = Hand(z[2]) \/ z = Library(z[2]))
        BY <3>1, HiddenZones
      <4>2. zones'[z] = after(z[2])[z]
        BY <1>3, <4>1
      <4> QED BY <1>2, <4>1, <4>2 DEF InPlace
    <3>2. CASE ~HidesIdentity(z)
      BY <1>3, <3>2 DEF InPlace
    <3> QED BY <3>1, <3>2
  <2>2. zones' = [z \in ZoneIds |-> zones'[z]]
    BY DEF DrawOpeningHands
  <2> QED BY <2>1, <2>2
<1>5. d \in Ways
  BY SeatsAndZones DEF Ways, ZoneIds, Library, Hand, OwnedKinds, SharedKinds
<1>6. \A w \in ZoneIds, o \in Objects :
        d[<<w, o>>] = IF w[1] = "Library" /\ o \in taken(w[2]) THEN Hand(w[2]) ELSE w
  OBVIOUS
<1> HIDE DEF d, after, taken
<1>7. \A p \in Players, o \in Objects :
        /\ d[<<Library(p), o>>] = IF o \in taken(p) THEN Hand(p) ELSE Library(p)
        /\ d[<<Hand(p), o>>] = Hand(p)
  BY <1>6, SeatsAndZones DEF Library, Hand
<1>8. \A w \in ZoneIds, o \in Objects : ~HidesIdentity(w) => d[<<w, o>>] = w
  BY <1>6 DEF HidesIdentity
<1>9. /\ \A p \in Players : /\ In(zones', Library(p)) = In(zones, Library(p)) \ taken(p)
                            /\ In(zones', Hand(p)) = In(zones, Hand(p)) \cup taken(p)
      /\ \A z \in ZoneIds : ~HidesIdentity(z) => In(zones', z) = In(zones, z)
  BY <1>2, <1>3 DEF In
<1>10. \A w \in ZoneIds : \/ ~HidesIdentity(w)
                          \/ \E p \in Players : w = Hand(p) \/ w = Library(p)
  BY HiddenZones
<1>11. Relocated(zones, zones', d)
  <2>1. ASSUME NEW z \in ZoneIds, NEW o \in Objects, NEW w \in ZoneIds, o \in In(zones, w),
               d[<<w, o>>] = z
        PROVE  o \in In(zones', z)
    <3>1. CASE ~HidesIdentity(w)
      BY <1>8, <1>9, <2>1, <3>1
    <3>2. ASSUME NEW p \in Players, w = Hand(p)
          PROVE  o \in In(zones', z)
      <4>1. z = Hand(p)
        BY <1>7, <2>1, <3>2
      <4> QED BY <1>9, <2>1, <3>2, <4>1
    <3>3. ASSUME NEW p \in Players, w = Library(p)
          PROVE  o \in In(zones', z)
      <4>1. z = IF o \in taken(p) THEN Hand(p) ELSE Library(p)
        BY <1>7, <2>1, <3>3
      <4> QED BY <1>9, <2>1, <3>3, <4>1
    <3> QED BY <1>10, <3>1, <3>2, <3>3
  <2>2. ASSUME NEW z \in ZoneIds, NEW o \in Objects, o \in In(zones', z)
        PROVE  \E w \in ZoneIds : o \in In(zones, w) /\ d[<<w, o>>] = z
    <3>1. CASE ~HidesIdentity(z)
      BY <1>8, <1>9, <2>2, <3>1
    <3>2. ASSUME NEW p \in Players, z = Hand(p)
          PROVE  \E w \in ZoneIds : o \in In(zones, w) /\ d[<<w, o>>] = z
      <4>1. CASE o \in taken(p)
        <5>1. o \in In(zones, Library(p)) /\ d[<<Library(p), o>>] = z /\ Library(p) \in ZoneIds
          BY <1>2, <1>7, <3>2, <4>1, SeatsAndZones
        <5> QED BY <5>1
      <4>2. CASE o \notin taken(p)
        <5>1. o \in In(zones, z) /\ d[<<z, o>>] = z
          BY <1>7, <1>9, <2>2, <3>2, <4>2
        <5> QED BY <5>1
      <4> QED BY <4>1, <4>2
    <3>3. ASSUME NEW p \in Players, z = Library(p)
          PROVE  \E w \in ZoneIds : o \in In(zones, w) /\ d[<<w, o>>] = z
      <4>1. o \in In(zones, z) /\ d[<<z, o>>] = z
        BY <1>7, <1>9, <2>2, <3>3
      <4> QED BY <4>1
    <3> QED BY <1>10, <3>1, <3>2, <3>3
  <2> QED BY <2>1, <2>2 DEF Relocated
<1>12. InPlace(zones')
  <2>1. Apart(zones)
    BY DEF InPlace
  <2> QED BY <1>4, <1>5, <1>11, <2>1, RelocatedApart DEF InPlace
<1>13. \A w \in ZoneIds, o \in Objects : d[<<w, o>>] # w =>
         \E p \in Players : w = Library(p) /\ d[<<w, o>>] = Hand(p)
  BY <1>7, <1>8, <1>10
<1>14. Homeward(d)
  BY <1>13 DEF Homeward
<1>15. Learned(d) = {}
  <2> SUFFICES ASSUME NEW k \in Players \X Objects, NEW w \in ZoneIds, d[<<w, k[2]>>] # w,
                      k[1] \in Learners(w, d[<<w, k[2]>>])
               PROVE  FALSE
    BY DEF Learned
  <2>1. k[2] \in Objects
    OBVIOUS
  <2>2. PICK p \in Players : w = Library(p) /\ d[<<w, k[2]>>] = Hand(p)
    BY <1>13, <2>1
  <2>3. Learners(Library(p), Hand(p)) = {}
    BY DEF Learners, Library, Hand, HidesIdentity
  <2> QED BY <2>2, <2>3
<1>16. known' = known /\ events' = {} /\ begun' = begun
  BY DEF DrawOpeningHands
<1> QED BY <1>5, <1>11, <1>12, <1>14, <1>15, <1>16 DEF MoveStep

LEMMA TakeMulliganMoves ==
  ASSUME InPlace(zones), OpeningOver, NEW p \in Players, TakeMulligan(p)
  PROVE  MulliganStep
<1> DEFINE hand == Hand(p)
           lib == Library(p)
           S == In(zones, hand) \cup In(zones, lib)
<1>1. PICK order \in Orders(S) :
        zones' = Drawn([zones EXCEPT ![lib] = order, ![hand] = <<>>], p, HandSize)
  BY DEF TakeMulligan, In
<1>2. known' = {k \in Remember(Learners(hand, lib), In(zones, hand)) : k[2] \notin S}
  BY DEF TakeMulligan, AfterMulligan, In
<1>3. events' = {<<"ZoneShuffled", p>>} /\ begun' = begun /\ p \notin kept
  BY DEF TakeMulligan, Deciding
<1>4. ~begun
  BY <1>3 DEF OpeningOver
<1>5. hand \in ZoneIds /\ lib \in ZoneIds /\ hand # lib
  BY SeatsAndZones
<1>6. In(zones, hand) \subseteq Objects /\ In(zones, lib) \subseteq Objects
  BY <1>5, InObjects DEF InPlace
<1> HIDE DEF hand, lib
<1>7. order \in Seq(Objects) /\ IsInjective(order) /\ Range(order) = S
  BY <1>1, <1>6, OrderFacts
<1> DEFINE zm == [zones EXCEPT ![hand] = <<>>, ![lib] = order]
<1>8. zm = [zones EXCEPT ![lib] = order, ![hand] = <<>>]
  BY <1>5 DEF InPlace
<1>9. <<>> \in Seq(Objects) /\ IsInjective(<<>>) /\ Range(<<>>) = {}
  BY DEF IsInjective, Range
<1>10. /\ InPlace(zm) /\ Relocated(zones, zm, Way(hand, lib, In(zones, hand)))
  <2>1. \E none \in Seq(Objects) : none = <<>> /\ IsInjective(none) /\ Range(none) = {}
    BY <1>9
  <2>2. PICK none \in Seq(Objects) : none = <<>> /\ IsInjective(none) /\ Range(none) = {}
    BY <2>1
  <2>3. /\ Range(none) = In(zones, hand) \ In(zones, hand)
        /\ Range(order) = In(zones, lib) \cup In(zones, hand)
    BY <1>7, <2>2
  <2>4. zm = [zones EXCEPT ![hand] = none, ![lib] = order]
    BY <2>2
  <2> HIDE DEF zm
  <2> QED BY <1>5, <1>7, <2>2, <2>3, <2>4, Transfer
<1> HIDE DEF zm
<1>11. /\ In(zm, hand) = {} /\ In(zm, lib) = S
       /\ \A z \in ZoneIds : z # hand /\ z # lib => In(zm, z) = In(zones, z)
  BY <1>5, <1>10, WayThere
<1>12. /\ InPlace(zones') /\ Taken(zm, p, HandSize) \subseteq In(zm, lib)
       /\ Relocated(zm, zones', Way(lib, hand, Taken(zm, p, HandSize)))
  <2>1. zones' = Drawn(zm, p, HandSize) /\ HandSize \in Nat
    BY <1>1, <1>8, OpeningAssumption
  <2> QED BY <1>10, <2>1, DrawnFacts DEF hand, lib
<1>13. /\ In(zones', lib) = In(zm, lib) \ Taken(zm, p, HandSize)
       /\ In(zones', hand) = In(zm, hand) \cup Taken(zm, p, HandSize)
       /\ \A z \in ZoneIds : z # hand /\ z # lib => In(zones', z) = In(zm, z)
  <2> DEFINE M == Taken(zm, p, HandSize)
  <2>1. M \subseteq In(zm, lib) /\ Relocated(zm, zones', Way(lib, hand, M))
    BY <1>12
  <2> HIDE DEF M
  <2>2. /\ In(zones', lib) = In(zm, lib) \ M /\ In(zones', hand) = In(zm, hand) \cup M
        /\ \A z \in ZoneIds : z # lib /\ z # hand => In(zones', z) = In(zm, z)
    BY <1>5, <1>10, <1>12, <2>1, WayThere
  <2> QED BY <2>2 DEF M
<1>14. In(zones', hand) \cup In(zones', lib) = S
  BY <1>11, <1>12, <1>13
<1>15. known' = {k \in known : k[2] \notin S}
  BY <1>2 DEF Remember
<1>16. \A z \in ZoneIds : z # hand /\ z # lib => In(zones', z) = In(zones, z)
  BY <1>11, <1>13
<1> QED BY <1>3, <1>4, <1>12, <1>14, <1>15, <1>16 DEF MulliganStep, hand, lib

LEMMA KeepOpeningHandMoves ==
  ASSUME InPlace(zones), NEW p \in Players, KeepOpeningHand(p)
  PROVE  MoveStep
<1> DEFINE hand == Hand(p)
           lib == Library(p)
<1>1. PICK bottom \in Selections(In(zones, hand)) :
        zones' = Bottomed(p, bottom) /\ known' = Remember(Learners(hand, lib), Range(bottom))
  BY DEF KeepOpeningHand, In
<1>2. hand \in ZoneIds /\ lib \in ZoneIds /\ hand # lib
  BY SeatsAndZones
<1>3. In(zones, hand) \subseteq Objects
  BY <1>2, InObjects DEF InPlace
<1>4. bottom \in Seq(Objects) /\ IsInjective(bottom) /\ Range(bottom) \subseteq In(zones, hand)
  BY <1>3, SelectionFacts
<1>5. zones' = [zones EXCEPT ![hand] = Without(@, Range(bottom)), ![lib] = bottom \o @]
  BY <1>1 DEF Bottomed
<1>6. known' = known \cup (Learners(hand, lib) \X Range(bottom))
  BY <1>1 DEF Remember
<1>7. events' = {} /\ begun' = begun
  BY DEF KeepOpeningHand
<1>8. \E q \in Players : hand = Hand(q) /\ lib = Library(q)
  OBVIOUS
<1> HIDE DEF hand, lib
<1>9. /\ InPlace(zones') /\ Way(hand, lib, Range(bottom)) \in Ways
      /\ Relocated(zones, zones', Way(hand, lib, Range(bottom)))
  BY <1>2, <1>4, <1>5, Transferred
<1> QED BY <1>2, <1>4, <1>6, <1>7, <1>8, <1>9, MoveOnTheWay

----------------------------------------------------------------------------
(* Moves in play *)

LEMMA MoveObjectMoves ==
  ASSUME InPlace(zones), NEW o \in Objects, NEW kind \in Destinations, MoveObject(o, kind)
  PROVE  MoveStep
<1>1. ZoneFor(kind, o) \in ZoneIds
  BY ZonesBoundsAssumption, ZoneForType
<1> QED BY <1>1, MoveToMoves DEF MoveObject, Play, Playing, openingVars

LEMMA DrawCardsMoves ==
  ASSUME InPlace(zones), NEW p \in Players, DrawCards(p)
  PROVE  MoveStep
<1> DEFINE M == Taken(zones, p, 1)
<1>1. /\ Library(p) \in ZoneIds /\ Hand(p) \in ZoneIds /\ Library(p) # Hand(p)
  BY SeatsAndZones
<1>2. /\ InPlace(zones') /\ Way(Library(p), Hand(p), M) \in Ways
      /\ Relocated(zones, zones', Way(Library(p), Hand(p), M)) /\ M \subseteq In(zones, Library(p))
  BY DrawnFacts DEF DrawCards
<1>3. known' = known /\ events' = {} /\ begun' = begun /\ begun
  BY DEF DrawCards, Play, Playing, openingVars
<1>4. Learners(Library(p), Hand(p)) = {}
  BY DEF Learners, Library, Hand, HidesIdentity
<1> HIDE DEF M
<1>5. known' = known \cup (Learners(Library(p), Hand(p)) \X M)
  BY <1>3, <1>4
<1> QED BY <1>1, <1>2, <1>3, <1>5, MoveOnTheWay

\* Objects that go from a zone of a player into their graveyard.
LEMMA Buried ==
  ASSUME InPlace(zones), NEW p \in Players, NEW from \in {Library(p), Hand(p)},
         NEW objs \in Seq(Objects), IsInjective(objs), Range(objs) \subseteq In(zones, from),
         zones' = Moved(from, Graveyard(p), objs), UNCHANGED <<known, begun>>, events' = {}, begun
  PROVE  MoveStep
<1>1. from \in ZoneIds /\ Graveyard(p) \in ZoneIds /\ from # Graveyard(p)
  BY SeatsAndZones
<1>2. zones' = [zones EXCEPT ![from] = Without(@, Range(objs)), ![Graveyard(p)] = @ \o objs]
  BY DEF Moved
<1>3. /\ InPlace(zones') /\ Way(from, Graveyard(p), Range(objs)) \in Ways
      /\ Relocated(zones, zones', Way(from, Graveyard(p), Range(objs)))
  BY <1>1, <1>2, Transferred
<1>4. Learners(from, Graveyard(p)) = {}
  BY DEF Learners, Graveyard, HidesIdentity
<1>5. known' = known \cup (Learners(from, Graveyard(p)) \X Range(objs))
  BY <1>4
<1> QED BY <1>1, <1>3, <1>5, MoveOnTheWay

LEMMA TopObjectsInLibrary ==
  ASSUME NEW s \in Seq(Objects), NEW k \in 1 .. 2, k <= Len(s)
  PROVE  TopObjects(s, k) \subseteq Range(s)
<1> DEFINE top == SubSeq(s, Len(s) - k + 1, Len(s))
<1>1. Len(s) \in Nat /\ DOMAIN s = 1 .. Len(s)
  OBVIOUS
<1>2. Len(s) - k + 1 \in 1 .. Len(s)
  BY <1>1
<1>3. DOMAIN top = 1 .. k /\ \A i \in 1 .. k : top[i] = s[Len(s) - k + i]
  BY <1>1, <1>2
<1>4. \A i \in 1 .. k : Len(s) - k + i \in 1 .. Len(s)
  BY <1>1
<1> HIDE DEF top
<1>5. Range(top) \subseteq Range(s)
  BY <1>1, <1>3, <1>4 DEF Range
<1> QED BY <1>5 DEF TopObjects, top

LEMMA SurveilMoves ==
  ASSUME InPlace(zones), NEW p \in Players, NEW count \in 1 .. 2, Surveil(p, count)
  PROVE  MoveStep
<1> DEFINE lib == zones[Library(p)]
<1>1. Library(p) \in ZoneIds
  BY SeatsAndZones
<1>2. lib \in Seq(Objects) /\ count <= Len(lib) /\ Range(lib) \subseteq Objects
  BY <1>1, InObjects DEF InPlace, Surveil, In
<1>3. PICK away \in Selections(TopObjects(lib, count)) : zones' = Moved(Library(p), Graveyard(p), away)
  BY DEF Surveil
<1>4. UNCHANGED <<known, begun>> /\ events' = {} /\ begun
  BY DEF Surveil, Play, Playing, openingVars
<1>5. In(zones, Library(p)) = Range(lib)
  BY DEF In
<1> HIDE DEF lib
<1>6. TopObjects(lib, count) \subseteq Range(lib)
  BY <1>2, TopObjectsInLibrary
<1>7. away \in Seq(Objects) /\ IsInjective(away) /\ Range(away) \subseteq Range(lib)
  BY <1>2, <1>6, SelectionFacts
<1> QED BY <1>3, <1>4, <1>5, <1>7, Buried

LEMMA DiscardMoves ==
  ASSUME InPlace(zones), NEW p \in Players, DiscardToMaxHandSize(p)
  PROVE  MoveStep
<1> DEFINE hand == zones[Hand(p)]
           k == Len(hand) - MaxHandSize
           off == Popped(hand, k)
<1>1. Hand(p) \in ZoneIds
  BY SeatsAndZones
<1>2. hand \in Seq(Objects) /\ IsInjective(hand) /\ Len(hand) > MaxHandSize /\ Len(hand) \in Nat
  BY <1>1, InObjects DEF InPlace, DiscardToMaxHandSize
<1>3. k \in 0 .. Len(hand)
  BY <1>2, OpeningAssumption
<1>4. zones' = Moved(Hand(p), Graveyard(p), off)
  BY DEF DiscardToMaxHandSize
<1>5. UNCHANGED <<known, begun>> /\ events' = {} /\ begun
  BY DEF DiscardToMaxHandSize, Play, Playing, openingVars
<1>6. In(zones, Hand(p)) = Range(hand)
  BY DEF In
<1> HIDE DEF hand, k
<1>7. off \in Seq(Objects) /\ IsInjective(off) /\ Range(off) \subseteq Range(hand)
  BY <1>2, <1>3, PoppedFacts
<1> HIDE DEF off
<1> QED BY <1>4, <1>5, <1>6, <1>7, Buried

LEMMA ShuffledKeeps ==
  ASSUME InPlace(zones), NEW p \in Players, ShuffledLibrary(p), begun, begun'
  PROVE  ShuffleStep
<1> DEFINE lib == Library(p)
<1>1. lib \in ZoneIds /\ In(zones, lib) \subseteq Objects
  BY SeatsAndZones, InObjects DEF InPlace
<1>2. PICK order \in Orders(In(zones, lib)) : zones' = [zones EXCEPT ![lib] = order]
  BY DEF ShuffledLibrary, In
<1>3. order \in Seq(Objects) /\ IsInjective(order) /\ Range(order) = In(zones, lib)
  BY <1>1, OrderFacts
<1>4. known' = Forget(In(zones, Library(p))) /\ events' = {<<"ZoneShuffled", p>>}
  BY DEF ShuffledLibrary, In
<1> HIDE DEF lib
<1>5. InPlace(zones') /\ SamePlaces
  <2>1. InPlace(zones') /\ \A z \in ZoneIds : In(zones', z) = In(zones, z)
    BY <1>1, <1>2, <1>3, Reordered
  <2> QED BY <2>1 DEF SamePlaces
<1> QED BY <1>4, <1>5 DEF ShuffleStep

LEMMA ScryMoves ==
  ASSUME InPlace(zones), NEW p \in Players, NEW count \in 1 .. 2, Scry(p, count)
  PROVE  MoveStep
<1> DEFINE lib == zones[Library(p)]
<1>1. Library(p) \in ZoneIds
  BY SeatsAndZones
<1>2. /\ lib \in Seq(Objects) /\ IsInjective(lib) /\ count <= Len(lib) /\ Range(lib) \subseteq Objects
      /\ zones \in [ZoneIds -> Seq(Objects)]
  BY <1>1, InObjects DEF InPlace, Scry, In
<1>3. PICK bottom \in Selections(TopObjects(lib, count)) :
        zones' = [zones EXCEPT ![Library(p)] = bottom \o Without(lib, Range(bottom))]
  BY <1>1, <1>2 DEF Scry
<1>4. UNCHANGED <<known, begun>> /\ events' = {}
  BY DEF Scry, Play, openingVars
<1>5. In(zones, Library(p)) = Range(lib)
  BY DEF In
<1> HIDE DEF lib
<1>6. TopObjects(lib, count) \subseteq Range(lib)
  BY <1>2, TopObjectsInLibrary
<1>7. bottom \in Seq(Objects) /\ IsInjective(bottom) /\ Range(bottom) \subseteq Range(lib)
  BY <1>2, <1>6, SelectionFacts
<1> DEFINE rest == Without(lib, Range(bottom))
           s == bottom \o rest
<1>8. rest \in Seq(Objects) /\ IsInjective(rest) /\ Range(rest) = Range(lib) \ Range(bottom)
  BY <1>2, WithoutFacts
<1>9. zones' = [zones EXCEPT ![Library(p)] = s]
  BY <1>3
<1> HIDE DEF rest
<1>10. s \in Seq(Objects) /\ IsInjective(s) /\ Range(s) = In(zones, Library(p))
  <2>1. Range(bottom) \cap Range(rest) = {} /\ Range(bottom) \cup Range(rest) = Range(lib)
    BY <1>7, <1>8
  <2> QED BY <1>5, <1>7, <1>8, <2>1, ConcatFacts
<1> HIDE DEF s
<1>11. InPlace(zones') /\ SamePlaces
  <2>1. InPlace(zones') /\ \A z \in ZoneIds : In(zones', z) = In(zones, z)
    BY <1>1, <1>9, <1>10, Reordered
  <2> QED BY <2>1 DEF SamePlaces
<1> QED BY <1>4, <1>11, MoveWithinZones

LEMMA PutOnTopMoves ==
  ASSUME InPlace(zones), NEW o \in Objects, PutObjectOnTopOfLibrary(o), begun' = begun
  PROVE  MoveStep
<1> DEFINE z == Library(Owner[o])
           rest == Without(zones[z], {o})
           s == Append(rest, o)
<1>1. z \in ZoneIds
  BY ObjectsAssumption, SeatsAndZones
<1>2. /\ zones \in [ZoneIds -> Seq(Objects)] /\ zones[z] \in Seq(Objects) /\ IsInjective(zones[z])
  BY <1>1 DEF InPlace
<1>3. zones' = [zones EXCEPT ![z] = s] /\ o \in In(zones, z) /\ known' = known /\ events' = {}
  BY <1>1, <1>2 DEF PutObjectOnTopOfLibrary, In
<1>4. rest \in Seq(Objects) /\ IsInjective(rest) /\ Range(rest) = In(zones, z) \ {o}
  BY <1>2, WithoutFacts DEF In
<1> HIDE DEF rest, z
<1>5. o \notin Range(rest) /\ Range(rest) \cup {o} = In(zones, z)
  BY <1>3, <1>4
<1>6. s \in Seq(Objects) /\ IsInjective(s) /\ Range(s) = In(zones, z)
  <2>1. /\ s \in Seq(Objects) /\ Range(s) = Range(rest) \cup {o}
        /\ IsInjective(rest) /\ o \notin Range(rest) => IsInjective(s)
    BY <1>4, AppendFacts
  <2> QED BY <1>4, <1>5, <2>1
<1> HIDE DEF s
<1>7. InPlace(zones') /\ SamePlaces
  <2>1. InPlace(zones') /\ \A w \in ZoneIds : In(zones', w) = In(zones, w)
    BY <1>1, <1>3, <1>6, Reordered
  <2> QED BY <2>1 DEF SamePlaces
<1> QED BY <1>3, <1>7, MoveWithinZones

LEMMA CreateTokenMoves ==
  ASSUME InPlace(zones), NEW t \in Tokens, CreateToken(t)
  PROVE  TokenStep
<1> DEFINE z == Battlefield
           s == Append(zones[z], t)
<1>1. z \in ZoneIds /\ t \in Objects
  BY SeatsAndZones DEF Objects
<1>2. /\ zones \in [ZoneIds -> Seq(Objects)] /\ zones[z] \in Seq(Objects) /\ IsInjective(zones[z])
  BY <1>1 DEF InPlace
<1>3. /\ zones' = [zones EXCEPT ![z] = s] /\ known' = known /\ events' = {} /\ begun /\ begun'
  BY <1>2 DEF CreateToken, Play, Playing, openingVars
<1>4. \A w \in ZoneIds : t \notin In(zones, w)
  BY DEF CreateToken, Exists, In
<1> HIDE DEF z
<1>5. s \in Seq(Objects) /\ IsInjective(s) /\ Range(s) = In(zones, z) \cup {t}
  BY <1>1, <1>2, <1>4, AppendFacts DEF In
<1> HIDE DEF s
<1>6. /\ zones' \in [ZoneIds -> Seq(Objects)] /\ zones'[z] = s
      /\ \A w \in ZoneIds : w # z => zones'[w] = zones[w]
  BY <1>1, <1>2, <1>3, <1>5
<1>7. \A w \in ZoneIds : In(zones', w) = IF w = z THEN In(zones, w) \cup {t} ELSE In(zones, w)
  BY <1>5, <1>6 DEF In
<1>8. Apart(zones')
  BY <1>4, <1>7 DEF Apart, InPlace
<1>9. \A w \in ZoneIds : IsInjective(zones'[w])
  BY <1>5, <1>6 DEF InPlace
<1> QED BY <1>3, <1>6, <1>7, <1>8, <1>9 DEF InPlace, TokenStep, z

LEMMA TokensCeaseMoves ==
  ASSUME InPlace(zones), TokensCease
  PROVE  MoveStep
<1> DEFINE d == [x \in ZoneIds \X Objects |-> IF x[2] \in Stray THEN Ceased ELSE x[1]]
<1>1. PICK order \in Orders(Stray) :
        zones' = [z \in ZoneIds |-> IF z = Ceased THEN zones[z] \o order ELSE Without(zones[z], Stray)]
  BY DEF TokensCease
<1>2. UNCHANGED <<known, begun>> /\ events' = {} /\ begun
  BY DEF TokensCease, Playing, openingVars
<1>3. Stray \subseteq Objects /\ Ceased \in ZoneIds
  BY SeatsAndZones DEF Stray, Objects
<1>4. order \in Seq(Objects) /\ IsInjective(order) /\ Range(order) = Stray
  BY <1>3, OrderFacts
<1>5. \A o \in Stray : \E w \in ZoneIds : o \in In(zones, w)
  BY Located DEF Stray
<1>6. Stray \cap In(zones, Ceased) = {}
  <2> SUFFICES ASSUME NEW o \in Stray, o \in In(zones, Ceased)
               PROVE  FALSE
    OBVIOUS
  <2>1. ZoneOf(o) \in ZoneIds /\ o \in In(zones, ZoneOf(o)) /\ ZoneOf(o) # Ceased
    BY Located DEF Stray
  <2> QED BY <1>3, <2>1 DEF InPlace, Apart
<1>7. \A z \in ZoneIds : zones[z] \in Seq(Objects) /\ IsInjective(zones[z])
  BY DEF InPlace
<1>8. ASSUME NEW z \in ZoneIds
      PROVE  /\ zones'[z] \in Seq(Objects) /\ IsInjective(zones'[z])
             /\ In(zones', z) = IF z = Ceased THEN In(zones, z) \cup Stray ELSE In(zones, z) \ Stray
  <2>1. CASE z = Ceased
    <3>1. zones'[z] = zones[z] \o order
      BY <1>1, <2>1
    <3>2. Range(zones[z]) \cap Range(order) = {}
      BY <1>4, <1>6, <2>1 DEF In
    <3> QED BY <1>4, <1>7, <2>1, <3>1, <3>2, ConcatFacts DEF In
  <2>2. CASE z # Ceased
    <3>1. zones'[z] = Without(zones[z], Stray)
      BY <1>1, <2>2
    <3> QED BY <1>7, <2>2, <3>1, WithoutFacts DEF In
  <2> QED BY <2>1, <2>2
<1>9. zones' \in [ZoneIds -> Seq(Objects)]
  <2>1. zones' = [z \in ZoneIds |-> zones'[z]]
    BY <1>1
  <2> QED BY <1>8, <2>1
<1>10. d \in Ways
  BY <1>3 DEF Ways
<1>11. \A w \in ZoneIds, o \in Objects : d[<<w, o>>] = IF o \in Stray THEN Ceased ELSE w
  OBVIOUS
<1> HIDE DEF d
<1>12. Relocated(zones, zones', d)
  <2>1. ASSUME NEW z \in ZoneIds, NEW o \in Objects, NEW w \in ZoneIds, o \in In(zones, w),
               d[<<w, o>>] = z
        PROVE  o \in In(zones', z)
    <3>1. CASE o \in Stray
      BY <1>3, <1>8, <1>11, <2>1, <3>1
    <3>2. CASE o \notin Stray
      BY <1>8, <1>11, <2>1, <3>2
    <3> QED BY <3>1, <3>2
  <2>2. ASSUME NEW z \in ZoneIds, NEW o \in Objects, o \in In(zones', z)
        PROVE  \E w \in ZoneIds : o \in In(zones, w) /\ d[<<w, o>>] = z
    <3>1. CASE o \in Stray
      <4>1. z = Ceased
        BY <1>8, <2>2, <3>1
      <4> QED BY <1>5, <1>11, <3>1, <4>1
    <3>2. CASE o \notin Stray
      <4>1. o \in In(zones, z) /\ d[<<z, o>>] = z
        BY <1>8, <1>11, <2>2, <3>2
      <4> QED BY <4>1
    <3> QED BY <3>1, <3>2
  <2> QED BY <2>1, <2>2 DEF Relocated
<1>13. InPlace(zones')
  <2>1. Apart(zones)
    BY DEF InPlace
  <2> QED BY <1>8, <1>9, <1>10, <1>12, <2>1, RelocatedApart DEF InPlace
<1>14. Learned(d) = {}
  <2> SUFFICES ASSUME NEW k \in Players \X Objects, NEW w \in ZoneIds, d[<<w, k[2]>>] # w,
                      k[1] \in Learners(w, d[<<w, k[2]>>])
               PROVE  FALSE
    BY DEF Learned
  <2>1. d[<<w, k[2]>>] = Ceased
    BY <1>11
  <2>2. Learners(w, Ceased) = {}
    BY DEF Learners, Ceased, HidesIdentity
  <2> QED BY <2>1, <2>2
<1> QED BY <1>2, <1>10, <1>12, <1>13, <1>14 DEF MoveStep

LEMMA ContinueSearchMoves ==
  ASSUME InPlace(zones), Searching, ContinueSearch
  PROVE  MoveStep \/ ShuffleStep \/ RevealStep
<1>1. begun /\ begun' = begun /\ found \in Objects /\ Exists(found)
  BY DEF ContinueSearch, Searching, openingVars
<1>2. CASE RevealObjects(found)
  BY <1>1, <1>2 DEF RevealObjects, RevealStep, Remember
<1>3. CASE ShuffledLibrary(Owner[found])
  BY <1>1, <1>3, ObjectsAssumption, ShuffledKeeps
<1>4. CASE PutObjectOnTopOfLibrary(found)
  BY <1>1, <1>4, PutOnTopMoves
<1>5. ASSUME NEW kind \in {"Hand", "Battlefield"}, MoveTo(found, ZoneFor(kind, found)), events' = {}
      PROVE  MoveStep
  <2>1. ZoneFor(kind, found) \in ZoneIds
    BY <1>1, ZoneForType DEF OwnedKinds, SharedKinds
  <2> QED BY <1>1, <1>5, <2>1, MoveToMoves
<1> QED BY <1>2, <1>3, <1>4, <1>5 DEF ContinueSearch

LEMMA NextIsShaped ==
  ASSUME Placed, [Next]_vars
  PROVE  Shaped
<1> USE DEF Placed
<1>1. CASE DecideTurnOrder \/ StartTurn \/ Rest \/ UNCHANGED vars
  BY <1>1, IdleMoves DEF Shaped
<1>2. CASE DrawOpeningHands
  BY <1>2, DrawOpeningHandsMoves DEF Shaped
<1>3. ASSUME NEW p \in Players, TakeMulligan(p) PROVE Shaped
  BY <1>3, TakeMulliganMoves DEF Shaped
<1>4. ASSUME NEW p \in Players, KeepOpeningHand(p) PROVE Shaped
  BY <1>4, KeepOpeningHandMoves DEF Shaped
<1>5. ASSUME NEW o \in Objects, NEW kind \in Destinations, MoveObject(o, kind) PROVE Shaped
  BY <1>5, MoveObjectMoves DEF Shaped
<1>6. ASSUME NEW p \in Players, DrawCards(p) \/ DiscardToMaxHandSize(p) PROVE Shaped
  BY <1>6, DrawCardsMoves, DiscardMoves DEF Shaped
<1>7. ASSUME NEW p \in Players, ShuffleLibrary(p) PROVE Shaped
  BY <1>7, ShuffledKeeps DEF Shaped, ShuffleLibrary, Play, Playing, openingVars
<1>8. ASSUME NEW p \in Players, NEW count \in 1 .. 2, Scry(p, count) \/ Surveil(p, count) PROVE Shaped
  BY <1>8, ScryMoves, SurveilMoves DEF Shaped
<1>9. ASSUME NEW t \in Tokens, CreateToken(t) PROVE Shaped
  BY <1>9, CreateTokenMoves DEF Shaped
<1>10. CASE TokensCease
  BY <1>10, TokensCeaseMoves DEF Shaped
<1>11. ASSUME NEW p \in Players, SearchLibrary(p) PROVE Shaped
  BY <1>11, IdleMoves DEF Shaped
<1>12. CASE ContinueSearch
  BY <1>12, ContinueSearchMoves DEF Shaped
<1> QED BY <1>1, <1>2, <1>3, <1>4, <1>5, <1>6, <1>7, <1>8, <1>9, <1>10, <1>11, <1>12
        DEF Next, Opening, InPlay

----------------------------------------------------------------------------
(* Every object stays in one place *)

LEMMA ExistsIn ==
  ASSUME NEW o
  PROVE  /\ Exists(o) <=> \E z \in ZoneIds : o \in In(zones, z)
         /\ Exists(o)' <=> \E z \in ZoneIds : o \in In(zones', z)
BY DEF Exists, In

LEMMA ShapedKeepsPlaces ==
  ASSUME InPlace(zones), Shaped
  PROVE  InPlace(zones') /\ \A o \in Objects : Exists(o) => Exists(o)'
<1>1. CASE MoveStep
  <2>1. PICK d \in Ways : InPlace(zones') /\ Relocated(zones, zones', d)
    BY <1>1 DEF MoveStep
  <2>2. ASSUME NEW o \in Objects, NEW w \in ZoneIds, o \in In(zones, w)
        PROVE  \E z \in ZoneIds : o \in In(zones', z)
    <3>1. d[<<w, o>>] \in ZoneIds
      BY DEF Ways
    <3> QED BY <2>1, <2>2, <3>1 DEF Relocated
  <2> QED BY <2>1, <2>2, ExistsIn
<1>2. CASE ShuffleStep
  BY <1>2, ExistsIn DEF ShuffleStep, SamePlaces
<1>3. CASE MulliganStep
  <2>1. PICK p \in Players :
          /\ InPlace(zones')
          /\ In(zones', Hand(p)) \cup In(zones', Library(p)) = In(zones, Hand(p)) \cup In(zones, Library(p))
          /\ \A z \in ZoneIds : z # Hand(p) /\ z # Library(p) => In(zones', z) = In(zones, z)
    BY <1>3 DEF MulliganStep
  <2>2. Hand(p) \in ZoneIds /\ Library(p) \in ZoneIds
    BY SeatsAndZones
  <2>3. ASSUME NEW o, NEW w \in ZoneIds, o \in In(zones, w)
        PROVE  \E z \in ZoneIds : o \in In(zones', z)
    <3>1. CASE w = Hand(p) \/ w = Library(p)
      <4>1. o \in In(zones', Hand(p)) \/ o \in In(zones', Library(p))
        BY <2>1, <2>3, <3>1
      <4> QED BY <2>2, <4>1
    <3>2. CASE w # Hand(p) /\ w # Library(p)
      BY <2>1, <2>3, <3>2
    <3> QED BY <3>1, <3>2
  <2> QED BY <2>1, <2>3, ExistsIn
<1>4. CASE RevealStep \/ IdleStep
  <2>1. zones' = zones
    BY <1>4 DEF RevealStep, IdleStep
  <2> QED BY <2>1, ExistsIn
<1>5. CASE TokenStep
  <2>1. InPlace(zones') /\ \A z \in ZoneIds : In(zones, z) \subseteq In(zones', z)
    BY <1>5 DEF TokenStep
  <2> QED BY <2>1, ExistsIn
<1> QED BY <1>1, <1>2, <1>3, <1>4, <1>5 DEF Shaped

LEMMA PlacedInit ==
  ASSUME Init
  PROVE  Placed
<1>1. PICK order \in [Players -> UNION {Orders(Deck(p)) : p \in Players}] :
        /\ \A p \in Players : order[p] \in Orders(Deck(p))
        /\ zones = [z \in ZoneIds |-> IF z[1] = "Library" THEN order[z[2]] ELSE <<>>]
  BY DEF Init
<1>2. \A p \in Players : Deck(p) \subseteq Objects
  BY DEF Deck, Objects
<1>3. \A p \in Players : order[p] \in Seq(Objects) /\ IsInjective(order[p]) /\ Range(order[p]) = Deck(p)
  BY <1>1, <1>2, OrderFacts
<1>4. ASSUME NEW z \in ZoneIds
      PROVE  /\ zones[z] \in Seq(Objects) /\ IsInjective(zones[z])
             /\ In(zones, z) = IF z[1] = "Library" THEN Deck(z[2]) ELSE {}
  <2>1. CASE z[1] = "Library"
    <3>1. z[2] \in Players /\ zones[z] = order[z[2]]
      BY <1>1, <2>1 DEF ZoneIds, SharedKinds
    <3> QED BY <1>3, <2>1, <3>1 DEF In
  <2>2. CASE z[1] # "Library"
    <3>1. zones[z] = <<>>
      BY <1>1, <2>2
    <3>2. <<>> \in Seq(Objects) /\ IsInjective(<<>>)
      BY DEF IsInjective
    <3>3. Range(<<>>) = {}
      BY DEF Range
    <3> QED BY <2>2, <3>1, <3>2, <3>3 DEF In
  <2> QED BY <2>1, <2>2
<1>5. zones \in [ZoneIds -> Seq(Objects)]
  <2>1. zones = [z \in ZoneIds |-> zones[z]]
    BY <1>1
  <2> QED BY <1>4, <2>1
<1>6. Apart(zones)
  <2> SUFFICES ASSUME NEW z \in ZoneIds, NEW w \in ZoneIds, NEW o \in In(zones, z), o \in In(zones, w)
               PROVE  z = w
    BY DEF Apart
  <2>1. /\ z[1] = "Library" /\ Owner[o] = z[2]
        /\ w[1] = "Library" /\ Owner[o] = w[2]
    BY <1>4 DEF Deck
  <2>2. z = <<z[1], z[2]>> /\ w = <<w[1], w[2]>>
    BY DEF ZoneIds
  <2> QED BY <2>1, <2>2
<1>7. ASSUME NEW c \in Cards
      PROVE  Exists(c)
  <2>1. Owner[c] \in Players /\ c \in Deck(Owner[c])
    BY ObjectsAssumption DEF Deck, Objects
  <2>2. /\ Library(Owner[c]) \in ZoneIds
        /\ Library(Owner[c])[1] = "Library" /\ Library(Owner[c])[2] = Owner[c]
    BY <2>1, SeatsAndZones DEF Library
  <2> QED BY <1>4, <2>1, <2>2, ExistsIn
<1>8. OpeningOver /\ Searching
  BY DEF Init, OpeningOver, Searching
<1> QED BY <1>4, <1>5, <1>6, <1>7, <1>8 DEF Placed, InPlace

LEMMA PlacedNext ==
  ASSUME Placed, [Next]_vars
  PROVE  Placed'
<1>1. Shaped
  BY NextIsShaped
<1>2. InPlace(zones') /\ \A o \in Objects : Exists(o) => Exists(o)'
  BY <1>1, ShapedKeepsPlaces DEF Placed
<1>3. \A c \in Cards : Exists(c)'
  BY <1>2 DEF Placed, Objects
<1>4. OpeningOver'
  <2>1. CASE UNCHANGED <<kept, begun>>
    BY <2>1 DEF Placed, OpeningOver
  <2>2. CASE \E p \in Players : KeepOpeningHand(p)
    <3>1. PICK p \in Players : p \notin kept /\ kept' = kept \cup {p} /\ begun' = begun
      BY <2>2 DEF KeepOpeningHand, Deciding
    <3> QED BY <3>1 DEF Placed, OpeningOver
  <2>3. CASE StartTurn
    BY <2>3 DEF Placed, OpeningOver, StartTurn, AllKept
  <2>4. \/ UNCHANGED <<kept, begun>> \/ StartTurn \/ \E p \in Players : KeepOpeningHand(p)
    BY DEF Next, Opening, InPlay, DecideTurnOrder, DrawOpeningHands, TakeMulligan, MoveObject,
           DrawCards, ShuffleLibrary, DiscardToMaxHandSize, Scry, Surveil, CreateToken,
           TokensCease, SearchLibrary, ContinueSearch, Rest, Play, openingVars, vars
  <2> QED BY <2>1, <2>2, <2>3, <2>4
<1>5. Searching'
  <2>1. CASE UNCHANGED <<found, todo>> /\ (begun => begun')
    BY <1>2, <2>1 DEF Placed, Searching
  <2>2. ASSUME NEW p \in Players, SearchLibrary(p)
        PROVE  Searching'
    <3>1. found' \in In(zones, Library(p)) /\ zones' = zones /\ begun'
      BY <2>2 DEF SearchLibrary, Playing, In, openingVars
    <3>2. Library(p) \in ZoneIds
      BY SeatsAndZones
    <3>3. found' \in Objects
      BY <3>1, <3>2, InObjects DEF Placed, InPlace
    <3>4. Exists(found)'
      BY <3>1, <3>2 DEF Exists, In
    <3> QED BY <3>1, <3>3, <3>4 DEF Searching
  <2>3. CASE ContinueSearch
    <3>1. /\ todo # <<>> /\ begun' = begun
          /\ todo' # <<>> => found' = found
      BY <2>3 DEF ContinueSearch, openingVars
    <3>2. begun /\ found \in Objects /\ Exists(found)
      BY <3>1 DEF Placed, Searching
    <3>3. Exists(found) => \E z \in ZoneIds : found \in In(zones', z)
      BY <1>2, <3>2, ExistsIn
    <3>4. todo' # <<>> => Exists(found)'
      BY <3>1, <3>2, <3>3 DEF Exists, In
    <3> QED BY <3>1, <3>2, <3>4 DEF Searching
  <2>4. \/ UNCHANGED <<found, todo>> /\ (begun => begun')
        \/ ContinueSearch \/ \E p \in Players : SearchLibrary(p)
    BY DEF Next, Opening, InPlay, DecideTurnOrder, DrawOpeningHands, TakeMulligan, KeepOpeningHand,
           StartTurn, MoveObject, DrawCards, ShuffleLibrary, DiscardToMaxHandSize, Scry, Surveil,
           CreateToken, TokensCease, Rest, Play, openingVars, searchVars, vars
  <2> QED BY <2>1, <2>2, <2>3, <2>4
<1> QED BY <1>2, <1>3, <1>4, <1>5 DEF Placed

\* A zone holds no more objects than there are.
LEMMA SlotsInReach ==
  ASSUME InPlace(zones), NEW z \in ZoneIds
  PROVE  DOMAIN zones[z] \subseteq 1 .. Cardinality(Objects)
<1>1. zones[z] \in Seq(Objects) /\ IsInjective(zones[z])
  BY DEF InPlace
<1> DEFINE s == zones[z]
<1>2. DOMAIN s = 1 .. Len(s) /\ Len(s) \in Nat
  BY <1>1
<1> HIDE DEF s
<1>3. s \in Injection(1 .. Len(s), Objects)
  <2>1. s \in [1 .. Len(s) -> Objects]
    BY <1>1 DEF s
  <2> QED BY <1>1, <2>1 DEF Injection, s
<1>4. Cardinality(1 .. Len(s)) <= Cardinality(Objects)
  BY <1>3, ObjectsAssumption, FS_Injection
<1>5. Cardinality(1 .. Len(s)) = Len(s)
  <2>1. 1 \in Int /\ Len(s) \in Int
    BY <1>2
  <2>2. Cardinality(1 .. Len(s)) = IF 1 > Len(s) THEN 0 ELSE Len(s) - 1 + 1
    BY <2>1, FS_Interval
  <2> QED BY <1>2, <2>2
<1>6. Cardinality(Objects) \in Nat
  BY ObjectsAssumption, FS_CardinalityType
<1>7. 1 .. Len(s) \subseteq 1 .. Cardinality(Objects)
  BY <1>2, <1>4, <1>5, <1>6
<1> QED BY <1>2, <1>7 DEF s

LEMMA OneSlot ==
  ASSUME InPlace(zones), NEW o
  PROVE  /\ Slots(o) = {} \/ \E s : Slots(o) = {s}
         /\ Exists(o) => Slots(o) # {}
<1>1. \A z \in ZoneIds : DOMAIN zones[z] \subseteq 1 .. Cardinality(Objects)
  BY SlotsInReach
<1>2. ASSUME NEW s \in Slots(o), NEW r \in Slots(o)
      PROVE  s = r
  <2>1. /\ s[1] \in ZoneIds /\ s[2] \in DOMAIN zones[s[1]] /\ zones[s[1]][s[2]] = o /\ s = <<s[1], s[2]>>
        /\ r[1] \in ZoneIds /\ r[2] \in DOMAIN zones[r[1]] /\ zones[r[1]][r[2]] = o /\ r = <<r[1], r[2]>>
    BY DEF Slots
  <2>2. o \in In(zones, s[1]) /\ o \in In(zones, r[1])
    BY <2>1 DEF In, Range
  <2>3. s[1] = r[1]
    BY <2>1, <2>2 DEF InPlace, Apart
  <2>4. s[2] = r[2]
    BY <2>1, <2>3 DEF InPlace, IsInjective
  <2> QED BY <2>1, <2>3, <2>4
<1>3. ASSUME Exists(o)
      PROVE  Slots(o) # {}
  <2>1. PICK z \in ZoneIds : \E i \in DOMAIN zones[z] : zones[z][i] = o
    BY <1>3 DEF Exists, Range
  <2>2. PICK i \in DOMAIN zones[z] : zones[z][i] = o
    BY <2>1
  <2>3. i \in 1 .. Cardinality(Objects)
    BY <1>1, <2>2
  <2>4. <<z, i>> \in Slots(o)
    BY <2>2, <2>3 DEF Slots
  <2> QED BY <2>4
<1> QED BY <1>2, <1>3

LEMMA PlacedOnce ==
  ASSUME Placed
  PROVE  EveryObjectInOnePlace
<1>1. ASSUME NEW o
      PROVE  Cardinality(Slots(o)) <= 1 /\ (Exists(o) => Cardinality(Slots(o)) = 1)
  <2>1. (Slots(o) = {} \/ \E s : Slots(o) = {s}) /\ (Exists(o) => Slots(o) # {})
    BY OneSlot DEF Placed
  <2>2. CASE Slots(o) = {}
    <3>1. Cardinality(Slots(o)) = 0
      BY <2>2, FS_EmptySet
    <3> QED BY <2>1, <2>2, <3>1
  <2>3. ASSUME NEW s, Slots(o) = {s}
        PROVE  Cardinality(Slots(o)) = 1
    BY <2>3, FS_Singleton
  <2>4. CASE \E s : Slots(o) = {s}
    <3>1. Cardinality(Slots(o)) = 1
      BY <2>3, <2>4
    <3> QED BY <3>1
  <2> QED BY <2>1, <2>2, <2>4
<1>2. \A t \in Tokens : Cardinality(Slots(t)) <= 1
  BY <1>1
<1>3. \A c \in Cards : Cardinality(Slots(c)) = 1
  BY <1>1 DEF Placed
<1> QED BY <1>2, <1>3 DEF EveryObjectInOnePlace

LEMMA PlacedAlways == SeenSpec => []Placed
<1>1. SeenInit => Placed
  BY PlacedInit DEF SeenInit
<1>2. Placed /\ [SeenNext]_<<vars, seen, shown>> => Placed'
  BY PlacedNext DEF SeenNext
<1> QED BY <1>1, <1>2, PTL DEF SeenSpec

\* Nothing is lost and nothing is doubled, whatever is drawn, put back,
\* mulliganed, searched for, shuffled, moved or removed, for any decks.
THEOREM ObjectsAreConserved == SeenSpec => []EveryObjectInOnePlace
BY PlacedAlways, PlacedOnce, PTL

----------------------------------------------------------------------------
(* What views show is what was seen *)

\* The events of the last action have been told to everybody.
Told ==
  /\ \A o \in Objects : <<"ObjectRevealed", o>> \in events => Players \X {o} \subseteq known
  /\ \A q \in Players : <<"ZoneShuffled", q>> \in events =>
       \A k \in known : k[2] \notin In(zones, Library(q))

\* What the views are made of has been seen.
Earned == InSight \subseteq seen /\ known \subseteq seen

\* The lower bound of the views lies below the upper one.
Bounded == seen \subseteq shown

\* What the players can see of the zones zs.
Visible(zs) ==
  {k \in Players \X Objects : \E z \in ZoneIds : /\ k[2] \in In(zs, z)
                                                 /\ HidesIdentity(z) => z = Hand(k[1])}

LEMMA InSightIsVisible ==
  ASSUME InPlace(zones), InPlace(zones')
  PROVE  InSight = Visible(zones) /\ InSight' = Visible(zones')
BY DEF InSight, Visible, HidesIdentity, In

\* Whoever learns of a move has seen the object where it was.
LEMMA LearnedWasSeen ==
  ASSUME NEW d \in Ways
  PROVE  Learned(d) \subseteq Visible(zones)
<1> SUFFICES ASSUME NEW k \in Learned(d)
             PROVE  k \in Visible(zones)
  OBVIOUS
<1>1. k \in Players \X Objects
  BY DEF Learned
<1>2. PICK w \in ZoneIds : k[2] \in In(zones, w) /\ k[1] \in Learners(w, d[<<w, k[2]>>])
  BY DEF Learned
<1>3. HidesIdentity(w) => w = Hand(k[1])
  BY <1>2 DEF Learners, HidesIdentity, Hand, ZoneIds, SharedKinds
<1> QED BY <1>1, <1>2, <1>3 DEF Visible

\* What the events of a step hide and show.
LEMMA EventsOfAStep ==
  /\ events' = {} => Mixed = {} /\ ShownNow' = {}
  /\ \A p \in Players : events' = {<<"ZoneShuffled", p>>} =>
       Mixed = In(zones, Library(p)) \cup In(zones', Library(p)) /\ ShownNow' = {}
  /\ \A o \in Objects : events' = {<<"ObjectRevealed", o>>} => Mixed = {} /\ ShownNow' = {o}
<1>1. ASSUME events' = {}
      PROVE  Mixed = {} /\ ShownNow' = {}
  BY <1>1 DEF Mixed, ShownNow
<1>2. ASSUME NEW p \in Players, events' = {<<"ZoneShuffled", p>>}
      PROVE  Mixed = In(zones, Library(p)) \cup In(zones', Library(p)) /\ ShownNow' = {}
  <2>1. {q \in Players : <<"ZoneShuffled", q>> \in events'} = {p}
    BY <1>2
  <2>2. Mixed = In(zones, Library(p)) \cup In(zones', Library(p))
    BY <2>1 DEF Mixed, In
  <2>3. ShownNow' = {}
    BY <1>2 DEF ShownNow
  <2> QED BY <2>2, <2>3
<1>3. ASSUME NEW o \in Objects, events' = {<<"ObjectRevealed", o>>}
      PROVE  Mixed = {} /\ ShownNow' = {o}
  <2>1. {q \in Players : <<"ZoneShuffled", q>> \in events'} = {}
    BY <1>3
  <2>2. Mixed = {}
    BY <2>1 DEF Mixed
  <2>3. ShownNow' = {o}
    BY <1>3 DEF ShownNow
  <2> QED BY <2>2, <2>3
<1> QED BY <1>1, <1>2, <1>3

LEMMA ToldNext ==
  ASSUME InPlace(zones), Told, Shaped
  PROVE  Told'
<1>1. CASE MoveStep \/ TokenStep
  <2>1. events' = {}
    BY <1>1 DEF MoveStep, TokenStep
  <2> QED BY <2>1 DEF Told
<1>2. CASE ShuffleStep
  <2>1. PICK p \in Players : /\ SamePlaces /\ known' = Forget(In(zones, Library(p)))
                             /\ events' = {<<"ZoneShuffled", p>>}
    BY <1>2 DEF ShuffleStep
  <2>2. \A q \in Players : <<"ZoneShuffled", q>> \in events' => q = p
    BY <2>1
  <2>3. \A o \in Objects : <<"ObjectRevealed", o>> \notin events'
    BY <2>1
  <2>4. \A k \in known' : k[2] \notin In(zones', Library(p))
    BY <2>1, SeatsAndZones DEF Forget, SamePlaces
  <2> QED BY <2>2, <2>3, <2>4 DEF Told, In
<1>3. CASE MulliganStep
  <2>1. PICK p \in Players :
          /\ In(zones', Hand(p)) \cup In(zones', Library(p)) = In(zones, Hand(p)) \cup In(zones, Library(p))
          /\ known' = {k \in known : k[2] \notin In(zones, Hand(p)) \cup In(zones, Library(p))}
          /\ events' = {<<"ZoneShuffled", p>>}
    BY <1>3 DEF MulliganStep
  <2>2. \A q \in Players : <<"ZoneShuffled", q>> \in events' => q = p
    BY <2>1
  <2>3. \A o \in Objects : <<"ObjectRevealed", o>> \notin events'
    BY <2>1
  <2>4. \A k \in known' : k[2] \notin In(zones', Library(p))
    BY <2>1
  <2> QED BY <2>2, <2>3, <2>4 DEF Told, In
<1>4. CASE RevealStep
  <2>1. PICK o \in Objects : /\ known' = known \cup (Players \X {o})
                             /\ events' = {<<"ObjectRevealed", o>>}
    BY <1>4 DEF RevealStep
  <2>2. \A q \in Objects : <<"ObjectRevealed", q>> \in events' => q = o
    BY <2>1
  <2>3. \A q \in Players : <<"ZoneShuffled", q>> \notin events'
    BY <2>1
  <2> QED BY <2>1, <2>2, <2>3 DEF Told
<1>5. CASE IdleStep
  BY <1>5 DEF IdleStep, Told, In
<1> QED BY <1>1, <1>2, <1>3, <1>4, <1>5 DEF Shaped

LEMMA EarnedNext ==
  ASSUME InPlace(zones), InPlace(zones'), Told, Earned, Shaped,
         seen' = {k \in seen : k[2] \notin Mixed} \cup InSight' \cup (Players \X ShownNow')
  PROVE  Earned'
<1>1. InSight' \subseteq seen'
  OBVIOUS
<1>2. CASE MoveStep
  <2>1. PICK d \in Ways : known' = known \cup Learned(d) /\ events' = {}
    BY <1>2 DEF MoveStep
  <2>2. Learned(d) \subseteq seen
    BY LearnedWasSeen, InSightIsVisible DEF Earned
  <2>3. seen \subseteq seen'
    BY <2>1, EventsOfAStep
  <2> QED BY <1>1, <2>1, <2>2, <2>3 DEF Earned
<1>3. CASE ShuffleStep
  <2>1. PICK p \in Players : /\ SamePlaces /\ known' = Forget(In(zones, Library(p)))
                             /\ events' = {<<"ZoneShuffled", p>>}
    BY <1>3 DEF ShuffleStep
  <2>2. Mixed = In(zones, Library(p))
    BY <2>1, EventsOfAStep, SeatsAndZones DEF SamePlaces
  <2>3. known' \subseteq seen'
    BY <2>1, <2>2 DEF Earned, Forget
  <2> QED BY <1>1, <2>3 DEF Earned
<1>4. CASE MulliganStep
  <2>1. PICK p \in Players :
          /\ In(zones', Hand(p)) \cup In(zones', Library(p)) = In(zones, Hand(p)) \cup In(zones, Library(p))
          /\ known' = {k \in known : k[2] \notin In(zones, Hand(p)) \cup In(zones, Library(p))}
          /\ events' = {<<"ZoneShuffled", p>>}
    BY <1>4 DEF MulliganStep
  <2>2. Mixed \subseteq In(zones, Hand(p)) \cup In(zones, Library(p))
    BY <2>1, EventsOfAStep
  <2>3. known' \subseteq seen'
    BY <2>1, <2>2 DEF Earned
  <2> QED BY <1>1, <2>3 DEF Earned
<1>5. CASE RevealStep
  <2>1. PICK o \in Objects : /\ known' = known \cup (Players \X {o})
                             /\ events' = {<<"ObjectRevealed", o>>}
    BY <1>5 DEF RevealStep
  <2>2. Mixed = {} /\ ShownNow' = {o}
    BY <2>1, EventsOfAStep
  <2>3. known' \subseteq seen'
    BY <2>1, <2>2 DEF Earned
  <2> QED BY <1>1, <2>3 DEF Earned
<1>6. CASE TokenStep
  <2>1. known' = known /\ Mixed = {}
    BY <1>6, EventsOfAStep DEF TokenStep
  <2> QED BY <1>1, <2>1 DEF Earned
<1>7. CASE IdleStep
  <2>1. known' = known /\ zones' = zones /\ events' \in {{}, events}
    BY <1>7 DEF IdleStep
  <2>2. ASSUME NEW k \in known
        PROVE  k[2] \notin Mixed
    BY <2>1 DEF Mixed, Told, In
  <2> QED BY <1>1, <2>1, <2>2 DEF Earned
<1> QED BY <1>2, <1>3, <1>4, <1>5, <1>6, <1>7 DEF Shaped

\* Before the first turn objects are in libraries and hands, and who has seen
\* one has it in their own.
OpeningSight ==
  ~begun => /\ \A k \in seen : k[2] \in In(zones, Hand(k[1])) \cup In(zones, Library(k[1]))
            /\ \A z \in ZoneIds : ~HidesIdentity(z) => In(zones, z) = {}

\* What k[1] has seen of k[2] is not lost by the zones zs and the knowledge kn.
Followed(k, zs, kn) ==
  /\ \E z \in ZoneIds : k[2] \in In(zs, z)
  /\ \A z \in ZoneIds : k[2] \in In(zs, z) /\ HidesIdentity(z) => z = Hand(k[1]) \/ k \in kn

Sighted == \A k \in seen : k \in Players \X Objects /\ Followed(k, zones, known)

LEMMA VisibleIsFollowed ==
  ASSUME NEW zs, Apart(zs), NEW k \in Visible(zs), NEW kn
  PROVE  Followed(k, zs, kn)
<1>1. PICK z \in ZoneIds : k[2] \in In(zs, z) /\ (HidesIdentity(z) => z = Hand(k[1]))
  BY DEF Visible
<1>2. \A w \in ZoneIds : k[2] \in In(zs, w) => w = z
  BY <1>1 DEF Apart
<1> QED BY <1>1, <1>2 DEF Followed

LEMMA FollowedOnTheWay ==
  ASSUME NEW k \in Players \X Objects, Followed(k, zones, known), NEW d \in Ways,
         Relocated(zones, zones', d), known' = known \cup Learned(d)
  PROVE  Followed(k, zones', known')
<1>1. PICK w \in ZoneIds : k[2] \in In(zones, w)
  BY DEF Followed
<1>2. d[<<w, k[2]>>] \in ZoneIds
  BY DEF Ways
<1>3. k[2] \in In(zones', d[<<w, k[2]>>])
  BY <1>1, <1>2 DEF Relocated
<1>4. ASSUME NEW z \in ZoneIds, k[2] \in In(zones', z), HidesIdentity(z), z # Hand(k[1])
      PROVE  k \in known'
  <2>1. PICK v \in ZoneIds : k[2] \in In(zones, v) /\ d[<<v, k[2]>>] = z
    BY <1>4 DEF Relocated
  <2>2. CASE HidesIdentity(v) /\ v # Hand(k[1])
    BY <2>1, <2>2 DEF Followed
  <2>3. CASE ~HidesIdentity(v) \/ v = Hand(k[1])
    <3>1. k[1] \in Learners(v, z)
      BY <1>4, <2>3 DEF Learners, Hand, HidesIdentity
    <3>2. v # z
      BY <1>4, <2>3
    <3>3. k \in Learned(d)
      BY <2>1, <3>1, <3>2 DEF Learned
    <3> QED BY <3>3
  <2> QED BY <2>2, <2>3
<1> QED BY <1>2, <1>3, <1>4 DEF Followed

LEMMA FollowedThroughMulligan ==
  ASSUME InPlace(zones), NEW p \in Players, NEW k \in Players \X Objects,
         Followed(k, zones, known), k[2] \notin In(zones, Library(p)), k[2] \notin In(zones', Library(p)),
         k[2] \in In(zones, Hand(k[1])) \cup In(zones, Library(k[1])),
         LET S == In(zones, Hand(p)) \cup In(zones, Library(p)) IN
           /\ In(zones', Hand(p)) \cup In(zones', Library(p)) = S
           /\ \A z \in ZoneIds : z # Hand(p) /\ z # Library(p) => In(zones', z) = In(zones, z)
           /\ known' = {j \in known : j[2] \notin S}
  PROVE  Followed(k, zones', known')
<1>1. Hand(p) \in ZoneIds /\ Library(p) \in ZoneIds /\ k[1] \in Players
  BY SeatsAndZones
<1>2. CASE k[2] \in In(zones, Hand(p))
  <2>1. k[2] \in In(zones', Hand(p))
    BY <1>2
  <2>2. k[1] = p
    <3>1. Hand(k[1]) \in ZoneIds /\ Library(k[1]) \in ZoneIds
      BY <1>1, SeatsAndZones
    <3>2. Hand(k[1]) = Hand(p) \/ Library(k[1]) = Hand(p)
      BY <1>1, <1>2, <3>1 DEF InPlace, Apart
    <3> QED BY <3>2, SeatsAndZones
  <2>3. \A z \in ZoneIds : k[2] \in In(zones', z) => z = Hand(p)
    <3>1. \A z \in ZoneIds : z # Hand(p) => k[2] \notin In(zones, z)
      BY <1>1, <1>2 DEF InPlace, Apart
    <3> QED BY <3>1
  <2> QED BY <1>1, <2>1, <2>2, <2>3 DEF Followed
<1>3. CASE k[2] \notin In(zones, Hand(p))
  <2>1. \A z \in ZoneIds : k[2] \in In(zones', z) <=> k[2] \in In(zones, z)
    <3>1. k[2] \notin In(zones', Hand(p))
      BY <1>3
    <3> QED BY <1>3, <3>1
  <2>2. k \in known => k \in known'
    BY <1>3
  <2> QED BY <2>1, <2>2 DEF Followed
<1> QED BY <1>2, <1>3

LEMMA SightedNext ==
  ASSUME InPlace(zones), InPlace(zones'), Told, Earned, OpeningSight, Sighted, Shaped,
         seen' = {k \in seen : k[2] \notin Mixed} \cup InSight' \cup (Players \X ShownNow')
  PROVE  Sighted'
<1>1. ASSUME NEW k \in InSight'
      PROVE  k \in Players \X Objects /\ Followed(k, zones', known')
  <2>1. k \in Visible(zones')
    BY <1>1, InSightIsVisible
  <2> QED BY <2>1, VisibleIsFollowed DEF InPlace, Visible
<1> SUFFICES ASSUME NEW k \in seen', \/ k \in seen /\ k[2] \notin Mixed
                                     \/ k \in Players \X ShownNow'
             PROVE  k \in Players \X Objects /\ Followed(k, zones', known')
  BY <1>1 DEF Sighted
<1>2. k \in seen => k \in Players \X Objects /\ Followed(k, zones, known)
  BY DEF Sighted
<1>3. CASE MoveStep
  <2>1. PICK d \in Ways : /\ Relocated(zones, zones', d) /\ known' = known \cup Learned(d)
                          /\ events' = {}
    BY <1>3 DEF MoveStep
  <2>2. k \in seen
    BY <2>1, EventsOfAStep
  <2> QED BY <1>2, <2>1, <2>2, FollowedOnTheWay
<1>4. CASE ShuffleStep
  <2>1. PICK p \in Players : /\ SamePlaces /\ known' = Forget(In(zones, Library(p)))
                             /\ events' = {<<"ZoneShuffled", p>>}
    BY <1>4 DEF ShuffleStep
  <2>2. k \in seen /\ k[2] \notin In(zones, Library(p))
    BY <2>1, EventsOfAStep
  <2>3. k \in known => k \in known'
    BY <2>1, <2>2 DEF Forget
  <2> QED BY <1>2, <2>1, <2>2, <2>3 DEF Followed, SamePlaces
<1>5. CASE MulliganStep
  <2>1. PICK p \in Players :
          LET S == In(zones, Hand(p)) \cup In(zones, Library(p)) IN
          /\ In(zones', Hand(p)) \cup In(zones', Library(p)) = S
          /\ \A z \in ZoneIds : z # Hand(p) /\ z # Library(p) => In(zones', z) = In(zones, z)
          /\ known' = {j \in known : j[2] \notin S} /\ events' = {<<"ZoneShuffled", p>>}
          /\ ~begun
    BY <1>5 DEF MulliganStep
  <2>2. k \in seen /\ k[2] \notin In(zones, Library(p)) /\ k[2] \notin In(zones', Library(p))
    BY <2>1, EventsOfAStep
  <2>3. k[2] \in In(zones, Hand(k[1])) \cup In(zones, Library(k[1]))
    BY <2>1, <2>2 DEF OpeningSight
  <2> QED BY <1>2, <2>1, <2>2, <2>3, FollowedThroughMulligan
<1>6. CASE RevealStep
  <2>1. PICK o \in Objects : /\ Exists(o) /\ zones' = zones /\ known' = known \cup (Players \X {o})
                             /\ events' = {<<"ObjectRevealed", o>>}
    BY <1>6 DEF RevealStep
  <2>2. ShownNow' = {o}
    BY <2>1, EventsOfAStep
  <2>3. CASE k \in seen
    BY <1>2, <2>1, <2>3 DEF Followed
  <2>4. CASE k \in Players \X {o}
    <3>1. k \in known' /\ k[2] = o
      BY <2>1, <2>4
    <3>2. \E z \in ZoneIds : o \in In(zones', z)
      BY <2>1, ExistsIn
    <3> QED BY <2>4, <3>1, <3>2 DEF Followed
  <2> QED BY <2>2, <2>3, <2>4
<1>7. CASE TokenStep
  <2>1. PICK t \in Tokens :
          /\ \A z \in ZoneIds : In(zones', z) = IF z = Battlefield THEN In(zones, z) \cup {t} ELSE In(zones, z)
          /\ known' = known /\ events' = {}
    BY <1>7 DEF TokenStep
  <2>2. k \in seen
    BY <2>1, EventsOfAStep
  <2>3. \A z \in ZoneIds : /\ k[2] \in In(zones, z) => k[2] \in In(zones', z)
                           /\ HidesIdentity(z) => In(zones', z) = In(zones, z)
    BY <2>1, SeatsAndZones
  <2> QED BY <1>2, <2>1, <2>2, <2>3 DEF Followed
<1>8. CASE IdleStep
  <2>1. known' = known /\ zones' = zones /\ events' \in {{}, events}
    BY <1>8 DEF IdleStep
  <2>2. ShownNow' \subseteq ShownNow
    BY <2>1 DEF ShownNow
  <2>3. Players \X ShownNow \subseteq known
    BY DEF ShownNow, Told
  <2>4. k \in seen
    BY <2>2, <2>3 DEF Earned
  <2> QED BY <1>2, <2>1, <2>4
<1> QED BY <1>3, <1>4, <1>5, <1>6, <1>7, <1>8 DEF Shaped

LEMMA OpeningSightNext ==
  ASSUME InPlace(zones), InPlace(zones'), Told, Earned, OpeningSight, Sighted, Shaped,
         seen' = {k \in seen : k[2] \notin Mixed} \cup InSight' \cup (Players \X ShownNow')
  PROVE  OpeningSight'
<1> SUFFICES ASSUME ~begun'
             PROVE  /\ \A k \in seen' : k[2] \in In(zones', Hand(k[1])) \cup In(zones', Library(k[1]))
                    /\ \A z \in ZoneIds : ~HidesIdentity(z) => In(zones', z) = {}
  BY DEF OpeningSight, In
<1> DEFINE Home(zs, k) == k[2] \in In(zs, Hand(k[1])) \cup In(zs, Library(k[1]))
<1>1. ~begun /\ (MoveStep \/ MulliganStep \/ IdleStep)
  BY DEF Shaped, MoveStep, ShuffleStep, MulliganStep, RevealStep, TokenStep, IdleStep
<1>2. /\ \A k \in seen : Home(zones, k) /\ k \in Players \X Objects
      /\ \A z \in ZoneIds : ~HidesIdentity(z) => In(zones, z) = {}
  BY <1>1 DEF OpeningSight, Sighted
<1>3. CASE MoveStep
  <2>1. PICK d \in Ways : Relocated(zones, zones', d) /\ events' = {} /\ Homeward(d)
    BY <1>1, <1>3 DEF MoveStep
  <2>2. ASSUME NEW z \in ZoneIds, ~HidesIdentity(z), NEW o \in In(zones', z)
        PROVE  FALSE
    <3>1. o \in Objects
      BY InObjects DEF InPlace
    <3>2. PICK w \in ZoneIds : o \in In(zones, w) /\ d[<<w, o>>] = z
      BY <2>1, <2>2, <3>1 DEF Relocated
    <3>3. w # z
      BY <1>2, <2>2, <3>2
    <3> QED BY <2>1, <2>2, <3>1, <3>2, <3>3, SeatsAndZones DEF Homeward
  <2>3. ASSUME NEW k \in seen
        PROVE  Home(zones', k)
    <3>1. k[1] \in Players /\ k[2] \in Objects
      BY <1>2
    <3>2. ASSUME NEW w \in {Hand(k[1]), Library(k[1])}, k[2] \in In(zones, w)
          PROVE  Home(zones', k)
      <4>1. w \in ZoneIds
        BY <3>1, SeatsAndZones
      <4>2. d[<<w, k[2]>>] \in ZoneIds
        BY <3>1, <4>1 DEF Ways
      <4>3. k[2] \in In(zones', d[<<w, k[2]>>])
        BY <2>1, <3>1, <3>2, <4>1, <4>2 DEF Relocated
      <4>4. d[<<w, k[2]>>] \in {Hand(k[1]), Library(k[1])}
        BY <2>1, <3>1, <3>2, <4>1, SeatsAndZones DEF Homeward
      <4> QED BY <4>3, <4>4
    <3> QED BY <1>2, <3>2
  <2>4. ASSUME NEW k \in InSight'
        PROVE  Home(zones', k)
    BY <2>2, <2>4, InSightIsVisible DEF Visible
  <2>5. ShownNow' = {}
    BY <2>1, EventsOfAStep
  <2> QED BY <2>2, <2>3, <2>4, <2>5
<1>4. CASE MulliganStep
  <2>1. PICK p \in Players :
          /\ In(zones', Hand(p)) \cup In(zones', Library(p)) = In(zones, Hand(p)) \cup In(zones, Library(p))
          /\ \A z \in ZoneIds : z # Hand(p) /\ z # Library(p) => In(zones', z) = In(zones, z)
          /\ events' = {<<"ZoneShuffled", p>>}
    BY <1>4 DEF MulliganStep
  <2>2. ASSUME NEW z \in ZoneIds, ~HidesIdentity(z)
        PROVE  In(zones', z) = {}
    BY <1>2, <2>1, <2>2, SeatsAndZones
  <2>3. ASSUME NEW k \in seen
        PROVE  Home(zones', k)
    <3>1. CASE k[1] = p
      BY <1>2, <2>1, <3>1
    <3>2. CASE k[1] # p
      <4>1. k[1] \in Players
        BY <1>2
      <4>2. /\ Hand(k[1]) \in ZoneIds /\ Library(k[1]) \in ZoneIds
            /\ Hand(k[1]) # Hand(p) /\ Hand(k[1]) # Library(p)
            /\ Library(k[1]) # Hand(p) /\ Library(k[1]) # Library(p)
        BY <3>2, <4>1, SeatsAndZones
      <4> QED BY <1>2, <2>1, <4>2
    <3> QED BY <3>1, <3>2
  <2>4. ASSUME NEW k \in InSight'
        PROVE  Home(zones', k)
    BY <2>2, <2>4, InSightIsVisible DEF Visible
  <2>5. ShownNow' = {}
    BY <2>1, EventsOfAStep
  <2> QED BY <2>2, <2>3, <2>4, <2>5
<1>5. CASE IdleStep
  <2>1. zones' = zones /\ events' \in {{}, events}
    BY <1>5 DEF IdleStep
  <2>2. ShownNow' \subseteq ShownNow
    BY <2>1 DEF ShownNow
  <2>3. Players \X ShownNow \subseteq seen
    BY DEF ShownNow, Told, Earned
  <2>4. InSight' \subseteq seen
    BY <2>1, InSightIsVisible DEF Earned
  <2>5. seen' \subseteq seen
    BY <2>2, <2>3, <2>4
  <2> QED BY <1>2, <2>1, <2>5
<1> QED BY <1>1, <1>3, <1>4, <1>5

SightInv == Placed /\ Told /\ Earned /\ OpeningSight /\ Sighted /\ Bounded

LEMMA SightInit ==
  ASSUME SeenInit
  PROVE  SightInv
<1>1. Placed
  BY PlacedInit DEF SeenInit
<1>2. known = {} /\ events = {} /\ seen = InSight /\ shown = InSight
  BY DEF SeenInit, Init
<1>3. InSight = Visible(zones)
  BY DEF InSight, Visible, HidesIdentity, In
<1>4. ASSUME NEW z \in ZoneIds, z[1] # "Library"
      PROVE  In(zones, z) = {}
  <2>1. zones[z] = <<>>
    BY <1>4 DEF SeenInit, Init
  <2>2. \A i : i \notin DOMAIN zones[z]
    BY <2>1
  <2> QED BY <2>2 DEF In, Range
<1>5. Visible(zones) = {}
  BY <1>4 DEF Visible, HidesIdentity, Hand
<1>6. Told /\ Earned /\ Sighted
  BY <1>2, <1>3, <1>5 DEF Told, Earned, Sighted
<1>7. \A z \in ZoneIds : ~HidesIdentity(z) => In(zones, z) = {}
  BY <1>4 DEF HidesIdentity
<1>8. OpeningSight
  BY <1>2, <1>3, <1>5, <1>7 DEF OpeningSight
<1>9. Bounded
  BY <1>2 DEF Bounded
<1> QED BY <1>1, <1>6, <1>8, <1>9 DEF SightInv

LEMMA SightNext ==
  ASSUME SightInv, SeenNext
  PROVE  SightInv'
<1>1. Placed' /\ Shaped
  BY PlacedNext, NextIsShaped DEF SightInv, SeenNext
<1>2. InPlace(zones) /\ InPlace(zones')
  BY <1>1 DEF SightInv, Placed
<1>3. seen' = {k \in seen : k[2] \notin Mixed} \cup InSight' \cup (Players \X ShownNow')
  BY DEF SeenNext
<1>4. Told' /\ Earned' /\ Sighted' /\ OpeningSight'
  BY <1>1, <1>2, <1>3, ToldNext, EarnedNext, SightedNext, OpeningSightNext DEF SightInv
<1>5. Bounded'
  BY DEF SeenNext, SightInv, Bounded
<1> QED BY <1>1, <1>4, <1>5 DEF SightInv

LEMMA SightStutters ==
  ASSUME SightInv, UNCHANGED <<vars, seen, shown>>
  PROVE  SightInv'
<1>1. Placed'
  BY PlacedNext DEF SightInv
<1>2. /\ zones' = zones /\ known' = known /\ events' = events /\ begun' = begun
      /\ seen' = seen /\ shown' = shown
  BY DEF vars, openingVars
<1>3. Told' /\ Earned' /\ Sighted' /\ OpeningSight' /\ Bounded'
  BY <1>2 DEF SightInv, Told, Earned, Sighted, OpeningSight, Bounded, InSight, In
<1> QED BY <1>1, <1>3 DEF SightInv

LEMMA SightAlways == SeenSpec => []SightInv
<1>1. SeenInit => SightInv
  BY SightInit
<1>2. SightInv /\ [SeenNext]_<<vars, seen, shown>> => SightInv'
  BY SightNext, SightStutters
<1> QED BY <1>1, <1>2, PTL DEF SeenSpec

LEMMA ViewIsSeen ==
  ASSUME SightInv
  PROVE  ViewsShowOnlyWhatWasShown
<1> SUFFICES ASSUME NEW p \in Players, NEW o \in PlayerView(p)
             PROVE  <<p, o>> \in shown
  BY DEF ViewsShowOnlyWhatWasShown
<1>1. o \in Objects
  BY DEF PlayerView
<1>2. PICK z \in ZoneIds : /\ o \in Range(zones[z])
                           /\ HidesIdentity(z) => z = Hand(p) \/ <<p, o>> \in known
  BY DEF PlayerView
<1>3. CASE <<p, o>> \in known
  BY <1>3 DEF SightInv, Earned, Bounded
<1>4. CASE <<p, o>> \notin known
  <2>1. <<p, o>> \in InSight
    BY <1>1, <1>2, <1>4 DEF InSight, HidesIdentity
  <2> QED BY <2>1 DEF SightInv, Earned, Bounded
<1> QED BY <1>3, <1>4

LEMMA SeenIsViewed ==
  ASSUME SightInv
  PROVE  SightIsRemembered
<1> SUFFICES ASSUME NEW k \in seen
             PROVE  k[2] \in PlayerView(k[1])
  BY DEF SightIsRemembered
<1>1. k \in Players \X Objects /\ Followed(k, zones, known)
  BY DEF SightInv, Sighted
<1>2. PICK z \in ZoneIds : k[2] \in In(zones, z)
  BY <1>1 DEF Followed
<1>3. HidesIdentity(z) => z = Hand(k[1]) \/ k \in known
  BY <1>1, <1>2 DEF Followed
<1>4. k = <<k[1], k[2]>> /\ k[2] \in Objects
  BY <1>1
<1> QED BY <1>2, <1>3, <1>4 DEF PlayerView, In

\* For any players, decks and tokens, player_view shows nobody an object that
\* they were never shown, or that a shuffle has hidden again since, through
\* every move, search and reveal.  A card set aside from the shuffle is not
\* hidden by it.  A card that an opponent takes unseen from
\* among others is no exception: it had been shown (see Onlooker).
THEOREM ViewsShowWhatWasShown == SeenSpec => []ViewsShowOnlyWhatWasShown
BY SightAlways, ViewIsSeen, PTL

\* What a player was shown is not forgotten without a shuffle of it:
\* known_objects takes a lesson of every move into a hand or a library.
THEOREM ViewsNeverForget == SeenSpec => []SightIsRemembered
BY SightAlways, SeenIsViewed, PTL
====
