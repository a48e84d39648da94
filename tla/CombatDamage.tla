---------------------------- MODULE CombatDamage ----------------------------
(***************************************************************************)
(* One combat of `GameState` from the declared blocks to the cleanup step: *)
(* the damage sub-steps, who may divide how much among whom, and what      *)
(* resolving spells do in the priority windows between.  Who holds         *)
(* priority and which declarations are legal is `Kernel`'s subject.        *)
(***************************************************************************)
EXTENDS Damage

CONSTANTS
    Life,           \* starting life
    Attacker,       \* the active player
    Defender,       \* the player attacked
    Charms,         \* continuous effects that may be registered
    Wards,          \* replacement effects that may be registered
    Burns,          \* noncombat damage that may be dealt: source, target, amount
    Fuel            \* bound: registrations, orders and burns in one behaviour

ASSUME CombatDamageAssumption ==
    /\ Life \in Nat /\ Fuel \in Nat
    /\ Attacker \in Players /\ Defender \in Players \ {Attacker}
    /\ \A w \in Wards : w.controller \in Players

VARIABLES game, fuel
vars == <<game, fuel>>

NewGame ==
    [step |-> "DeclareAttackers", damageStep |-> "None", assigned |-> FALSE,
     inPlay |-> Objects, damage |-> [o \in Objects |-> 0], deathtouched |-> {},
     counters |-> [o \in Objects |-> 0], effects |-> <<>>, nextEffect |-> 1,
     replacements |-> <<>>, nextReplacement |-> 1, orders |-> [p \in Players |-> <<>>],
     life |-> [p \in Players |-> Life], lost |-> {},
     attackers |-> <<>>, blockers |-> <<>>, participants |-> {},
     dealt |-> <<>>, error |-> "None"]

Controlled(p) == {o \in game.inPlay : IsCreature(Characteristics(game, o)) /\ Characteristics(game, o).controller = p}

---------------------------------------------------------------------------
\* Damage sub-steps

Strikes(g, o) == {"firstStrike", "doubleStrike"} \cap Keywords(g, o) # {}

(* begin_combat_damage_step, then the grant of priority that begins the     *)
(* step: state-based actions run before any damage is assigned.             *)
BeginCombatDamageStep(g) ==
    LET striking == {o \in ToSet(ActiveCreatures(g)) : Strikes(g, o)}
        begun == IF g.damageStep = "FirstStrike" THEN [g EXCEPT !.damageStep = "Regular"]
                 ELSE [g EXCEPT !.participants = striking,
                                !.damageStep = IF striking = {} THEN "Normal" ELSE "FirstStrike"]
    IN PerformStateBasedActions([begun EXCEPT !.step = "CombatDamage", !.assigned = FALSE])

\* Mutant: whoever is in the regular step strikes.
EligibleSources_AllInRegular(g) ==
    SelectSeq(ActiveCreatures(g), LAMBDA o : g.damageStep = "FirstStrike" => Strikes(g, o))

EligibleSources(g) ==
    SelectSeq(ActiveCreatures(g), LAMBDA o :
        CASE g.damageStep = "Normal"      -> TRUE
          [] g.damageStep = "FirstStrike" -> Strikes(g, o)
          [] g.damageStep = "Regular"     -> o \notin g.participants \/ "doubleStrike" \in Keywords(g, o))

---------------------------------------------------------------------------
\* Divisions of one source's damage

LethalDamageRequired(g, o, source) ==
    IF "deathtouch" \in Keywords(g, source) THEN 1
    ELSE Max({0, Toughness(g, o) - g.damage[o]})

AttackOf(g, o) == {a \in ToSet(g.attackers) : a.object = o}
CurrentBlockers(g, a) == SelectSeq(a.blockers, LAMBDA b : IsActive(g, b) /\ b \in Blockers(g))
ObjectTargets(s) == [i \in DOMAIN s |-> Object(s[i])]

\* combat_damage_profile: the targets and the total; no targets, nothing to assign
Profile(g, o) ==
    LET total == Max({0, Power(g, o)})
        ToPlayer(a) == [targets |-> <<Player(a.defender)>>, total |-> total]
        tramples == "trample" \in Keywords(g, o)
        Attack(a) ==
            LET facing == CurrentBlockers(g, a)
            IN IF ~a.blocked \/ (facing = <<>> /\ tramples) THEN ToPlayer(a)
               ELSE IF facing = <<>> THEN [targets |-> <<>>, total |-> 0]
               ELSE [targets |-> ObjectTargets(facing) \o (IF tramples THEN <<Player(a.defender)>> ELSE <<>>),
                     total |-> total]
        Block(b) == IF b.attacker \in Attackers(g) /\ IsActive(g, b.attacker)
                    THEN [targets |-> <<Object(b.attacker)>>, total |-> total]
                    ELSE [targets |-> <<>>, total |-> 0]
    IN IF AttackOf(g, o) # {} THEN Attack(CHOOSE a \in AttackOf(g, o) : TRUE)
       ELSE Block(CHOOSE b \in ToSet(g.blockers) : b.object = o)

(* A request as it orders and pays every legal target, a defending player   *)
(* last; a target left out of a request counts as paid nothing.             *)
Orders(profile) ==
    LET objects == SelectSeq(profile.targets, LAMBDA t : ~IsPlayer(t))
        rest == SelectSeq(profile.targets, IsPlayer)
    IN {s \o rest : s \in SetToSeqs(ToSet(objects))}
Divisions(profile) ==
    LET n == Len(profile.targets)
    IN {d \in Orders(profile) \X [1 .. n -> 0 .. profile.total] :
            FoldFunction(LAMBDA x, y : x + y, 0, d[2]) = profile.total}

\* Mutant: the last creature asks for nothing, though the player comes after it.
MinimumToAdvance_NoPlayer(g, source, order, k) ==
    IF k = Len(order) \/ IsPlayer(order[k + 1]) THEN 0 ELSE LethalDamageRequired(g, order[k][2], source)

\* combat_damage_choice_profile_for_targets: what target k needs before the next
MinimumToAdvance(g, source, order, k) ==
    IF k = Len(order) THEN 0 ELSE LethalDamageRequired(g, order[k][2], source)

\* The divisions the driver can ask for: at least the minimum, or all that is left.
DriverDivisions(g, source, profile) ==
    {d \in Divisions(profile) : \A k \in 1 .. Len(d[1]) - 1 :
        LET left == FoldFunctionOnSet(LAMBDA x, y : x + y, 0, d[2], k .. Len(d[1]))
        IN d[2][k] >= Min({left, MinimumToAdvance(g, source, d[1], k)})}

\* validate_blocker_assignment_order: only two or more blockers are in order
BlockersInOrder(g, source, d) ==
    LET facing == {k \in DOMAIN d[1] : ~IsPlayer(d[1][k])}
    IN AttackOf(g, source) # {} /\ Cardinality(facing) >= 2 =>
         \A k \in facing \ {Max(facing)} :
            (\E j \in DOMAIN d[1] : j > k /\ d[2][j] > 0) =>
                d[2][k] >= LethalDamageRequired(g, d[1][k][2], source)

\* validate_trample_assignment
TrampleIsEarned(g, source, d) ==
    (\E k \in DOMAIN d[1] : IsPlayer(d[1][k]) /\ d[2][k] > 0) =>
        \A k \in DOMAIN d[1] : ~IsPlayer(d[1][k]) => d[2][k] >= LethalDamageRequired(g, d[1][k][2], source)

\* validate_combat_damage_request, for a division of the right total
IsValid(g, source, d) == BlockersInOrder(g, source, d) /\ TrampleIsEarned(g, source, d)

---------------------------------------------------------------------------
\* Actions

Running == game.error = "None" /\ ~Over(game)

\* declare_attackers, then declare_blockers, each in the order of the ids
DeclareCombat ==
    /\ Running /\ game.step = "DeclareAttackers"
    /\ \E attacking \in SUBSET Controlled(Attacker) \ {{}} :
       \E blocking \in SUBSET Controlled(Defender) : \E choice \in [blocking -> attacking] :
         LET InOrder(S) == SetToSortSeq(S, <)
             Facing(a) == InOrder({b \in blocking : choice[b] = a})
             as == InOrder(attacking)
             bs == InOrder(blocking)
         IN game' = PerformStateBasedActions([game EXCEPT
                !.step = "DeclareBlockers",
                !.attackers = [i \in DOMAIN as |-> [object |-> as[i], defender |-> Defender,
                                  blocked |-> Facing(as[i]) # <<>>, blockers |-> Facing(as[i])]],
                !.blockers = [i \in DOMAIN bs |-> [object |-> bs[i], attacker |-> choice[bs[i]]]]])
    /\ UNCHANGED fuel

\* Every request the driver can make of the kernel: a division for each source that has damage.
Requests(g) ==
    FoldLeft(LAMBDA acc, s : LET profile == Profile(g, s) IN
                IF profile.total = 0 THEN acc
                ELSE {Append(r, [source |-> s, division |-> d]) : r \in acc, d \in DriverDivisions(g, s, profile)},
             {<<>>}, EligibleSources(g))

Pay(g, request) ==
    LET targets == request.division[1]
        amounts == request.division[2]
    IN FoldLeft(LAMBDA h, k : IF amounts[k] = 0 THEN h
                              ELSE ApplyCombatDamage(h, request.source, targets[k], amounts[k]),
                g, [k \in DOMAIN targets |-> k])

AssigningDamage == Running /\ game.step = "CombatDamage" /\ ~game.assigned

(* assign_combat_damage, which the driver calls once, as the step begins:   *)
(* everything is checked, then dealt source by source, then state-based     *)
(* actions are performed.                                                   *)
AssignCombatDamage ==
    /\ AssigningDamage
    /\ \E requests \in Requests(game) :
         LET dealt == FoldLeft(Pay, game, requests)
         IN game' = IF \E i \in DOMAIN requests : ~IsValid(game, requests[i].source, requests[i].division)
                    THEN [game EXCEPT !.error = "IllegalCombatDamageAssignment"]
                    ELSE IF dealt.error # "None" THEN dealt
                    ELSE PerformStateBasedActions([dealt EXCEPT !.assigned = TRUE])
    /\ UNCHANGED fuel

Window == game.step = "DeclareBlockers" \/ (game.step = "CombatDamage" /\ game.assigned)

(* A spell resolves in a window.  The kernel grants priority, with          *)
(* state-based actions, and only then are its effects dispatched; what they *)
(* lead to waits for the next grant.                                        *)
Resolve(Effect(_)) ==
    /\ Running /\ Window /\ fuel > 0
    /\ LET granted == PerformStateBasedActions(game)
       IN game' = IF granted.error # "None" \/ Over(granted) THEN granted ELSE Effect(granted)
    /\ fuel' = fuel - 1

ResolveCharm ==
    \E c \in Charms : \E dependencies \in {{}} \cup {{e.id} : e \in ToSet(game.effects)} :
        LET def == [c EXCEPT !.dependencies = dependencies]
        IN MayRegister(game, def) /\ Resolve(LAMBDA g : RegisterContinuousEffect(g, def))
ResolveWard ==
    \E w \in Wards : Resolve(LAMBDA g :
        [g EXCEPT !.replacements = Append(@, [id |-> g.nextReplacement, def |-> w]), !.nextReplacement = @ + 1])
ResolveBurn ==
    \E b \in Burns : /\ ~IsPlayer(b.target) => b.target[2] \in game.inPlay
                     /\ Resolve(LAMBDA g : DealNoncombatDamage(g, b.source, b.target, b.amount))

\* set_replacement_choice_order: any of the live effects, each once
SetReplacementChoiceOrder ==
    /\ Running /\ Window /\ fuel > 0
    /\ \E p \in Players : \E S \in SUBSET {r.id : r \in ToSet(game.replacements)} :
         \E order \in SetToSeqs(S) :
            order # game.orders[p] /\ game' = [game EXCEPT !.orders[p] = order]
    /\ fuel' = fuel - 1

BeginCombatDamage ==
    /\ Running /\ Window /\ (game.step = "CombatDamage" => game.damageStep = "FirstStrike")
    /\ game' = BeginCombatDamageStep(game) /\ UNCHANGED fuel

\* The end of combat clears it once the step is over.
EndCombat ==
    /\ Running /\ game.step = "CombatDamage" /\ game.assigned /\ game.damageStep # "FirstStrike"
    /\ game' = PerformStateBasedActions([game EXCEPT !.step = "EndOfCombat"])
    /\ UNCHANGED fuel

\* Mutant: state-based actions look before marked damage wears off.
WearOff_TooLate(g) == ExpireContinuousEffects(g)

WearOff(g) ==
    [ExpireContinuousEffects(g) EXCEPT !.damage = [o \in Objects |-> 0], !.deathtouched = {}]

\* begin_cleanup_step; combat was cleared when its last step ended
Cleanup ==
    /\ Running /\ game.step = "EndOfCombat"
    /\ game' = PerformStateBasedActions([WearOff(game) EXCEPT !.step = "Cleanup", !.attackers = <<>>,
                  !.blockers = <<>>, !.participants = {}, !.damageStep = "None", !.assigned = FALSE])
    /\ UNCHANGED fuel

Init == game = NewGame /\ fuel = Fuel
Next == DeclareCombat \/ AssignCombatDamage \/ ResolveCharm \/ ResolveWard \/ ResolveBurn
        \/ SetReplacementChoiceOrder \/ BeginCombatDamage \/ EndCombat \/ Cleanup
Spec == Init /\ [][Next]_vars
=============================================================================
