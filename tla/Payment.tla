------------------------------- MODULE Payment -------------------------------
(***************************************************************************)
(* One player's mana: the pool, the cost of a spell through commander tax  *)
(* and cost reductions, the payment plans the driver offers, the largest X *)
(* it finds, and the cast that checks the plan again.  Timing and targets  *)
(* are the business of other modules.  A checked operation on u32 returns  *)
(* a set: its value, or nothing on overflow.                               *)
(***************************************************************************)
EXTENDS Integers, Sequences, FiniteSets, SequencesExt, Selection

CONSTANTS
    Colors,         \* COLORED_MANA_KINDS, in order
    Colorless,
    MaxMana,        \* u32::MAX
    PlanLimit,      \* PAYMENT_PLAN_LIMIT
    Lands, Produces,    \* [Lands -> Pools]
    Spells, Printed,    \* [Spells -> cost: colored, generic, xCount, xValue]
    Commanders,     \* the spells that are commanders
    Reducers, Amount, Cheaper,  \* permanents; what they take off; of which spells
    Fuel            \* bound: permanents that enter or leave, steps and turns ended

Kinds == Append(Colors, Colorless)
Pools == [ToSet(Kinds) -> 0 .. MaxMana]
Costs == [colored : [ToSet(Colors) -> 0 .. MaxMana], generic : 0 .. MaxMana,
          xCount : 0 .. MaxMana, xValue : 0 .. MaxMana]

ASSUME PaymentAssumption ==
    /\ MaxMana \in Nat /\ PlanLimit \in Nat \ {0} /\ Fuel \in Nat
    /\ Colors \in Seq(ToSet(Colors)) /\ IsInjective(Colors) /\ Colorless \notin ToSet(Colors)
    /\ Printed \in [Spells -> {c \in Costs : c.xValue = 0}]
    /\ Produces \in [Lands -> Pools] /\ Commanders \subseteq Spells
    /\ Amount \in [Reducers -> Nat] /\ Cheaper \in [Reducers -> SUBSET Spells]

VARIABLES
    pool, tapped, zone, casts,
    inPlay,         \* reducers on the battlefield
    registered,     \* permanent_runtime_registered_for
    modifiers,      \* cost_modifiers: sources, in order of registration
    fuel
vars == <<pool, tapped, zone, casts, inPlay, registered, modifiers, fuel>>

---------------------------------------------------------------------------
\* Mana pools and costs

Total(p) == FoldFunction(+, 0, p)
ColoredTotal(p) == FoldFunctionOnSet(+, 0, p, ToSet(Colors))
Covers(p, q) == \A k \in ToSet(Kinds) : q[k] <= p[k]
Plus(p, q) == [k \in ToSet(Kinds) |-> p[k] + q[k]]
Minus(p, q) == [k \in ToSet(Kinds) |-> p[k] - q[k]]
Empty == [k \in ToSet(Kinds) |-> 0]

Checked(n) == {n} \cap 0 .. MaxMana
ColoredPool(cost) == [k \in ToSet(Kinds) |-> IF k = Colorless THEN 0 ELSE cost.colored[k]]
GenericTotal(cost) == UNION {Checked(cost.generic + x) : x \in Checked(cost.xCount * cost.xValue)}
WithX(cost, x) == [cost EXCEPT !.xValue = x]

\* apply_cost_modifier, ReduceGeneric: what is left of X becomes plain generic mana
ReduceGeneric(cost, amount) ==
    {[colored |-> cost.colored, generic |-> IF n > amount THEN n - amount ELSE 0, xCount |-> 0, xValue |-> 0] :
        n \in GenericTotal(cost)}

CommanderTax(s) == IF s \in Commanders /\ zone[s] = "command" THEN 2 * casts[s] ELSE 0

\* effective_spell_cost: tax first, then every modifier whose source is in play
EffectiveSpellCost(s, base) ==
    LET taxed == {[base EXCEPT !.generic = n] : n \in Checked(base.generic + CommanderTax(s))}
        off == Keep(modifiers, {r \in inPlay : s \in Cheaper[r]})
        costs[i \in 0 .. Len(off)] ==
            IF i = 0 THEN taxed ELSE UNION {ReduceGeneric(c, Amount[off[i]]) : c \in costs[i - 1]}
    IN costs[Len(off)]

---------------------------------------------------------------------------
\* Payment plans

Plan(generic, cost) ==
    [paid |-> Plus(ColoredPool(cost), generic), genericPaid |-> generic, xValue |-> cost.xValue,
     waste |-> ColoredTotal(generic)]

\* Mutant: the check that enough colourless mana is left is forgotten.
GenericPayments_AnyColorless(remaining, n) ==
    {g \in [ToSet(Kinds) -> 0 .. n] : Total(g) = n /\ \A c \in ToSet(Colors) : g[c] <= remaining[c]}

GenericPayments(remaining, n) ==
    {g \in [ToSet(Kinds) -> 0 .. n] : Total(g) = n /\ Covers(remaining, g)}

\* The two nested loops: by coloured mana spent, then colour by colour.
Earlier(g, h) ==
    \/ ColoredTotal(g) < ColoredTotal(h)
    \/ /\ ColoredTotal(g) = ColoredTotal(h)
       /\ \E i \in DOMAIN Colors : /\ g[Colors[i]] < h[Colors[i]]
                                   /\ \A j \in 1 .. i - 1 : g[Colors[j]] = h[Colors[j]]

\* The first n payments of a set, one after another.
FirstPayments(payments, n) ==
    LET first[i \in 0 .. n] ==
            IF i = 0 THEN <<>>
            ELSE LET left == payments \ ToSet(first[i - 1])
                 IN Append(first[i - 1], CHOOSE g \in left : \A h \in left \ {g} : Earlier(g, h))
    IN first[n]

\* enumerate_payment_plans, cut off at the limit
EnumeratePaymentPlans(available, cost) ==
    IF ~Covers(available, ColoredPool(cost)) THEN <<>>
    ELSE LET remaining == Minus(available, ColoredPool(cost))
             n == CHOOSE m \in GenericTotal(cost) : TRUE
             payments == IF n > Total(remaining) THEN {} ELSE GenericPayments(remaining, n)
             count == Cardinality(payments)
             first == FirstPayments(payments, IF count < PlanLimit THEN count ELSE PlanLimit)
         IN [i \in DOMAIN first |-> Plan(first[i], cost)]

\* cast_payment_plans: an overflow on the way means there is no plan
CastPaymentPlans(s, x) ==
    LET payable == {c \in EffectiveSpellCost(s, WithX(Printed[s], x)) : GenericTotal(c) # {}}
    IN IF payable = {} THEN <<>>
       ELSE LET plans == EnumeratePaymentPlans(pool, CHOOSE c \in payable : TRUE)
            IN [i \in DOMAIN plans |-> [plans[i] EXCEPT !.xValue = x]]

\* Mutant: the midpoint is rounded down.
Midpoint_Floor(low, high) == low + (high - low) \div 2

Midpoint(low, high) == low + (high - low + 1) \div 2

\* maximum_affordable_x: a binary search over every X whose product is a u32
MaximumAffordableX(s) ==
    LET Halve(range) ==
            LET mid == Midpoint(range.low, range.high)
            IN IF range.low >= range.high THEN range
               ELSE IF CastPaymentPlans(s, mid) = <<>> THEN [range EXCEPT !.high = mid - 1]
               ELSE [range EXCEPT !.low = mid]
        search[i \in 0 .. MaxMana] ==
            IF i = 0 THEN [low |-> 0, high |-> MaxMana \div Printed[s].xCount] ELSE Halve(search[i - 1])
    IN IF CastPaymentPlans(s, 0) = <<>> THEN {} ELSE {search[MaxMana].low}

\* validate_payment_plan
ValidatePaymentPlan(available, cost, paid) ==
    IF Covers(available, paid) /\ Covers(paid, ColoredPool(cost))
    THEN {Plan(g, cost) : g \in {h \in {Minus(paid, ColoredPool(cost))} : Total(h) \in GenericTotal(cost)}}
    ELSE {}

\* Mutant: the announced X is looked up in the cost that is left to pay.
Canonical_PayableX(plan, x) == plan

Canonical(plan, x) == [plan EXCEPT !.xValue = x]

\* cast_spell's checks of the payment it is given
CastAccepts(s, plan) ==
    \E cost \in EffectiveSpellCost(s, WithX(Printed[s], plan.xValue)) :
        \E valid \in ValidatePaymentPlan(pool, cost, plan.paid) : Canonical(valid, plan.xValue) = plan

---------------------------------------------------------------------------
\* Actions

Castable(s) == zone[s] \in {"hand", "command"}
Announceable(s) == IF Printed[s].xCount = 0 THEN {0}
                   ELSE UNION {0 .. x : x \in MaximumAffordableX(s)}

\* A land's mana ability, add_mana_to_pool
TapForMana(l) ==
    /\ l \notin tapped /\ Plus(pool, Produces[l]) \in Pools
    /\ tapped' = tapped \cup {l} /\ pool' = Plus(pool, Produces[l])
    /\ UNCHANGED <<zone, casts, inPlay, registered, modifiers, fuel>>

\* The driver picks one of the plans it was offered; cast_spell pays it.
CastSpell(s) ==
    /\ Castable(s)
    /\ \E x \in Announceable(s) : \E plan \in ToSet(CastPaymentPlans(s, x)) :
        /\ CastAccepts(s, plan)
        /\ pool' = Minus(pool, plan.paid)
    /\ casts' = IF zone[s] = "command" THEN [casts EXCEPT ![s] = @ + 1] ELSE casts
    /\ zone' = [zone EXCEPT ![s] = "gone"]
    /\ UNCHANGED <<tapped, inPlay, registered, modifiers, fuel>>

\* A commander goes back to the command zone from wherever it went.
ReturnCommander(s) ==
    /\ s \in Commanders /\ zone[s] = "gone" /\ fuel > 0
    /\ zone' = [zone EXCEPT ![s] = "command"] /\ fuel' = fuel - 1
    /\ UNCHANGED <<pool, tapped, casts, inPlay, registered, modifiers>>

\* Mutant: the static abilities of a permanent are registered each time it enters.
MustRegister_Always(r) == TRUE

MustRegister(r) == r \notin registered

\* register_permanent_runtime of a permanent that enters the battlefield
Enter(r) ==
    /\ r \notin inPlay /\ fuel > 0
    /\ inPlay' = inPlay \cup {r} /\ registered' = registered \cup {r}
    /\ modifiers' = IF MustRegister(r) THEN Append(modifiers, r) ELSE modifiers
    /\ fuel' = fuel - 1
    /\ UNCHANGED <<pool, tapped, zone, casts>>

\* Modifiers are never unregistered; one whose source is gone is skipped.
Leave(r) ==
    /\ r \in inPlay /\ fuel > 0
    /\ inPlay' = inPlay \ {r} /\ fuel' = fuel - 1
    /\ UNCHANGED <<pool, tapped, zone, casts, registered, modifiers>>

\* end_step clears every pool; with the turn come untapped lands
EndStep ==
    /\ pool # Empty /\ fuel > 0
    /\ pool' = Empty /\ fuel' = fuel - 1
    /\ tapped' \in {tapped, {}}
    /\ UNCHANGED <<zone, casts, inPlay, registered, modifiers>>

Init ==
    /\ pool = Empty /\ tapped = {}
    /\ zone = [s \in Spells |-> IF s \in Commanders THEN "command" ELSE "hand"]
    /\ casts = [s \in Spells |-> 0]
    /\ inPlay = {} /\ registered = {} /\ modifiers = <<>> /\ fuel = Fuel

Next ==
    \/ \E l \in Lands : TapForMana(l)
    \/ \E s \in Spells : CastSpell(s) \/ ReturnCommander(s)
    \/ \E r \in Reducers : Enter(r) \/ Leave(r)
    \/ EndStep
Spec == Init /\ [][Next]_vars
=============================================================================
