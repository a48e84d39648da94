-------------------------- MODULE PaymentProperties --------------------------
(***************************************************************************)
(* What the driver's offers and the kernel's check of a payment owe to     *)
(* each other and to the rules of costs.                                   *)
(***************************************************************************)
EXTENDS Payment, FiniteSetsExt

\* Whatever plan could be made of a pool for a spell announced with x.
PlansFrom(s, x) ==
    UNION {{[p EXCEPT !.xValue = x] : p \in ValidatePaymentPlan(pool, cost, paid)} :
           cost \in EffectiveSpellCost(s, WithX(Printed[s], x)),
           paid \in {q \in [ToSet(Kinds) -> 0 .. Total(pool)] : Covers(pool, q)}}

\* Driver and kernel agree on the payments: every plan the driver offers is
\* accepted by cast_spell, none is offered twice, and below the limit every
\* payment the kernel would accept is offered; the first one, which automatic
\* play takes, spends the least coloured mana on generic costs.
OffersAreTheAcceptedPlans ==
    \A s \in Spells : Castable(s) => \A x \in Announceable(s) :
        LET offers == CastPaymentPlans(s, x)
            plans == PlansFrom(s, x)
        IN /\ \A i \in DOMAIN offers : CastAccepts(s, offers[i])
           /\ IsInjective(offers) /\ ToSet(offers) \subseteq plans
           /\ Len(offers) < PlanLimit => ToSet(offers) = plans
           /\ offers # <<>> => \A p \in plans : offers[1].waste <= p.waste

\* The search by halves finds the largest X that can be paid, reductions that
\* eat into X and values of X that overflow included.
LargestXIsFound ==
    \A s \in Spells : Castable(s) /\ Printed[s].xCount > 0 =>
        LET affordable == {x \in 0 .. MaxMana : CastPaymentPlans(s, x) # <<>>}
        IN MaximumAffordableX(s) = IF affordable = {} THEN {} ELSE {Max(affordable)}

\* A spell costs what is printed on it, the tax of the casts from the command
\* zone before, less what the permanents now in play take off, each once, however
\* often they have left and returned; coloured symbols are never reduced.
CostsFollowTheBoard ==
    \A s \in Spells : Castable(s) =>
        LET off == MapThenSumSet(LAMBDA r : Amount[r], {r \in inPlay : s \in Cheaper[r]})
            full == Printed[s].generic + CommanderTax(s)
        IN \A cost \in EffectiveSpellCost(s, WithX(Printed[s], 0)) :
             /\ cost.generic = IF full > off THEN full - off ELSE 0
             /\ cost.colored = Printed[s].colored
=============================================================================
