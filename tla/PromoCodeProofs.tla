-------------------------- MODULE PromoCodeProofs --------------------------
(***************************************************************************)
(* That no more users hold a promo code than it may be used, and that an   *)
(* order which uses it up had the discount, for any number of users,       *)
(* orders, failing handlers and late payments, and any limits; and that a  *)
(* user's orders stay within the limit for an account where no handler     *)
(* fails and no cancelled order is paid.                                   *)
(***************************************************************************)
EXTENDS PromoCode, FiniteSetTheorems, TLAPS

Entering == {"count orders", "count users", "save"}

\* Sets of users and of orders are finite.
LEMMA Finite ==
    ASSUME PromoCodeTypeOK
    PROVE  /\ IsFiniteSet(active) /\ Cardinality(active) \in Nat
           /\ Cardinality(AllUses) \in Nat
<1>1. IsFiniteSet(active) /\ Cardinality(active) \in Nat
  BY PromoCodeAssumption, FS_Subset, FS_CardinalityType DEF PromoCodeTypeOK
<1>2. AllUses \subseteq Order
  BY DEF AllUses, Uses
<1>3. IsFiniteSet(AllUses)
  BY <1>2, PromoCodeAssumption, FS_Subset
<1> QED  BY <1>1, <1>3, FS_CardinalityType

\* Taking the code from some of its holders leaves no more of them.
LEMMA FewerHolders ==
    ASSUME PromoCodeTypeOK, active' \subseteq active
    PROVE  active' \subseteq User /\ Cardinality(active') <= Cardinality(active)
BY Finite, FS_Subset DEF PromoCodeTypeOK

\* At first nobody has the code.
LEMMA InitInv == Init => IInv
<1> SUFFICES ASSUME Init PROVE IInv
  OBVIOUS
<1>1. Cardinality(active) = 0
  BY FS_EmptySet DEF Init
<1>2. PromoCodeTypeOK
  BY DEF Init, PromoCodeTypeOK, At, Pc, Prices, Transaction
<1>3. EntriesExclude /\ DiscountFollows /\ UsedCodeGaveDiscount
  BY DEF Init, EntriesExclude, DiscountFollows, UsedCodeGaveDiscount
<1> QED  BY <1>1, <1>2, <1>3, PromoCodeAssumption DEF IInv, PromoCodeInv, HoldersWithinLimit

\* A step that counts nothing and gives nobody the code leaves the entries exclusive: who
\* enters afterwards entered before, and the lock is given back by its owner only.
LEMMA EntriesStay ==
    ASSUME IInv, PromoCodeTypeOK', active' \subseteq active, NEW u \in User,
           \A v \in User \ {u} : pc'[v] = pc[v],
           \/ pc'[u] \notin Entering /\ lock' = (IF lock = u THEN Free ELSE lock)
           \/ pc'[u] \notin Entering /\ lock' = lock
           \/ pc'[u] = pc[u] /\ lock' = lock
    PROVE  EntriesExclude' /\ HoldersWithinLimit'
<1>1. Cardinality(active') <= Cardinality(active)
  BY FewerHolders DEF IInv, PromoCodeInv
<1>2. Cardinality(active') \in Nat /\ Cardinality(active) \in Nat /\ GlobalLimit \in Nat
  BY Finite, FewerHolders, FS_Subset, FS_CardinalityType, PromoCodeAssumption
     DEF IInv, PromoCodeInv, PromoCodeTypeOK
<1>3. HoldersWithinLimit'
  BY <1>1, <1>2 DEF IInv, HoldersWithinLimit
<1>4. ASSUME NEW v \in User, pc'[v] \in Entering
      PROVE  lock' = v /\ (pc'[v] = "save" => Cardinality(active') < GlobalLimit)
  <2>1. pc[v] = pc'[v] /\ (v = u => lock' = lock)
    BY <1>4
  <2>2. lock = v
    BY <1>4, <2>1 DEF IInv, PromoCodeInv, EntriesExclude, Entering
  <2>3. lock' = v
    BY <2>1, <2>2
  <2>4. pc'[v] = "save" => Cardinality(active) < GlobalLimit
    BY <2>1 DEF IInv, PromoCodeInv, EntriesExclude
  <2> QED  BY <1>1, <1>2, <2>3, <2>4
<1> QED  BY <1>3, <1>4 DEF EntriesExclude, Entering

\* What a user taps, other than to enter the code.
LEMMA TapKeepsInv ==
    ASSUME IInv, NEW u \in User,
           \/ ShowPaymentMethods(u) \/ AskForPromo(u) \/ CancelPromo(u)
           \/ ChoosePaymentMethod(u) \/ Confirm(u)
    PROVE  IInv'
<1> USE DEF IInv, PromoCodeInv
<1>1. PromoCodeTypeOK'
  <2>1. PriceFor(u) \in Prices /\ "ENTER_PROMO" \in At /\ "CHOOSE_PAYMENT" \in At
        /\ "ORDER_CONFIRMATION" \in At /\ "create" \in Pc
    BY DEF PriceFor, Prices, At, Pc
  <2>2. CASE ShowPaymentMethods(u)
    BY <2>1, <2>2 DEF PromoCodeTypeOK, ShowPaymentMethods, Go
  <2>3. CASE AskForPromo(u)
    BY <2>1, <2>3 DEF PromoCodeTypeOK, AskForPromo, Go
  <2>4. CASE CancelPromo(u)
    BY <2>4 DEF PromoCodeTypeOK, CancelPromo
  <2>5. CASE ChoosePaymentMethod(u)
    BY <2>1, <2>5 DEF PromoCodeTypeOK, ChoosePaymentMethod, Go
  <2>6. CASE Confirm(u)
    BY <2>1, <2>6 DEF PromoCodeTypeOK, Confirm
  <2> QED  BY <2>2, <2>3, <2>4, <2>5, <2>6
<1>2. EntriesExclude' /\ HoldersWithinLimit'
  <2>1. active' \subseteq active /\ lock' = lock /\ (\A v \in User \ {u} : pc'[v] = pc[v])
    BY DEF PromoCodeTypeOK, ShowPaymentMethods, AskForPromo, CancelPromo, ChoosePaymentMethod,
           Confirm
  <2>2. pc'[u] = pc[u] \/ pc'[u] \notin Entering
    BY DEF PromoCodeTypeOK, ShowPaymentMethods, AskForPromo, CancelPromo, ChoosePaymentMethod,
           Confirm, Entering
  <2> QED  BY <1>1, <2>1, <2>2, EntriesStay
<1>3. DiscountFollows'
  <2>1. CASE ShowPaymentMethods(u)
    BY <2>1 DEF PromoCodeTypeOK, DiscountFollows, ShowPaymentMethods, Go, PriceFor
  <2>2. CASE AskForPromo(u) \/ CancelPromo(u)
    BY <2>2 DEF PromoCodeTypeOK, DiscountFollows, AskForPromo, CancelPromo, Go
  <2>3. CASE ChoosePaymentMethod(u)
    BY <2>3 DEF PromoCodeTypeOK, DiscountFollows, ChoosePaymentMethod, Go
  <2>4. CASE Confirm(u)
    <3>1. /\ pc[u] = "idle" /\ at[u] = "ORDER_CONFIRMATION" /\ pc' = [pc EXCEPT ![u] = "create"]
          /\ got' \in {[got EXCEPT ![u] = 1], [got EXCEPT ![u] = 0]}
          /\ u \notin active => got' = [got EXCEPT ![u] = 0]
          /\ UNCHANGED <<active, at, keys, price>>
      BY <2>4 DEF Confirm
    <3>2. got'[u] = 1 => u \in active
      BY <3>1 DEF PromoCodeTypeOK
    <3>3. u \in active => price[u] = "discounted"
      BY <3>1 DEF DiscountFollows
    <3>4. \A v \in User \ {u} : pc'[v] = pc[v] /\ got'[v] = got[v]
      BY <3>1 DEF PromoCodeTypeOK
    <3>5. pc'[u] = "create"
      BY <3>1 DEF PromoCodeTypeOK
    <3>6. ASSUME NEW v \in User
          PROVE  /\ pc'[v] \in Entering => at[v] = "ENTER_PROMO"
                 /\ pc'[v] = "create" /\ got'[v] = 1 => price[v] = "discounted"
      <4>1. CASE v = u
        BY <3>2, <3>3, <3>5, <4>1 DEF Entering
      <4>2. CASE v # u
        BY <3>4, <4>2 DEF DiscountFollows, Entering
      <4> QED  BY <4>1, <4>2
    <3> QED  BY <3>1, <3>6 DEF DiscountFollows, Entering
  <2> QED  BY <2>1, <2>2, <2>3, <2>4
<1>4. UsedCodeGaveDiscount'
  BY DEF UsedCodeGaveDiscount, ShowPaymentMethods, AskForPromo, CancelPromo,
         ChoosePaymentMethod, Confirm
<1> QED  BY <1>1, <1>2, <1>3, <1>4

\* A handler that ends, whether it fails, refuses the code or has cleared it: the lock it
\* holds is free again, the code is where it was or with fewer users.
LEMMA LeaveKeepsInv ==
    ASSUME IInv, NEW u \in User, Leave(u),
           active' \in {active, active \ {u}},
           at' = at \/ at' = [at EXCEPT ![u] = "ORDER_CONFIRMED"],
           UNCHANGED <<used, keys, price, order, late>>, faults' \in Nat
    PROVE  IInv'
<1> USE DEF IInv, PromoCodeInv
<1>1. PromoCodeTypeOK'
  BY DEF PromoCodeTypeOK, Leave, At, Pc
<1>2. EntriesExclude' /\ HoldersWithinLimit'
  <2>1. pc'[u] \notin Entering /\ (\A v \in User \ {u} : pc'[v] = pc[v])
    BY DEF PromoCodeTypeOK, Leave, Entering
  <2>2. active' \subseteq active /\ lock' = (IF lock = u THEN Free ELSE lock)
    BY DEF Leave
  <2> QED  BY <1>1, <2>1, <2>2, EntriesStay
<1>3. DiscountFollows'
  BY DEF PromoCodeTypeOK, DiscountFollows, Leave
<1>4. UsedCodeGaveDiscount'
  BY DEF UsedCodeGaveDiscount
<1> QED  BY <1>1, <1>2, <1>3, <1>4

\* The entry of the code.  Whoever enters holds the lock, so what was counted holds when
\* the code becomes active.
LEMMA EntryKeepsInv ==
    ASSUME IInv, NEW u \in User,
           Enter(u) \/ CountOrders(u) \/ CountUsers(u) \/ Activate(u)
    PROVE  IInv'
<1> USE DEF IInv, PromoCodeInv
<1>1. CASE Enter(u)
  <2>1. PromoCodeTypeOK'
    BY <1>1 DEF Enter, PromoCodeTypeOK, Pc
  <2>2. EntriesExclude' /\ HoldersWithinLimit'
    BY <1>1, PromoCodeAssumption DEF Enter, PromoCodeTypeOK, EntriesExclude, HoldersWithinLimit
  <2>3. DiscountFollows' /\ UsedCodeGaveDiscount'
    BY <1>1 DEF Enter, PromoCodeTypeOK, DiscountFollows, UsedCodeGaveDiscount
  <2> QED  BY <2>1, <2>2, <2>3
<1>2. ASSUME CountOrders(u), ~ Refuse(u)  PROVE IInv'
  <2>1. /\ pc[u] = "count orders" /\ pc' = [pc EXCEPT ![u] = "count users"]
        /\ got' = [got EXCEPT ![u] = Cardinality(AllUses)]
        /\ UNCHANGED <<active, used, at, keys, price, lock, order, faults, late>>
    BY <1>2 DEF CountOrders
  <2>2. PromoCodeTypeOK'
    BY <2>1, Finite DEF PromoCodeTypeOK, Pc
  <2>3. EntriesExclude' /\ HoldersWithinLimit'
    BY <2>1 DEF PromoCodeTypeOK, EntriesExclude, HoldersWithinLimit
  <2>4. DiscountFollows' /\ UsedCodeGaveDiscount'
    BY <2>1 DEF PromoCodeTypeOK, DiscountFollows, UsedCodeGaveDiscount
  <2> QED  BY <2>2, <2>3, <2>4
<1>3. ASSUME CountUsers(u), ~ Refuse(u)  PROVE IInv'
  <2>1. /\ pc[u] = "count users" /\ pc' = [pc EXCEPT ![u] = "save"]
        /\ ~ (got[u] + Cardinality(active) >= GlobalLimit)
        /\ UNCHANGED <<active, used, at, keys, price, got, lock, order, faults, late>>
    BY <1>3 DEF CountUsers
  <2>2. PromoCodeTypeOK'
    BY <2>1 DEF PromoCodeTypeOK, Pc
  <2>3. Cardinality(active) < GlobalLimit
    <3>1. got[u] \in Nat /\ Cardinality(active) \in Nat /\ GlobalLimit \in Nat
      BY Finite, PromoCodeAssumption DEF PromoCodeTypeOK
    <3>2. ~ (got[u] + Cardinality(active) >= GlobalLimit)
      BY <2>1
    <3> HIDE DEF IInv, PromoCodeInv
    <3> QED  BY <3>1, <3>2
  <2>4. EntriesExclude' /\ HoldersWithinLimit'
    BY <2>1, <2>3 DEF PromoCodeTypeOK, EntriesExclude, HoldersWithinLimit
  <2>5. DiscountFollows' /\ UsedCodeGaveDiscount'
    BY <2>1 DEF PromoCodeTypeOK, DiscountFollows, UsedCodeGaveDiscount
  <2> QED  BY <2>2, <2>4, <2>5
<1>4. CASE Activate(u)
  <2>1. /\ pc[u] = "save" /\ active' = active \cup {u} /\ used' = used \cup {u}
        /\ pc' = [pc EXCEPT ![u] = "idle"] /\ lock' = Free /\ lock = u
        /\ got' = [got EXCEPT ![u] = 0]
        /\ UNCHANGED <<at, keys, price, order, faults, late>>
    BY <1>4 DEF Activate, Leave, EntriesExclude
  <2>2. PromoCodeTypeOK'
    BY <2>1 DEF PromoCodeTypeOK, Pc
  <2>3. HoldersWithinLimit'
    <3>1. Cardinality(active) < GlobalLimit /\ Cardinality(active) \in Nat /\ GlobalLimit \in Nat
      BY <2>1, Finite, PromoCodeAssumption DEF EntriesExclude
    <3>2. Cardinality(active \cup {u}) \in {Cardinality(active), Cardinality(active) + 1}
      BY Finite, FS_AddElement
    <3> QED  BY <2>1, <3>1, <3>2 DEF HoldersWithinLimit
  <2>4. EntriesExclude'
    BY <2>1 DEF PromoCodeTypeOK, EntriesExclude
  <2>5. DiscountFollows' /\ UsedCodeGaveDiscount'
    BY <2>1 DEF PromoCodeTypeOK, DiscountFollows, UsedCodeGaveDiscount
  <2> QED  BY <2>2, <2>3, <2>4, <2>5
<1>5. ASSUME Refuse(u)  PROVE IInv'
  BY <1>5, LeaveKeepsInv DEF Refuse, PromoCodeTypeOK
<1> QED  BY <1>1, <1>2, <1>3, <1>4, <1>5

\* The order.
LEMMA OrderKeepsInv ==
    ASSUME IInv, NEW u \in User, (\E o \in Order : CreateOrder(u, o)) \/ ShowLink(u)
    PROVE  IInv'
<1> USE DEF IInv, PromoCodeInv
<1>1. CASE ShowLink(u)
  BY <1>1 DEF ShowLink, PromoCodeTypeOK, Pc, EntriesExclude, HoldersWithinLimit, DiscountFollows,
              UsedCodeGaveDiscount
<1>2. ASSUME NEW o \in Order, CreateOrder(u, o)  PROVE IInv'
  <2> DEFINE t == [by |-> u, promo |-> got[u] = 1, price |-> price[u], counts |-> TRUE]
  <2>1. /\ pc[u] = "create" /\ pc' = [pc EXCEPT ![u] = "message"]
        /\ order' = [order EXCEPT ![o] = t]
        /\ UNCHANGED <<active, used, at, keys, price, got, lock, faults, late>>
    BY <1>2 DEF CreateOrder
  <2>2. t \in Transaction
    BY DEF PromoCodeTypeOK, Transaction
  <2>3. t.promo => t.price = "discounted"
    BY <2>1 DEF DiscountFollows
  <2> HIDE DEF t
  <2>4. PromoCodeTypeOK'
    BY <2>1, <2>2 DEF PromoCodeTypeOK, Pc
  <2>5. EntriesExclude' /\ HoldersWithinLimit' /\ DiscountFollows'
    BY <2>1 DEF PromoCodeTypeOK, EntriesExclude, HoldersWithinLimit, DiscountFollows
  <2>6. UsedCodeGaveDiscount'
    BY <2>1, <2>3 DEF PromoCodeTypeOK, UsedCodeGaveDiscount
  <2> QED  BY <2>4, <2>5, <2>6
<1> QED  BY <1>1, <1>2

\* The nightly task, and what happens to orders.
LEMMA RestKeepsInv ==
    ASSUME IInv, Deactivate \/ (\E o \in Order : StopCounting(o) \/ CountAgain(o))
    PROVE  IInv'
<1> USE DEF IInv, PromoCodeInv
<1>1. CASE Deactivate
  <2>1. active' \subseteq active
        /\ UNCHANGED <<used, at, keys, price, pc, got, lock, order, faults, late>>
    BY <1>1 DEF Deactivate
  <2>2. PromoCodeTypeOK'
    BY <2>1 DEF PromoCodeTypeOK
  <2>3. EntriesExclude' /\ HoldersWithinLimit'
    <3>1. CASE User = {}
      <4>1. active' = active
        BY <2>1, <3>1 DEF PromoCodeTypeOK
      <4> QED  BY <2>1, <4>1 DEF EntriesExclude, HoldersWithinLimit
    <3>2. CASE User # {}
      BY <2>1, <2>2, <3>2, EntriesStay
    <3> QED  BY <3>1, <3>2
  <2>4. DiscountFollows' /\ UsedCodeGaveDiscount'
    BY <2>1 DEF DiscountFollows, UsedCodeGaveDiscount
  <2> QED  BY <2>2, <2>3, <2>4
<1>2. ASSUME NEW o \in Order, StopCounting(o) \/ CountAgain(o)  PROVE IInv'
  <2>1. order[o] \in Transaction
    BY <1>2 DEF StopCounting, CountAgain, PromoCodeTypeOK
  <2>2. PICK b \in BOOLEAN : order' = [order EXCEPT ![o] = [order[o] EXCEPT !.counts = b]]
    BY <1>2 DEF StopCounting, CountAgain
  <2> DEFINE t == [order[o] EXCEPT !.counts = b]
  <2>3. t \in Transaction /\ t.promo = order[o].promo /\ t.price = order[o].price
    BY <2>1 DEF Transaction
  <2>4. order' = [order EXCEPT ![o] = t] /\ order[o] # NoOrder
    BY <1>2, <2>2 DEF StopCounting, CountAgain
  <2> HIDE DEF t
  <2>5. UNCHANGED <<active, used, at, keys, price, pc, got, lock, faults>> /\ late' \in Nat
    BY <1>2 DEF StopCounting, CountAgain, PromoCodeTypeOK
  <2>6. PromoCodeTypeOK'
    BY <2>3, <2>4, <2>5 DEF PromoCodeTypeOK
  <2>7. EntriesExclude' /\ HoldersWithinLimit' /\ DiscountFollows'
    BY <2>5 DEF EntriesExclude, HoldersWithinLimit, DiscountFollows
  <2>8. UsedCodeGaveDiscount'
    BY <2>3, <2>4 DEF PromoCodeTypeOK, UsedCodeGaveDiscount
  <2> QED  BY <2>6, <2>7, <2>8
<1> QED  BY <1>1, <1>2

\* Every step keeps the invariant.
LEMMA StepKeepsInv == IInv /\ [Next]_vars => IInv'
<1> SUFFICES ASSUME IInv, [Next]_vars PROVE IInv'
  OBVIOUS
<1>1. ASSUME NEW u \in User, Taps(u)  PROVE IInv'
  BY <1>1, TapKeepsInv, EntryKeepsInv DEF Taps
<1>2. ASSUME NEW u \in User, Handler(u)  PROVE IInv'
  <2>1. CASE ClearPromo(u)
    BY <2>1, LeaveKeepsInv DEF ClearPromo, Go, IInv, PromoCodeInv, PromoCodeTypeOK
  <2> QED  BY <1>2, <2>1, EntryKeepsInv, OrderKeepsInv DEF Handler
<1>3. ASSUME NEW u \in User, HandlerFails(u)  PROVE IInv'
  <2>1. faults' \in Nat
    BY <1>3 DEF HandlerFails, IInv, PromoCodeInv, PromoCodeTypeOK
  <2> QED  BY <1>3, <2>1, LeaveKeepsInv DEF HandlerFails
<1>4. CASE UNCHANGED vars
  BY <1>4 DEF vars, IInv, PromoCodeInv, PromoCodeTypeOK, EntriesExclude, DiscountFollows,
              HoldersWithinLimit, UsedCodeGaveDiscount
<1> QED  BY <1>1, <1>2, <1>3, <1>4, RestKeepsInv DEF Next

\* The inductive invariant.
THEOREM PromoCodeInvariant == Spec => []IInv
BY InitInv, StepKeepsInv, PTL DEF Spec

\* handle_enter_promo: however users enter a code at the same time, no more of them have
\* it active than it may be used.
THEOREM HoldersAreLimited == Spec => []HoldersWithinLimit
<1>1. IInv => HoldersWithinLimit
  BY DEF IInv
<1> QED  BY <1>1, PromoCodeInvariant, PTL

\* An order that carries the code had the discount, whatever the nightly task and the
\* user's detours do between the keyboard and the order.
THEOREM DiscountIsGiven == Spec => []UsedCodeGaveDiscount
<1>1. IInv => UsedCodeGaveDiscount
  BY DEF IInv
<1> QED  BY <1>1, PromoCodeInvariant, PTL

-----------------------------------------------------------------------------
(* The limit for an account.                                                *)

\* A user who has the code, or is about to, and has not used it up, may still use it once.
MayUse(u) ==
    \/ u \in active /\ ~ (pc[u] \in {"message", "clear"} /\ got[u] = 1)
    \/ pc[u] \in {"count users", "save"}
    \/ pc[u] = "create" /\ got[u] = 1

LimitInv ==
    /\ IInv
    /\ \A u \in User :
          /\ Cardinality(Uses(u)) <= AccountLimit
          /\ MayUse(u) => Cardinality(Uses(u)) < AccountLimit

\* A user's uses are finitely many, and fewer uses are no more.
LEMMA UsesAreFinite ==
    ASSUME NEW u \in User
    PROVE  /\ Uses(u) \subseteq Order /\ IsFiniteSet(Uses(u)) /\ Cardinality(Uses(u)) \in Nat
           /\ \A S : S \subseteq Uses(u) =>
                 IsFiniteSet(S) /\ Cardinality(S) \in Nat /\ Cardinality(S) <= Cardinality(Uses(u))
<1>1. Uses(u) \subseteq Order
  BY DEF Uses
<1>2. IsFiniteSet(Uses(u))
  BY <1>1, PromoCodeAssumption, FS_Subset
<1> QED  BY <1>1, <1>2, FS_Subset, FS_CardinalityType

LEMMA LimitInit == Init => LimitInv
<1> SUFFICES ASSUME Init  PROVE LimitInv
  OBVIOUS
<1>1. ASSUME NEW u \in User  PROVE Cardinality(Uses(u)) = 0 /\ ~ MayUse(u)
  <2>1. Uses(u) = {}
    BY <1>1 DEF Init, Uses
  <2> QED  BY <1>1, <2>1, FS_EmptySet DEF Init, MayUse
<1> QED  BY <1>1, InitInv, PromoCodeAssumption DEF LimitInv

\* A step after which nobody uses the code more often, and nobody may use it who could not.
LEMMA NoMoreUses ==
    ASSUME LimitInv, IInv',
           \A v \in User : Uses(v)' \subseteq Uses(v),
           \A v \in User : MayUse(v)' => MayUse(v) \/ Cardinality(Uses(v)) < AccountLimit
    PROVE  LimitInv'
<1> SUFFICES ASSUME NEW v \in User
             PROVE  /\ Cardinality(Uses(v)') <= AccountLimit
                    /\ MayUse(v)' => Cardinality(Uses(v)') < AccountLimit
  BY DEF LimitInv
<1>1. /\ Cardinality(Uses(v)') \in Nat /\ Cardinality(Uses(v)) \in Nat
      /\ Cardinality(Uses(v)') <= Cardinality(Uses(v)) /\ AccountLimit \in Nat
  BY UsesAreFinite, PromoCodeAssumption
<1>2. /\ Cardinality(Uses(v)) <= AccountLimit
      /\ MayUse(v)' => Cardinality(Uses(v)) < AccountLimit
  BY DEF LimitInv
<1> QED  BY <1>1, <1>2

\* The order that carries the code is the one its user could still make.
LEMMA OrderKeepsLimit ==
    ASSUME LimitInv, IInv', NEW u \in User, NEW o \in Order, CreateOrder(u, o)
    PROVE  LimitInv'
<1> DEFINE t == [by |-> u, promo |-> got[u] = 1, price |-> price[u], counts |-> TRUE]
<1>1. /\ pc[u] = "create" /\ pc' = [pc EXCEPT ![u] = "message"]
      /\ order' = [order EXCEPT ![o] = t] /\ order[o] = NoOrder
      /\ UNCHANGED <<active, got>>
  BY DEF CreateOrder
<1>2. t.by = u /\ t.promo = (got[u] = 1)
  OBVIOUS
<1> HIDE DEF t
<1>3. /\ pc'[u] = "message" /\ (\A v \in User \ {u} : pc'[v] = pc[v])
      /\ order'[o] = t /\ (\A p \in Order \ {o} : order'[p] = order[p])
  BY <1>1 DEF LimitInv, IInv, PromoCodeInv, PromoCodeTypeOK
<1>4. ASSUME NEW v \in User \ {u}
      PROVE  Uses(v)' \subseteq Uses(v) /\ (MayUse(v)' => MayUse(v))
  <2>1. ASSUME NEW p \in Uses(v)'  PROVE p \in Uses(v)
    <3>1. p \in Order /\ order'[p] # NoOrder /\ order'[p].promo /\ order'[p].counts
          /\ order'[p].by = v
      BY <2>1 DEF Uses
    <3>2. p # o
      BY <1>2, <1>3, <3>1
    <3> QED  BY <1>3, <3>1, <3>2 DEF Uses
  <2>2. MayUse(v)' => MayUse(v)
    BY <1>1, <1>3 DEF MayUse
  <2> QED  BY <2>1, <2>2
<1>5. CASE got[u] # 1
  <2>1. Uses(u)' \subseteq Uses(u) /\ (MayUse(u)' => MayUse(u))
    BY <1>1, <1>2, <1>3, <1>5 DEF Uses, MayUse
  <2> QED  BY <1>4, <2>1, NoMoreUses
<1>6. CASE got[u] = 1
  <2>1. Uses(u)' \subseteq Uses(u) \cup {o} /\ ~ MayUse(u)'
    BY <1>1, <1>3, <1>6 DEF Uses, MayUse
  <2>2. Cardinality(Uses(u)) < AccountLimit
    BY <1>1, <1>6 DEF LimitInv, MayUse
  <2>3. Cardinality(Uses(u)') <= AccountLimit
    <3>1. IsFiniteSet(Uses(u) \cup {o})
          /\ Cardinality(Uses(u) \cup {o}) \in {Cardinality(Uses(u)), Cardinality(Uses(u)) + 1}
      BY UsesAreFinite, FS_AddElement
    <3>2. Cardinality(Uses(u)') <= Cardinality(Uses(u) \cup {o})
      BY <2>1, <3>1, FS_Subset
    <3>3. /\ Cardinality(Uses(u)) \in Nat /\ AccountLimit \in Nat
          /\ Cardinality(Uses(u)') \in Nat
      BY <2>1, <3>1, UsesAreFinite, PromoCodeAssumption, FS_Subset, FS_CardinalityType
    <3> QED  BY <2>2, <3>1, <3>2, <3>3
  <2>4. ASSUME NEW v \in User \ {u}
        PROVE  /\ Cardinality(Uses(v)') <= AccountLimit
               /\ MayUse(v)' => Cardinality(Uses(v)') < AccountLimit
    <3>1. /\ Cardinality(Uses(v)') \in Nat /\ Cardinality(Uses(v)) \in Nat
          /\ Cardinality(Uses(v)') <= Cardinality(Uses(v)) /\ AccountLimit \in Nat
      BY <1>4, UsesAreFinite, PromoCodeAssumption
    <3>2. Cardinality(Uses(v)) <= AccountLimit /\ (MayUse(v)' => Cardinality(Uses(v)) < AccountLimit)
      BY <1>4 DEF LimitInv
    <3> QED  BY <3>1, <3>2
  <2> QED  BY <2>1, <2>3, <2>4 DEF LimitInv
<1> QED  BY <1>5, <1>6

\* Every step keeps it where no handler fails and no cancelled order is paid.
LEMMA StepKeepsLimit ==
    ASSUME LimitInv, MaxFaults = 0, MaxLate = 0, [Next]_vars
    PROVE  LimitInv'
<1> USE DEF IInv, PromoCodeInv
<1>1. IInv'
  BY StepKeepsInv DEF LimitInv
<1>2. faults \in Nat /\ late \in Nat /\ pc \in [User -> Pc] /\ got \in [User -> Nat]
  BY DEF LimitInv, PromoCodeTypeOK
<1>3. CASE UNCHANGED vars
  BY <1>1, <1>3, NoMoreUses DEF vars, Uses, MayUse
<1>4. ASSUME NEW u \in User, Taps(u)  PROVE LimitInv'
  <2>1. order' = order
    BY <1>4 DEF Taps, ShowPaymentMethods, AskForPromo, CancelPromo, ChoosePaymentMethod, Enter,
                Confirm
  <2>2. \A v \in User : MayUse(v)' => MayUse(v)
    <3>1. CASE Confirm(u)
      <4>1. /\ pc' = [pc EXCEPT ![u] = "create"] /\ active' = active
            /\ got' = [got EXCEPT ![u] = IF u \in active THEN 1 ELSE 0] /\ pc[u] = "idle"
        BY <3>1 DEF Confirm
      <4>2. /\ pc'[u] = "create" /\ (got'[u] = 1 => u \in active)
            /\ \A v \in User \ {u} : pc'[v] = pc[v] /\ got'[v] = got[v]
        BY <1>2, <4>1
      <4> QED  BY <4>1, <4>2 DEF MayUse
    <3>2. CASE Enter(u)
      BY <1>2, <3>2 DEF Enter, MayUse
    <3>3. CASE ShowPaymentMethods(u) \/ AskForPromo(u) \/ CancelPromo(u) \/ ChoosePaymentMethod(u)
      BY <3>3 DEF ShowPaymentMethods, AskForPromo, CancelPromo, ChoosePaymentMethod, MayUse
    <3> QED  BY <1>4, <3>1, <3>2, <3>3 DEF Taps
  <2> QED  BY <1>1, <2>1, <2>2, NoMoreUses DEF Uses
<1>5. ASSUME NEW u \in User, CountOrders(u)  PROVE LimitInv'
  <2>1. order' = order /\ active' = active
    BY <1>5 DEF CountOrders, Refuse
  <2>2. CASE Cardinality(Uses(u)) >= AccountLimit
    <3>1. \A v \in User : MayUse(v)' => MayUse(v)
      BY <1>2, <1>5, <2>1, <2>2 DEF CountOrders, Refuse, Leave, MayUse
    <3> QED  BY <1>1, <2>1, <3>1, NoMoreUses DEF Uses
  <2>3. CASE ~ (Cardinality(Uses(u)) >= AccountLimit)
    <3>1. Cardinality(Uses(u)) < AccountLimit
      BY <2>3, UsesAreFinite, PromoCodeAssumption
    <3>2. \A v \in User \ {u} : MayUse(v)' => MayUse(v)
      BY <1>2, <1>5, <2>1, <2>3 DEF CountOrders, MayUse
    <3> QED  BY <1>1, <2>1, <3>1, <3>2, NoMoreUses DEF Uses
  <2> QED  BY <2>2, <2>3
<1>6. ASSUME NEW u \in User, CountUsers(u) \/ Activate(u) \/ ShowLink(u) \/ ClearPromo(u)
      PROVE  LimitInv'
  <2>1. order' = order
    BY <1>6 DEF CountUsers, Refuse, Activate, ShowLink, ClearPromo
  <2>2. \A v \in User : MayUse(v)' => MayUse(v)
    <3>1. CASE CountUsers(u)
      BY <1>2, <3>1 DEF CountUsers, Refuse, Leave, MayUse
    <3>2. CASE Activate(u)
      BY <1>2, <3>2 DEF Activate, Leave, MayUse
    <3>3. CASE ShowLink(u)
      BY <1>2, <3>3 DEF ShowLink, MayUse
    <3>4. CASE ClearPromo(u)
      BY <1>2, <3>4 DEF ClearPromo, Leave, MayUse
    <3> QED  BY <1>6, <3>1, <3>2, <3>3, <3>4
  <2> QED  BY <1>1, <2>1, <2>2, NoMoreUses DEF Uses
<1>7. ASSUME NEW u \in User, HandlerFails(u)  PROVE FALSE
  BY <1>2, <1>7 DEF HandlerFails
<1>8. CASE Deactivate
  BY <1>1, <1>8, NoMoreUses DEF Deactivate, Uses, MayUse
<1>9. ASSUME NEW o \in Order, StopCounting(o)  PROVE LimitInv'
  <2>1. \A v \in User : Uses(v)' \subseteq Uses(v)
    <3>1. /\ order[o] # NoOrder /\ order[o].counts
          /\ order' = [order EXCEPT ![o] = [order[o] EXCEPT !.counts = FALSE]]
      BY <1>9 DEF StopCounting
    <3>2. order[o] \in Transaction /\ order \in [Order -> Transaction \cup {NoOrder}]
      BY <3>1 DEF LimitInv, PromoCodeTypeOK
    <3>3. order'[o].counts = FALSE /\ (\A p \in Order \ {o} : order'[p] = order[p])
      BY <3>1, <3>2 DEF Transaction
    <3> QED  BY <3>3 DEF Uses
  <2> QED  BY <1>1, <1>9, <2>1, NoMoreUses DEF StopCounting, MayUse
<1>10. ASSUME NEW o \in Order, CountAgain(o)  PROVE FALSE
  BY <1>2, <1>10 DEF CountAgain
<1>11. ASSUME NEW u \in User, Handler(u)  PROVE LimitInv'
  BY <1>1, <1>5, <1>6, <1>11, OrderKeepsLimit DEF Handler
<1> QED  BY <1>3, <1>4, <1>7, <1>8, <1>9, <1>10, <1>11 DEF Next

\* models.py:39: where no handler fails midway and no cancelled order is paid, a user's
\* orders that count stay within usage_account, however many users enter, order and lose
\* the code at the same time.
THEOREM AccountsAreLimited ==
    ASSUME MaxFaults = 0, MaxLate = 0
    PROVE  Spec => []AccountLimitKept
<1>1. Init => LimitInv
  BY LimitInit
<1>2. LimitInv /\ [Next]_vars => LimitInv'
  BY StepKeepsLimit
<1>3. LimitInv => AccountLimitKept
  BY DEF LimitInv, AccountLimitKept
<1> QED  BY <1>1, <1>2, <1>3, PTL DEF Spec
=============================================================================
