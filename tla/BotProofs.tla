------------------------------ MODULE BotProofs ------------------------------
(***************************************************************************)
(* Proofs about MCBot: the dialogue of a user with the bot, for any        *)
(* numbers of stars, receivers, messages, failures and moves; and the two  *)
(* instances of the promo code, which PromoCodeProofs is about.            *)
(*                                                                         *)
(* The invariant of the dialogue, DialogueInv, relates the state of the    *)
(* conversation, the draft of the order and what the active message shows, *)
(* because each of them is changed without the others: a handler that      *)
(* raises leaves the state, a tap on "back" takes the state from the       *)
(* screen, a text is read in whatever state there is. It says (Fits) that  *)
(* the draft has what the state relies on, that the screen tells the       *)
(* draft, that a button leads only where the draft may go; and (WayOn)     *)
(* that while nothing failed the screen has a way on.                      *)
(*                                                                         *)
(* A handler is shown to keep it in three steps: what it sends, edits or   *)
(* deletes (SendFacts, DeleteFacts, PutFacts), what the user sees then,    *)
(* also when Telegram fails halfway (Drawn), and that this fits the draft  *)
(* it has left (DrawnKeeps). Along with it goes what happens to links:     *)
(* they stay (LinksKept), but where the order is confirmed, and then the   *)
(* link says what was shown (OrderShown).                                  *)
(***************************************************************************)
EXTENDS MCBot, PromoCodeProofs

-----------------------------------------------------------------------------
(* The dialogue (Conversation).                                             *)

\* What the user sees in the active message.
Shown == IF activeMessage = 0 THEN C!Gone ELSE screen[activeMessage]

Kind == {"gone", "main menu", "info", "support", "profile", "history", "quantity",
         "custom quantity", "large order", "recipient", "username", "promo", "creating",
         "no link", "subscribe", "payment", "confirmation", "order", "status"}
SomeScreen == [what: Kind, dest: C!State \cup {""}, quantity: Quantity \cup {0},
               price: Quantity \cup {0}, target: Friend \cup {Self}]

ChatTypeOK ==
    /\ state \in C!State /\ draft \in C!Draft
    /\ sent \in 0..MaxMessages /\ activeMessage \in 0..sent
    /\ expired \subseteq C!Message
    /\ screen \in [C!Message -> SomeScreen]
    /\ member \in BOOLEAN
    /\ failures \in Nat /\ moves \in Nat

\* A draft that has a receiver, or is for oneself; one that may be ordered.
Belongs(d) ==
    \/ d.mode = "SELF" /\ d.target = Self
    \/ d.mode = "GIFT" /\ d.target # Self
Complete(d) == d.quantity # 0 /\ d.price = d.quantity /\ Belongs(d)

\* The draft has what the state relies on, and where a text changes it the screen does
\* not depend on it.
StateFits(st, d, shown, seen) ==
    /\ st \in {"CHOOSE_PAYMENT", "ENTER_PROMO"} /\ d.quantity # 0 => Belongs(d)
    /\ st = "ORDER_CONFIRMATION" /\ shown => Complete(d)
    /\ st = "ENTER_GIFT_USERNAME" =>
          /\ d.quantity # 0 => d.mode = "GIFT"
          /\ seen \in {C!EnterUsername, C!Recipients, C!Quantities, C!Gone}
    /\ st = "CUSTOM_QUANTITY_INPUT" => seen \in {C!EnterCustomQuantity, C!Quantities, C!Gone}
    /\ seen.what \in {"order", "status"} => st \in {"none", "ORDER_CONFIRMED"}

\* The screen tells the draft, and its button leads where the draft may go.
ScreenFits(d, seen) ==
    /\ seen.what = "payment" =>
          seen = C!PaymentMethods(d) /\ d.quantity # 0 /\ Belongs(d)
    /\ seen.what = "promo" /\ d.quantity # 0 => Belongs(d)
    /\ seen.what = "confirmation" => seen = C!Confirmation(d) /\ Complete(d)
    /\ seen.what = "subscribe" =>
          /\ seen.dest = "ENTER_GIFT_USERNAME" /\ d.quantity # 0 => d.mode = "GIFT"
          /\ seen.dest \in {"CHOOSE_PAYMENT", "ENTER_PROMO"} /\ d.quantity # 0 => Belongs(d)
          /\ seen.dest = "ORDER_CONFIRMATION" => Complete(d)
    /\ seen.dest = "ENTER_GIFT_USERNAME" => seen.what \in {"payment", "subscribe"}
    /\ seen.dest = "CHOOSE_PAYMENT" => seen.what \in {"promo", "confirmation", "subscribe"}

Fits(st, d, shown, seen) == StateFits(st, d, shown, seen) /\ ScreenFits(d, seen)

\* The screen has a way on from the state.
WayOn(st, seen) ==
    \/ C!TakesText(st) \/ st \in {"none", "ORDER_CONFIRMED"}
    \/ C!HasBack(seen)
    \/ st = "MAIN_MENU" /\ seen.what = "main menu"
    \/ st = "NOT_SUBSCRIBED" /\ seen.what = "subscribe"

DialogueInv ==
    /\ ChatTypeOK
    /\ Fits(state, draft, activeMessage # 0, Shown)
    /\ failures = 0 => WayOn(state, Shown)

-----------------------------------------------------------------------------
(* Screens and buttons.                                                     *)

LEMMA ScreenTypes ==
    /\ {C!Gone, C!MainMenu, C!Info, C!Support, C!Profile, C!History, C!Quantities, C!EnterCustomQuantity, C!LargeOrder,
        C!Recipients, C!EnterUsername, C!EnterPromo, C!Creating, C!NoLink, C!Plain("status", "")}
          \subseteq SomeScreen
    /\ \A dest \in C!State : C!Subscribe(dest) \in SomeScreen
    /\ \A d \in C!Draft : {C!PaymentMethods(d), C!Confirmation(d), C!OrderLink(d)} \subseteq SomeScreen
<1>1. \A what \in Kind, dest \in C!State \cup {""}, q, p \in Quantity \cup {0}, t \in Friend \cup {Self} :
        C!Screen(what, dest, q, p, t) \in SomeScreen
  BY DEF C!Screen, SomeScreen
<1>2. \A what \in Kind, dest \in C!State \cup {""} : C!Plain(what, dest) \in SomeScreen
  BY <1>1 DEF C!Plain
<1>3. {C!Gone, C!MainMenu, C!Info, C!Support, C!Profile, C!History, C!Quantities, C!EnterCustomQuantity} \subseteq SomeScreen
  BY <1>2 DEF C!Gone, C!MainMenu, C!Info, C!Support, C!Profile, C!History, C!Quantities, C!EnterCustomQuantity, Kind, C!State
<1>4. {C!LargeOrder, C!Recipients, C!EnterUsername, C!EnterPromo, C!Creating, C!NoLink, C!Plain("status", "")}
          \subseteq SomeScreen
  BY <1>2 DEF C!LargeOrder, C!Recipients, C!EnterUsername, C!EnterPromo, C!Creating, C!NoLink, Kind, C!State
<1>5. \A dest \in C!State : C!Subscribe(dest) \in SomeScreen
  BY <1>2 DEF C!Subscribe, Kind
<1>6. ASSUME NEW d \in C!Draft
      PROVE  {C!PaymentMethods(d), C!Confirmation(d), C!OrderLink(d)} \subseteq SomeScreen
  <2>1. d.quantity \in Quantity \cup {0} /\ d.price \in Quantity \cup {0} /\ d.target \in Friend \cup {Self}
    BY DEF C!Draft
  <2>2. {"CHOOSE_RECIPIENT", "ENTER_GIFT_USERNAME", "CHOOSE_PAYMENT"} \subseteq C!State
        /\ {"payment", "confirmation", "order"} \subseteq Kind
    BY DEF C!State, Kind
  <2>3. (IF d.target = Self THEN "CHOOSE_RECIPIENT" ELSE "ENTER_GIFT_USERNAME") \in C!State \cup {""}
    BY <2>2
  <2>4. C!PaymentMethods(d) \in SomeScreen
    BY <1>1, <2>1, <2>2, <2>3 DEF C!PaymentMethods
  <2>5. C!Confirmation(d) \in SomeScreen /\ C!OrderLink(d) \in SomeScreen
    BY <1>1, <2>1, <2>2 DEF C!Confirmation, C!OrderLink
  <2> QED  BY <2>4, <2>5
<1> QED  BY <1>3, <1>4, <1>5, <1>6

\* What is on the screens that do not depend on the draft.
LEMMA PlainScreens ==
    /\ C!Gone.what = "gone" /\ C!Gone.dest = ""
    /\ C!MainMenu.what = "main menu" /\ C!MainMenu.dest = ""
    /\ C!Info.what = "info" /\ C!Info.dest = "MAIN_MENU"
    /\ C!Support.what = "support" /\ C!Support.dest = "MAIN_MENU"
    /\ C!Profile.what = "profile" /\ C!Profile.dest = "MAIN_MENU"
    /\ C!History.what = "history" /\ C!History.dest = "PROFILE"
    /\ C!Quantities.what = "quantity" /\ C!Quantities.dest = "MAIN_MENU"
    /\ C!EnterCustomQuantity.what = "custom quantity" /\ C!EnterCustomQuantity.dest = "CHOOSE_QUANTITY"
    /\ C!LargeOrder.what = "large order" /\ C!LargeOrder.dest = "CUSTOM_QUANTITY_INPUT"
    /\ C!Recipients.what = "recipient" /\ C!Recipients.dest = "CHOOSE_QUANTITY"
    /\ C!EnterUsername.what = "username" /\ C!EnterUsername.dest = "CHOOSE_RECIPIENT"
    /\ C!EnterPromo.what = "promo" /\ C!EnterPromo.dest = "CHOOSE_PAYMENT"
    /\ C!Creating.what = "creating" /\ C!Creating.dest = ""
    /\ C!NoLink.what = "no link" /\ C!NoLink.dest = "MAIN_MENU"
    /\ C!Plain("status", "").what = "status" /\ C!Plain("status", "").dest = ""
    /\ \A dest : C!Subscribe(dest).what = "subscribe" /\ C!Subscribe(dest).dest = dest
BY DEF C!Gone, C!MainMenu, C!Info, C!Support, C!Profile, C!History, C!Quantities, C!EnterCustomQuantity, C!LargeOrder,
       C!Recipients, C!EnterUsername, C!EnterPromo, C!Creating, C!NoLink, C!Subscribe, C!Plain, C!Screen

\* Which state handles a button, and which screen has it.
LEMMA Handled ==
    ASSUME NEW st \in C!State, NEW b, b \in C!Handles(st)
    PROVE  /\ b \in {"buy", "info", "support", "profile"} => st = "MAIN_MENU"
           /\ b \in {"history", "page"} => st \in {"PROFILE", "ORDER_HISTORY"}
           /\ b \in {"fixed", "custom"} => st = "CHOOSE_QUANTITY"
           /\ b \in {"self", "gift"} => st = "CHOOSE_RECIPIENT"
           /\ b \in {"method", "promo"} => st = "CHOOSE_PAYMENT"
           /\ b = "cancel promo" => st = "ENTER_PROMO"
           /\ b = "confirm" => st = "ORDER_CONFIRMATION"
           /\ b = "subscribed" => st = "NOT_SUBSCRIBED"
           /\ b = "repeat" => st \in {"none", "ORDER_CONFIRMED"}
BY DEF C!State, C!Handles

LEMMA OnScreen ==
    ASSUME NEW x \in SomeScreen, NEW b, b \in C!Button(x)
    PROVE  /\ x.what \in {"main menu", "profile", "history", "quantity", "recipient", "payment",
                          "promo", "confirmation", "subscribe", "status"}
           /\ b \in {"fixed", "custom"} => x.what = "quantity"
           /\ b \in {"self", "gift"} => x.what = "recipient"
           /\ b \in {"method", "promo"} => x.what = "payment"
           /\ b = "confirm" => x.what = "confirmation"
           /\ b = "subscribed" => x.what = "subscribe"
BY DEF SomeScreen, Kind, C!Button

-----------------------------------------------------------------------------
(* Rendering.                                                               *)

\* Messages are left, show s, or are among those that are deleted.
Painted(s, drop) ==
    \A k \in C!Message :
        \/ screen'[k] \in {screen[k], s}
        \/ k \in drop /\ screen'[k] = C!Gone

CanvasOK ==
    /\ sent \in 0..MaxMessages /\ activeMessage \in 0..sent
    /\ expired \subseteq C!Message
    /\ screen \in [C!Message -> SomeScreen]

\* The active message is one that was sent.
LEMMA ActiveIsMessage ==
    ASSUME ChatTypeOK, activeMessage # 0
    PROVE  activeMessage \in C!Message /\ Shown = screen[activeMessage] /\ Shown \in SomeScreen
<1>1. MaxMessages \in Nat /\ sent \in 0..MaxMessages /\ activeMessage \in 0..sent
  BY BotAssumption DEF C!ConversationAssumption, ChatTypeOK
<1>2. activeMessage \in 1..MaxMessages
  BY <1>1
<1> QED  BY <1>2 DEF C!Message, Shown, ChatTypeOK

\* The message with s is sent.
LEMMA SendFacts ==
    ASSUME ChatTypeOK, NEW s \in SomeScreen, NEW drop, drop \subseteq {activeMessage}, C!Send(s, drop)
    PROVE  /\ sent' = sent + 1 /\ sent' \in C!Message /\ sent' \in 0..MaxMessages
           /\ sent' \in 1..sent' /\ activeMessage \in 0..sent'
           /\ expired' \subseteq C!Message
           /\ screen' \in [C!Message -> SomeScreen]
           /\ screen'[sent'] = s
           /\ Painted(s, drop)
           /\ activeMessage # 0 => screen'[activeMessage] \in {screen[activeMessage], C!Gone}
<1>1. sent' = sent + 1 /\ sent < MaxMessages /\ sent \in 0..MaxMessages /\ activeMessage \in 0..sent
  BY DEF C!Send, ChatTypeOK
<1>2. MaxMessages \in Nat
  BY BotAssumption DEF C!ConversationAssumption
<1>3. /\ sent' \in 1..MaxMessages /\ sent' \in 0..MaxMessages /\ sent' \in 1..sent'
      /\ activeMessage \in 0..sent' /\ activeMessage # sent + 1
      /\ activeMessage # 0 => activeMessage \in 1..MaxMessages
  BY <1>1, <1>2
<1>4. screen' = [m \in C!Message |-> CASE m = sent + 1 -> s
                                      [] m \in drop   -> C!Gone
                                      [] OTHER        -> screen[m]]
  BY DEF C!Send
<1>5. ASSUME NEW k \in C!Message
      PROVE  /\ k = sent + 1 => screen'[k] = s
             /\ k # sent + 1 => screen'[k] = screen[k] \/ (k \in drop /\ screen'[k] = C!Gone)
  <2>1. k = sent + 1 => k \notin drop
    BY <1>3
  <2>2. screen'[k] = CASE k = sent + 1 -> s
                       [] k \in drop   -> C!Gone
                       [] OTHER        -> screen[k]
    BY <1>4
  <2> QED  BY <2>1, <2>2
<1>6. sent' \in C!Message /\ (activeMessage # 0 => activeMessage \in C!Message)
  BY <1>3 DEF C!Message
<1>7. screen \in [C!Message -> SomeScreen] /\ C!Gone \in SomeScreen
  BY ScreenTypes DEF ChatTypeOK
<1>8. screen' \in [C!Message -> SomeScreen]
  <2>1. \A k \in C!Message : screen'[k] \in SomeScreen
    BY <1>5, <1>7
  <2> QED  BY <1>4, <2>1
<1>9. expired' \subseteq C!Message
  BY DEF C!Send, ChatTypeOK
<1>10. screen'[sent'] = s
  BY <1>1, <1>5, <1>6
<1>11. activeMessage # 0 => screen'[activeMessage] \in {screen[activeMessage], C!Gone}
  BY <1>3, <1>5, <1>6
<1>12. Painted(s, drop)
  BY <1>5 DEF Painted
<1> QED  BY <1>1, <1>3, <1>6, <1>8, <1>9, <1>10, <1>11, <1>12

\* Messages are deleted.
LEMMA DeleteFacts ==
    ASSUME ChatTypeOK, NEW s, NEW drop, C!Delete(drop)
    PROVE  /\ sent' = sent /\ expired' = expired
           /\ screen' \in [C!Message -> SomeScreen]
           /\ Painted(s, drop)
           /\ activeMessage # 0 => screen'[activeMessage] \in {screen[activeMessage], C!Gone}
           /\ activeMessage # 0 /\ activeMessage \in drop => screen'[activeMessage] = C!Gone
<1>1. screen \in [C!Message -> SomeScreen] /\ C!Gone \in SomeScreen
  BY ScreenTypes DEF ChatTypeOK
<1>2. activeMessage # 0 => activeMessage \in C!Message
  BY ActiveIsMessage
<1>3. screen' = [m \in C!Message |-> IF m \in drop THEN C!Gone ELSE screen[m]]
      /\ sent' = sent /\ expired' = expired
  BY DEF C!Delete
<1> QED  BY <1>1, <1>2, <1>3 DEF Painted

\* The active message, which was tapped, is edited or replaced.
LEMMA PutFacts ==
    ASSUME ChatTypeOK, activeMessage # 0, NEW s \in SomeScreen, C!Put(activeMessage, s)
    PROVE  /\ sent' \in 0..MaxMessages /\ activeMessage \in 0..sent'
           /\ C!Newest(activeMessage) \in 1..sent'
           /\ expired' \subseteq C!Message
           /\ screen' \in [C!Message -> SomeScreen]
           /\ screen'[C!Newest(activeMessage)] = s
           /\ Painted(s, {activeMessage})
           /\ screen'[activeMessage] \in {screen[activeMessage], C!Gone, s}
<1>1. activeMessage \in C!Message
  BY ActiveIsMessage
<1>2. CASE C!Send(s, {activeMessage})
  <2>1. sent' = sent + 1 /\ sent \in Nat /\ activeMessage \in Nat
    BY <1>2, SendFacts DEF ChatTypeOK
  <2>2. sent' > sent
    BY <2>1
  <2>3. C!Newest(activeMessage) = sent'
    BY <2>2 DEF C!Newest
  <2> QED  BY <1>2, <2>3, SendFacts
<1>3. CASE screen' = [screen EXCEPT ![activeMessage] = s] /\ expired' = expired \ {activeMessage} /\ sent' = sent
  <2>1. sent \in 0..MaxMessages /\ activeMessage \in 0..sent /\ sent \in Nat /\ MaxMessages \in Nat
    BY BotAssumption DEF ChatTypeOK, C!ConversationAssumption
  <2>2. C!Newest(activeMessage) = activeMessage
    BY <1>3, <2>1 DEF C!Newest
  <2>3. activeMessage \in 1..sent
    BY <2>1
  <2>4. screen' \in [C!Message -> SomeScreen] /\ screen'[activeMessage] = s /\ expired' \subseteq C!Message
    BY <1>1, <1>3 DEF ChatTypeOK
  <2>5. Painted(s, {activeMessage})
    BY <1>1, <1>3 DEF Painted, ChatTypeOK
  <2> QED  BY <1>3, <2>1, <2>2, <2>3, <2>4, <2>5
<1> QED  BY <1>2, <1>3 DEF C!Put

\* A handler has shown s, or has failed and may have shown one of "halfway".
Drawn(s, next, was, drop, halfway) ==
    /\ CanvasOK' /\ Painted(s, drop)
    /\ \/ state' = next /\ activeMessage' # 0 /\ Shown' = s /\ failures' = failures
       \/ /\ state' = state /\ activeMessage' = was /\ failures' \in Nat \ {0}
          /\ Shown' \in IF was = 0 THEN {C!Gone} ELSE {Shown, C!Gone} \cup halfway

LEMMA FaultCounts == ChatTypeOK /\ C!Fault => failures' \in Nat \ {0}
<1> SUFFICES ASSUME ChatTypeOK, C!Fault  PROVE failures' \in Nat \ {0}
  OBVIOUS
<1>1. failures \in Nat /\ failures' = failures + 1
  BY DEF ChatTypeOK, C!Fault
<1> QED  BY <1>1

LEMMA ShowDraws ==
    ASSUME ChatTypeOK, activeMessage # 0, NEW s \in SomeScreen, NEW next, NEW was \in {0, activeMessage},
           C!Show(activeMessage, s, next, was)
    PROVE  Drawn(s, next, was, {activeMessage}, {s})
<1>1. CASE C!Put(activeMessage, s) /\ activeMessage' = C!Newest(activeMessage) /\ state' = next /\ UNCHANGED failures
  <2>1. /\ sent' \in 0..MaxMessages /\ activeMessage' \in 1..sent' /\ expired' \subseteq C!Message
        /\ screen' \in [C!Message -> SomeScreen] /\ screen'[activeMessage'] = s /\ Painted(s, {activeMessage})
    BY <1>1, PutFacts
  <2>2. activeMessage' # 0 /\ activeMessage' \in 0..sent'
    BY <2>1
  <2> QED  BY <1>1, <2>1, <2>2 DEF Drawn, CanvasOK, Shown
<1>2. CASE /\ C!Fault /\ activeMessage' = was /\ state' = state
           /\ C!NoScreen \/ C!Delete({activeMessage}) \/ C!Put(activeMessage, s)
  <2>1. /\ sent' \in 0..MaxMessages /\ activeMessage \in 0..sent' /\ 0 \in 0..sent'
        /\ expired' \subseteq C!Message /\ screen' \in [C!Message -> SomeScreen] /\ Painted(s, {activeMessage})
        /\ screen'[activeMessage] \in {screen[activeMessage], C!Gone, s}
    <3>1. sent \in 0..MaxMessages /\ activeMessage \in 0..sent /\ expired \subseteq C!Message
          /\ screen \in [C!Message -> SomeScreen]
      BY DEF ChatTypeOK
    <3>2. CASE C!NoScreen
      BY <3>1, <3>2 DEF C!NoScreen, Painted
    <3>3. CASE C!Delete({activeMessage})
      BY <3>1, <3>3, DeleteFacts
    <3>4. CASE C!Put(activeMessage, s)
      BY <3>4, PutFacts
    <3> QED  BY <1>2, <3>2, <3>3, <3>4
  <2>2. failures' \in Nat \ {0}
    BY <1>2, FaultCounts
  <2> QED  BY <1>2, <2>1, <2>2 DEF Drawn, CanvasOK, Shown
<1> QED  BY <1>1, <1>2 DEF C!Show

LEMMA ShowBelowDraws ==
    ASSUME ChatTypeOK, NEW s \in SomeScreen, NEW next, NEW was \in {0, activeMessage},
           NEW drop, drop \subseteq {activeMessage}, C!ShowBelow(s, drop, next, was)
    PROVE  Drawn(s, next, was, drop, {})
<1>1. CASE C!Send(s, drop) /\ activeMessage' = sent' /\ state' = next /\ UNCHANGED failures
  <2>1. /\ sent' \in 0..MaxMessages /\ activeMessage' \in 1..sent' /\ expired' \subseteq C!Message
        /\ screen' \in [C!Message -> SomeScreen] /\ screen'[activeMessage'] = s /\ Painted(s, drop)
    BY <1>1, SendFacts
  <2>2. activeMessage' # 0 /\ activeMessage' \in 0..sent'
    BY <2>1
  <2> QED  BY <1>1, <2>1, <2>2 DEF Drawn, CanvasOK, Shown
<1>2. CASE /\ C!Fault /\ activeMessage' = was /\ state' = state
           /\ C!NoScreen \/ C!Delete(drop) \/ C!Send(s, drop)
  <2>1. /\ sent' \in 0..MaxMessages /\ activeMessage \in 0..sent' /\ 0 \in 0..sent'
        /\ expired' \subseteq C!Message /\ screen' \in [C!Message -> SomeScreen] /\ Painted(s, drop)
        /\ activeMessage # 0 => screen'[activeMessage] \in {screen[activeMessage], C!Gone}
    <3>1. sent \in 0..MaxMessages /\ activeMessage \in 0..sent /\ expired \subseteq C!Message
          /\ screen \in [C!Message -> SomeScreen]
      BY DEF ChatTypeOK
    <3>2. CASE C!NoScreen
      BY <3>1, <3>2 DEF C!NoScreen, Painted
    <3>3. CASE C!Delete(drop)
      BY <3>1, <3>3, DeleteFacts
    <3>4. CASE C!Send(s, drop)
      BY <3>4, SendFacts
    <3> QED  BY <1>2, <3>2, <3>3, <3>4
  <2>2. failures' \in Nat \ {0}
    BY <1>2, FaultCounts
  <2> QED  BY <1>2, <2>1, <2>2 DEF Drawn, CanvasOK, Shown
<1> QED  BY <1>1, <1>2 DEF C!ShowBelow

-----------------------------------------------------------------------------
(* What suits every draft.                                                  *)

\* Screens of which no draft is asked anything, and states of which none is.
Neutral(x) ==
    /\ x.what \notin {"payment", "promo", "confirmation", "subscribe", "order", "status"}
    /\ x.dest \notin {"ENTER_GIFT_USERNAME", "CHOOSE_PAYMENT"}
AsksNothing(st) ==
    st \notin {"CHOOSE_PAYMENT", "ENTER_PROMO", "ORDER_CONFIRMATION", "ENTER_GIFT_USERNAME",
               "CUSTOM_QUANTITY_INPUT"}

LEMMA NeutralScreens ==
    \A x \in {C!Gone, C!MainMenu, C!Info, C!Support, C!Profile, C!History, C!Quantities, C!EnterCustomQuantity,
              C!LargeOrder, C!Recipients, C!EnterUsername, C!Creating, C!NoLink} :
        Neutral(x) /\ x.what # "order"
BY PlainScreens DEF Neutral

LEMMA NeutralFits ==
    ASSUME NEW st, NEW d, NEW shown, NEW x, Neutral(x), AsksNothing(st)
    PROVE  Fits(st, d, shown, x)
BY DEF Neutral, AsksNothing, Fits, StateFits, ScreenFits

\* A screen without prices suits another draft as well as this one.
LEMMA FitsAgain ==
    ASSUME NEW st, NEW d, NEW e, NEW shown, NEW x, AsksNothing(st), Fits(st, d, shown, x),
           x.what \notin {"payment", "promo", "confirmation", "subscribe"}
    PROVE  Fits(st, e, shown, x)
BY DEF AsksNothing, Fits, StateFits, ScreenFits

LEMMA GoneFits ==
    ASSUME NEW st, NEW d, NEW shown, NEW x, Fits(st, d, shown, x)
    PROVE  Fits(st, d, shown, C!Gone)
BY PlainScreens DEF Fits, StateFits, ScreenFits

LEMMA EmptyFits ==
    ASSUME NEW st
    PROVE  /\ C!EmptyDraft \in C!Draft
           /\ Fits(st, C!EmptyDraft, FALSE, C!Gone)
           /\ AsksNothing(st) => Fits(st, C!EmptyDraft, TRUE, C!MainMenu) /\ Fits(st, C!EmptyDraft, TRUE, C!Quantities)
<1>1. C!EmptyDraft \in C!Draft /\ C!EmptyDraft.quantity = 0
  BY DEF C!EmptyDraft, C!Draft
<1>2. Fits(st, C!EmptyDraft, FALSE, C!Gone)
  BY <1>1, PlainScreens DEF Fits, StateFits, ScreenFits
<1>3. AsksNothing(st) => Fits(st, C!EmptyDraft, TRUE, C!MainMenu) /\ Fits(st, C!EmptyDraft, TRUE, C!Quantities)
  BY NeutralFits, NeutralScreens
<1> QED  BY <1>1, <1>2, <1>3

\* A message is shown as before, or what it shows is no order's link; a link is not
\* deleted, but by the detour of who left the channel.
LinksKept ==
    \A k \in C!Message :
        \/ screen'[k] = screen[k]
        \/ screen'[k].what \notin {"order", "gone"}
        \/ screen'[k].what = "gone" /\ (screen[k].what # "order" \/ ~member)

\* A handler that draws s keeps the invariant when s fits the state and the draft that
\* it ends with, and when what is left halfway fits the old state and that draft.
LEMMA DrawnKeeps ==
    ASSUME DialogueInv, NEW s \in SomeScreen, NEW next \in C!State, NEW was \in {0, activeMessage},
           NEW drop, NEW halfway, drop \subseteq {activeMessage},
           Drawn(s, next, was, drop, halfway),
           draft' \in C!Draft, member' = member, moves' = moves,
           Fits(next, draft', TRUE, s), WayOn(next, s), s.what \notin {"order", "gone"},
           drop # {} => Shown.what # "order" \/ ~member,
           \A x \in IF was = 0 THEN {C!Gone} ELSE {Shown, C!Gone} \cup halfway :
              Fits(state, draft', was # 0, x)
    PROVE  DialogueInv' /\ LinksKept
<1>1. ChatTypeOK /\ Painted(s, drop) /\ CanvasOK'
  BY DEF DialogueInv, Drawn
<1>2. LinksKept
  <2>1. ASSUME NEW k \in C!Message, k \in drop
        PROVE  screen[k].what # "order" \/ ~member
    <3>1. k = activeMessage /\ drop # {}
      BY <2>1
    <3>2. activeMessage # 0
      BY <3>1, BotAssumption DEF C!Message, C!ConversationAssumption
    <3> QED  BY <3>1, <3>2, <1>1, ActiveIsMessage
  <2> QED  BY <1>1, <2>1, PlainScreens DEF Painted, LinksKept
<1>3. CASE state' = next /\ activeMessage' # 0 /\ Shown' = s /\ failures' = failures
  <2>1. ChatTypeOK'
    BY <1>1, <1>3 DEF ChatTypeOK, CanvasOK
  <2>2. Fits(state', draft', activeMessage' # 0, Shown')
    <3>1. (activeMessage' # 0) = TRUE
      BY <1>3
    <3> QED  BY <1>3, <3>1
  <2>3. WayOn(state', Shown')
    BY <1>3
  <2> QED  BY <1>2, <2>1, <2>2, <2>3 DEF DialogueInv
<1>4. CASE /\ state' = state /\ activeMessage' = was /\ failures' \in Nat \ {0}
           /\ Shown' \in IF was = 0 THEN {C!Gone} ELSE {Shown, C!Gone} \cup halfway
  <2>1. ChatTypeOK'
    BY <1>1, <1>4 DEF ChatTypeOK, CanvasOK
  <2>2. Fits(state', draft', activeMessage' # 0, Shown')
    BY <1>4
  <2> QED  BY <1>2, <1>4, <2>1, <2>2 DEF DialogueInv
<1> QED  BY <1>3, <1>4 DEF Drawn

\* When the draft stays.
LEMMA DrawnForSameDraft ==
    ASSUME DialogueInv, NEW s \in SomeScreen, NEW next \in C!State, NEW drop, NEW halfway,
           drop \subseteq {activeMessage}, halfway \subseteq {s}, Drawn(s, next, activeMessage, drop, halfway),
           draft' = draft, member' = member, moves' = moves,
           Fits(next, draft, TRUE, s), WayOn(next, s), s.what \notin {"order", "gone"},
           drop # {} => Shown.what # "order" \/ ~member,
           halfway # {} => Fits(state, draft, activeMessage # 0, s)
    PROVE  DialogueInv' /\ LinksKept
<1>1. Fits(state, draft, activeMessage # 0, Shown) /\ draft \in C!Draft
  BY DEF DialogueInv, ChatTypeOK
<1>2. Fits(state, draft, activeMessage # 0, C!Gone)
  BY <1>1, GoneFits
<1>3. \A x \in {Shown, C!Gone} \cup halfway : Fits(state, draft, activeMessage # 0, x)
  BY <1>1, <1>2
<1>4. activeMessage = 0 => Shown = C!Gone
  BY DEF Shown
<1>5. \A x \in IF activeMessage = 0 THEN {C!Gone} ELSE {Shown, C!Gone} \cup halfway :
        Fits(state, draft', activeMessage # 0, x)
  BY <1>3
<1> QED  BY <1>1, <1>5, DrawnKeeps

\* When the order starts again.
LEMMA DrawnForEmptyDraft ==
    ASSUME DialogueInv, NEW s \in {C!MainMenu, C!Quantities}, NEW next \in C!State, NEW drop, NEW halfway,
           drop \subseteq {activeMessage}, Drawn(s, next, 0, drop, halfway),
           draft' = C!EmptyDraft, member' = member, moves' = moves, AsksNothing(next), WayOn(next, s),
           drop # {} => Shown.what # "order" \/ ~member
    PROVE  DialogueInv' /\ LinksKept
<1>1. s \in SomeScreen /\ s.what \notin {"order", "gone"}
  BY ScreenTypes, PlainScreens
<1>2. Fits(next, draft', TRUE, s) /\ draft' \in C!Draft
  BY EmptyFits
<1>3. \A x \in {C!Gone} : Fits(state, draft', FALSE, x)
  BY EmptyFits
<1>4. \A x \in IF 0 = 0 THEN {C!Gone} ELSE {Shown, C!Gone} \cup halfway : Fits(state, draft', 0 # 0, x)
  BY <1>3
<1> QED  BY <1>1, <1>2, <1>4, DrawnKeeps

-----------------------------------------------------------------------------
(* The handlers.                                                            *)

\* A message that was tapped is the active one, and what it shows suits the draft.
LEMMA Tapped ==
    ASSUME DialogueInv, NEW m \in C!Message, activeMessage = m
    PROVE  /\ ChatTypeOK /\ activeMessage # 0 /\ Shown = screen[m] /\ Shown \in SomeScreen
           /\ Fits(state, draft, TRUE, Shown)
           /\ draft \in C!Draft
<1>1. activeMessage # 0
  BY BotAssumption DEF C!Message, C!ConversationAssumption
<1>2. (activeMessage # 0) = TRUE
  BY <1>1
<1> QED  BY <1>1, <1>2, ActiveIsMessage DEF DialogueInv, ChatTypeOK

\* Where the detour leads those who join the channel again.
LEMMA DetourKeeps ==
    ASSUME DialogueInv, NEW dest \in C!State, C!Detour(dest), C!Others,
           dest = "ENTER_GIFT_USERNAME" => state = "ENTER_GIFT_USERNAME",
           dest \in {"CHOOSE_PAYMENT", "ENTER_PROMO"} => state \in {"CHOOSE_PAYMENT", "ENTER_PROMO"},
           dest = "ORDER_CONFIRMATION" => state = "ORDER_CONFIRMATION" /\ activeMessage # 0
    PROVE  DialogueInv' /\ LinksKept
<1>1. /\ ~member /\ draft' = draft /\ member' = member /\ moves' = moves
      /\ C!ShowBelow(C!Subscribe(dest), {activeMessage}, "NOT_SUBSCRIBED", activeMessage)
  BY DEF C!Detour, C!Others
<1>2. ChatTypeOK /\ Fits(state, draft, activeMessage # 0, Shown)
  BY DEF DialogueInv
<1>3. C!Subscribe(dest) \in SomeScreen /\ C!Subscribe(dest).what = "subscribe" /\ C!Subscribe(dest).dest = dest
  BY ScreenTypes, PlainScreens
<1>4. Drawn(C!Subscribe(dest), "NOT_SUBSCRIBED", activeMessage, {activeMessage}, {})
  BY <1>1, <1>2, <1>3, ShowBelowDraws
<1>5. Fits("NOT_SUBSCRIBED", draft, TRUE, C!Subscribe(dest))
  <2>1. StateFits("NOT_SUBSCRIBED", draft, TRUE, C!Subscribe(dest))
    BY <1>3 DEF StateFits
  <2>2. ScreenFits(draft, C!Subscribe(dest))
    BY <1>2, <1>3 DEF Fits, StateFits, ScreenFits
  <2> QED  BY <2>1, <2>2 DEF Fits
<1>6. "NOT_SUBSCRIBED" \in C!State /\ WayOn("NOT_SUBSCRIBED", C!Subscribe(dest))
  BY <1>3 DEF C!State, WayOn
<1>7. \A s \in SomeScreen : \A drop, halfway :
        /\ s = C!Subscribe(dest) /\ drop = {activeMessage} /\ halfway = {}
        /\ Drawn(s, "NOT_SUBSCRIBED", activeMessage, drop, halfway)
        => DialogueInv' /\ LinksKept
  <2> SUFFICES ASSUME NEW s \in SomeScreen, NEW drop, NEW halfway,
                      s = C!Subscribe(dest), drop = {activeMessage}, halfway = {},
                      Drawn(s, "NOT_SUBSCRIBED", activeMessage, drop, halfway)
               PROVE  DialogueInv' /\ LinksKept
    OBVIOUS
  <2>1. s.what \notin {"order", "gone"} /\ Fits("NOT_SUBSCRIBED", draft, TRUE, s) /\ WayOn("NOT_SUBSCRIBED", s)
    BY <1>3, <1>5, <1>6
  <2>2. drop \subseteq {activeMessage} /\ halfway \subseteq {s} /\ ~(halfway # {})
    OBVIOUS
  <2>3. "NOT_SUBSCRIBED" \in C!State
    BY <1>6
  <2> QED  BY <1>1, <2>1, <2>2, <2>3, DrawnForSameDraft
<1> QED  BY <1>3, <1>4, <1>7

\* What was too old, or could not be done, changes neither the draft nor the chat.
LEMMA NothingDrawn ==
    ASSUME DialogueInv, UNCHANGED <<draft, activeMessage, screen, sent, expired, member, moves>>,
           state' \in {state, "none"}, failures' = failures \/ failures' \in Nat \ {0}
    PROVE  DialogueInv' /\ LinksKept
<1>1. ChatTypeOK /\ Fits(state, draft, activeMessage # 0, Shown) /\ (failures = 0 => WayOn(state, Shown))
  BY DEF DialogueInv
<1>2. Shown' = Shown
  BY DEF Shown
<1>3. ChatTypeOK'
  BY <1>1 DEF ChatTypeOK, C!State
<1>4. state' = "none" => Fits(state', draft', activeMessage' # 0, Shown')
  BY <1>1, <1>2 DEF Fits, StateFits
<1>5. state' = state => Fits(state', draft', activeMessage' # 0, Shown')
  BY <1>1, <1>2
<1>6. WayOn("none", Shown)
  BY DEF WayOn
<1>7. failures' = 0 => WayOn(state', Shown')
  BY <1>1, <1>2, <1>6
<1>8. LinksKept
  BY DEF LinksKept
<1> QED  BY <1>1, <1>3, <1>4, <1>5, <1>7, <1>8 DEF DialogueInv

\* A tap that shows a screen every draft and the new state bear.
LEMMA ShowKeeps ==
    ASSUME DialogueInv, NEW m \in C!Message, activeMessage = m, NEW s, NEW next \in C!State,
           C!Show(m, s, next, activeMessage), draft' = draft, C!Others,
           s \in SomeScreen, Fits(next, draft, TRUE, s), WayOn(next, s), Fits(state, draft, TRUE, s),
           s.what \notin {"order", "gone"},
           state \notin {"none", "ORDER_CONFIRMED"} \/ Shown.what # "order"
    PROVE  DialogueInv' /\ LinksKept
<1>1. ChatTypeOK /\ activeMessage # 0 /\ Fits(state, draft, TRUE, Shown)
  BY Tapped
<1>2. Drawn(s, next, activeMessage, {activeMessage}, {s})
  BY <1>1, ShowDraws
<1>3. Shown.what # "order"
  BY <1>1 DEF Fits, StateFits
<1>4. member' = member /\ moves' = moves /\ Fits(state, draft, activeMessage # 0, s)
  <2>1. (activeMessage # 0) = TRUE
    BY <1>1
  <2> QED  BY <2>1 DEF C!Others
<1> QED  BY <1>2, <1>3, <1>4, DrawnForSameDraft

LEMMA BeginAgainKeeps ==
    ASSUME DialogueInv, NEW m \in C!Message, activeMessage = m, draft' = C!EmptyDraft, C!Others,
           NEW s \in {C!MainMenu, C!Quantities}, NEW next \in C!State, C!Show(m, s, next, 0),
           AsksNothing(next), WayOn(next, s),
           state \notin {"none", "ORDER_CONFIRMED"} \/ Shown.what # "order"
    PROVE  DialogueInv' /\ LinksKept
<1>1. ChatTypeOK /\ activeMessage # 0 /\ Fits(state, draft, TRUE, Shown)
  BY Tapped
<1>2. s \in SomeScreen
  BY ScreenTypes
<1>3. Drawn(s, next, 0, {activeMessage}, {s})
  BY <1>1, <1>2, ShowDraws
<1>4. Shown.what # "order"
  BY <1>1 DEF Fits, StateFits
<1>5. member' = member /\ moves' = moves
  BY DEF C!Others
<1> QED  BY <1>3, <1>4, <1>5, DrawnForEmptyDraft

\* Where each screen leads on.
LEMMA Onward ==
    /\ WayOn("MAIN_MENU", C!MainMenu) /\ WayOn("INFO", C!Info) /\ WayOn("SUPPORT", C!Support)
    /\ WayOn("PROFILE", C!Profile) /\ WayOn("ORDER_HISTORY", C!History)
    /\ WayOn("CHOOSE_QUANTITY", C!Quantities) /\ WayOn("CHOOSE_RECIPIENT", C!Recipients)
    /\ WayOn("LARGE_ORDER_WARNING", C!LargeOrder)
    /\ \A x : WayOn("CUSTOM_QUANTITY_INPUT", x) /\ WayOn("ENTER_GIFT_USERNAME", x) /\ WayOn("ENTER_PROMO", x)
    /\ \A d : WayOn("CHOOSE_PAYMENT", C!PaymentMethods(d)) /\ WayOn("ORDER_CONFIRMATION", C!Confirmation(d))
<1>1. \A d : C!PaymentMethods(d).what = "payment" /\ C!Confirmation(d).what = "confirmation"
  BY DEF C!PaymentMethods, C!Confirmation, C!Screen
<1> QED  BY <1>1, PlainScreens DEF WayOn, C!TakesText, C!HasBack

LEMMA StartKeeps ==
    ASSUME DialogueInv, C!Start
    PROVE  DialogueInv' /\ LinksKept
<1>1. ChatTypeOK /\ C!MainMenu \in SomeScreen /\ "MAIN_MENU" \in C!State /\ AsksNothing("MAIN_MENU")
  BY ScreenTypes DEF DialogueInv, C!State, AsksNothing
<1>2. /\ draft' = C!EmptyDraft /\ C!ShowBelow(C!MainMenu, {}, "MAIN_MENU", 0)
      /\ member' = member /\ moves' = moves
  BY DEF C!Start, C!Others
<1>3. Drawn(C!MainMenu, "MAIN_MENU", 0, {}, {})
  BY <1>1, <1>2, ShowBelowDraws
<1> QED  BY <1>1, <1>2, <1>3, Onward, DrawnForEmptyDraft

LEMMA RepeatKeeps ==
    ASSUME DialogueInv, NEW m \in C!Message, C!Repeat(m)
    PROVE  DialogueInv' /\ LinksKept
<1>1. /\ ChatTypeOK /\ C!Quantities \in SomeScreen /\ "CHOOSE_QUANTITY" \in C!State
      /\ AsksNothing("CHOOSE_QUANTITY")
  BY ScreenTypes DEF DialogueInv, C!State, AsksNothing
<1>2. CASE C!Detour("CHOOSE_QUANTITY")
  BY <1>1, <1>2, DetourKeeps DEF C!Repeat
<1>3. CASE draft' = C!EmptyDraft /\ C!ShowBelow(C!Quantities, {}, "CHOOSE_QUANTITY", 0)
  <2>1. member' = member /\ moves' = moves
    BY DEF C!Repeat, C!Others
  <2>2. Drawn(C!Quantities, "CHOOSE_QUANTITY", 0, {}, {})
    BY <1>1, <1>3, ShowBelowDraws
  <2> QED  BY <1>1, <1>3, <2>1, <2>2, Onward, DrawnForEmptyDraft
<1> QED  BY <1>2, <1>3 DEF C!Repeat

LEMMA MainMenuTapKeeps ==
    ASSUME DialogueInv, NEW m \in C!Message, C!MainMenuTap(m)
    PROVE  DialogueInv' /\ LinksKept
<1>1. PICK b \in {"buy", "info", "support", "profile"} :
          /\ C!Taps(m, b)
          /\ \/ C!End
             \/ C!Detour("MAIN_MENU")
             \/ draft' = draft /\ C!Show(m, C!Quantities, "CHOOSE_QUANTITY", activeMessage)
             \/ draft' = draft /\ C!Show(m, C!Info, "INFO", activeMessage)
             \/ draft' = draft /\ C!Show(m, C!Support, "SUPPORT", activeMessage)
             \/ draft' = draft /\ C!Show(m, C!Profile, "PROFILE", activeMessage)
  BY DEF C!MainMenuTap
<1>2. C!Others /\ activeMessage = m /\ state = "MAIN_MENU" /\ AsksNothing(state)
  BY <1>1, Handled DEF C!MainMenuTap, C!Taps, DialogueInv, ChatTypeOK, AsksNothing
<1>3. CASE C!End
  BY <1>2, <1>3, NothingDrawn DEF C!End, C!Others
<1>4. CASE C!Detour("MAIN_MENU")
  BY <1>2, <1>4, DetourKeeps DEF C!State
<1>5. ASSUME NEW s \in {C!Quantities, C!Info, C!Support, C!Profile}, NEW next \in C!State, AsksNothing(next),
             draft' = draft, C!Show(m, s, next, activeMessage), WayOn(next, s)
      PROVE  DialogueInv' /\ LinksKept
  <2>1. s \in SomeScreen /\ s.what \notin {"order", "gone"} /\ Neutral(s)
    BY ScreenTypes, PlainScreens, NeutralScreens
  <2>2. Fits(next, draft, TRUE, s) /\ Fits(state, draft, TRUE, s)
    BY <1>2, <1>5, <2>1, NeutralFits
  <2> QED  BY <1>2, <1>5, <2>1, <2>2, ShowKeeps
<1>6. /\ {"CHOOSE_QUANTITY", "INFO", "SUPPORT", "PROFILE"} \subseteq C!State
      /\ \A st \in {"CHOOSE_QUANTITY", "INFO", "SUPPORT", "PROFILE"} : AsksNothing(st)
  BY DEF C!State, AsksNothing
<1>7. CASE draft' = draft /\ C!Show(m, C!Quantities, "CHOOSE_QUANTITY", activeMessage)
  BY <1>5, <1>6, <1>7, Onward
<1>8. CASE draft' = draft /\ C!Show(m, C!Info, "INFO", activeMessage)
  BY <1>5, <1>6, <1>8, Onward
<1>9. CASE draft' = draft /\ C!Show(m, C!Support, "SUPPORT", activeMessage)
  BY <1>5, <1>6, <1>9, Onward
<1>10. CASE draft' = draft /\ C!Show(m, C!Profile, "PROFILE", activeMessage)
  BY <1>5, <1>6, <1>10, Onward
<1> QED  BY <1>1, <1>3, <1>4, <1>7, <1>8, <1>9, <1>10

LEMMA ProfileTapKeeps ==
    ASSUME DialogueInv, NEW m \in C!Message, C!ProfileTap(m)
    PROVE  DialogueInv' /\ LinksKept
<1>1. PICK b \in {"history", "page"} :
          /\ C!Taps(m, b)
          /\ C!End \/ (draft' = draft /\ C!Show(m, C!History, "ORDER_HISTORY", activeMessage))
  BY DEF C!ProfileTap
<1>2. /\ C!Others /\ activeMessage = m /\ state \in {"PROFILE", "ORDER_HISTORY"}
      /\ AsksNothing(state) /\ AsksNothing("ORDER_HISTORY") /\ "ORDER_HISTORY" \in C!State
  BY <1>1, Handled DEF C!ProfileTap, C!Taps, DialogueInv, ChatTypeOK, AsksNothing, C!State
<1>3. CASE C!End
  BY <1>2, <1>3, NothingDrawn DEF C!End, C!Others
<1>4. CASE draft' = draft /\ C!Show(m, C!History, "ORDER_HISTORY", activeMessage)
  <2>1. C!History \in SomeScreen /\ C!History.what \notin {"order", "gone"} /\ Neutral(C!History)
    BY ScreenTypes, PlainScreens, NeutralScreens
  <2>2. Fits("ORDER_HISTORY", draft, TRUE, C!History) /\ Fits(state, draft, TRUE, C!History)
    BY <1>2, <2>1, NeutralFits
  <2> QED  BY <1>2, <1>4, <2>1, <2>2, Onward, ShowKeeps
<1> QED  BY <1>1, <1>3, <1>4

\* A tap, or a text, that changes the draft as well.
LEMMA ShowForDraft ==
    ASSUME DialogueInv, NEW m \in C!Message, activeMessage = m, NEW s \in SomeScreen, NEW next \in C!State,
           C!Show(m, s, next, activeMessage), draft' \in C!Draft, C!Others,
           Fits(next, draft', TRUE, s), WayOn(next, s), s.what \notin {"order", "gone"},
           \A x \in {Shown, C!Gone, s} : Fits(state, draft', TRUE, x), Shown.what # "order"
    PROVE  DialogueInv' /\ LinksKept
<1>1. ChatTypeOK /\ activeMessage # 0
  BY Tapped
<1>2. Drawn(s, next, activeMessage, {activeMessage}, {s})
  BY <1>1, ShowDraws
<1>3. member' = member /\ moves' = moves
  BY DEF C!Others
<1>4. (activeMessage # 0) = TRUE
  BY <1>1
<1>5. \A x \in IF activeMessage = 0 THEN {C!Gone} ELSE {Shown, C!Gone} \cup {s} : Fits(state, draft', activeMessage # 0, x)
  BY <1>1, <1>4
<1> QED  BY <1>2, <1>3, <1>5, DrawnKeeps

LEMMA ShowBelowForDraft ==
    ASSUME DialogueInv, NEW s \in SomeScreen, NEW next \in C!State, NEW drop, drop \subseteq {activeMessage},
           C!ShowBelow(s, drop, next, activeMessage), draft' \in C!Draft, C!Others,
           Fits(next, draft', TRUE, s), WayOn(next, s), s.what \notin {"order", "gone"},
           \A x \in {Shown, C!Gone} : Fits(state, draft', activeMessage # 0, x), Shown.what # "order"
    PROVE  DialogueInv' /\ LinksKept
<1>1. ChatTypeOK
  BY DEF DialogueInv
<1>2. Drawn(s, next, activeMessage, drop, {})
  BY <1>1, ShowBelowDraws
<1>3. member' = member /\ moves' = moves
  BY DEF C!Others
<1>4. \A halfway : halfway = {} =>
        \A x \in IF activeMessage = 0 THEN {C!Gone} ELSE {Shown, C!Gone} \cup halfway : Fits(state, draft', activeMessage # 0, x)
  OBVIOUS
<1>5. \A halfway : halfway = {} /\ Drawn(s, next, activeMessage, drop, halfway) => DialogueInv' /\ LinksKept
  BY <1>3, <1>4, DrawnKeeps
<1> QED  BY <1>2, <1>5

\* The orders for which one was asked to pay, or to check, belong together.
LEMMA PaymentScreen ==
    ASSUME NEW d \in C!Draft
    PROVE  /\ C!PaymentMethods(d) \in SomeScreen /\ C!Confirmation(d) \in SomeScreen /\ C!OrderLink(d) \in SomeScreen
           /\ C!PaymentMethods(d).what = "payment" /\ C!PaymentMethods(d).price = d.quantity
           /\ C!PaymentMethods(d).dest \in {"CHOOSE_RECIPIENT", "ENTER_GIFT_USERNAME"}
           /\ C!PaymentMethods(d).dest = "ENTER_GIFT_USERNAME" => d.target # Self
           /\ C!Confirmation(d).what = "confirmation" /\ C!Confirmation(d).dest = "CHOOSE_PAYMENT"
           /\ C!OrderLink(d).what = "order" /\ C!OrderLink(d).dest = ""
           /\ d.quantity # 0 /\ Belongs(d) =>
                 \A st \in C!State \ {"ORDER_CONFIRMATION", "ENTER_GIFT_USERNAME", "CUSTOM_QUANTITY_INPUT"} :
                    Fits(st, d, TRUE, C!PaymentMethods(d))
           /\ Complete(d) =>
                 /\ \A st \in C!State \ {"ENTER_GIFT_USERNAME", "CUSTOM_QUANTITY_INPUT"} :
                       /\ Fits(st, d, TRUE, C!PaymentMethods(d))
                       /\ Fits(st, d, TRUE, C!Confirmation(d))
<1>1. C!PaymentMethods(d) \in SomeScreen /\ C!Confirmation(d) \in SomeScreen /\ C!OrderLink(d) \in SomeScreen
  BY ScreenTypes
<1>2. /\ C!PaymentMethods(d).what = "payment" /\ C!PaymentMethods(d).price = d.quantity
      /\ C!PaymentMethods(d).dest \in {"CHOOSE_RECIPIENT", "ENTER_GIFT_USERNAME"}
      /\ C!PaymentMethods(d).dest = "ENTER_GIFT_USERNAME" => d.target # Self
      /\ C!Confirmation(d).what = "confirmation" /\ C!Confirmation(d).dest = "CHOOSE_PAYMENT"
      /\ C!OrderLink(d).what = "order" /\ C!OrderLink(d).dest = ""
  BY DEF C!PaymentMethods, C!Confirmation, C!OrderLink, C!Screen
<1>3. ASSUME d.quantity # 0, Belongs(d), NEW st \in C!State \ {"ENTER_GIFT_USERNAME", "CUSTOM_QUANTITY_INPUT"},
             st = "ORDER_CONFIRMATION" => Complete(d)
      PROVE  Fits(st, d, TRUE, C!PaymentMethods(d))
  BY <1>2, <1>3 DEF Fits, StateFits, ScreenFits
<1>4. ASSUME Complete(d), NEW st \in C!State \ {"ENTER_GIFT_USERNAME", "CUSTOM_QUANTITY_INPUT"}
      PROVE  Fits(st, d, TRUE, C!Confirmation(d))
  BY <1>2, <1>4 DEF Fits, StateFits, ScreenFits, Complete
<1> QED  BY <1>1, <1>2, <1>3, <1>4 DEF Complete

LEMMA FixedQuantityKeeps ==
    ASSUME DialogueInv, NEW m \in C!Message, C!FixedQuantity(m)
    PROVE  DialogueInv' /\ LinksKept
<1>1. /\ C!Others /\ activeMessage = m /\ state = "CHOOSE_QUANTITY" /\ "fixed" \in C!Button(screen[m])
      /\ "CHOOSE_RECIPIENT" \in C!State /\ "CHOOSE_QUANTITY" \in C!State
  BY Handled DEF C!FixedQuantity, C!Taps, DialogueInv, ChatTypeOK, C!State
<1>2. Fits(state, draft, TRUE, Shown) /\ Shown.what = "quantity" /\ draft \in C!Draft
  BY <1>1, Tapped, OnScreen
<1>3. CASE C!Detour("CHOOSE_QUANTITY")
  BY <1>1, <1>3, DetourKeeps
<1>4. CASE C!End
  BY <1>1, <1>4, NothingDrawn DEF C!End, C!Others
<1>5. CASE /\ \E q \in Quantity : draft' = [draft EXCEPT !.quantity = q]
           /\ C!Show(m, C!Recipients, "CHOOSE_RECIPIENT", activeMessage)
  <2>1. draft' \in C!Draft
    BY <1>2, <1>5 DEF C!Draft
  <2>2. AsksNothing(state) /\ AsksNothing("CHOOSE_RECIPIENT")
    BY <1>1 DEF AsksNothing
  <2>3. C!Recipients \in SomeScreen /\ Neutral(C!Recipients) /\ Neutral(C!Gone) /\ C!Recipients.what = "recipient"
    BY ScreenTypes, NeutralScreens, PlainScreens
  <2>4. Fits(state, draft', TRUE, Shown)
    BY <1>2, <2>2, FitsAgain
  <2>5. \A x \in {Shown, C!Gone, C!Recipients} : Fits(state, draft', TRUE, x)
    BY <2>2, <2>3, <2>4, NeutralFits
  <2>6. Fits("CHOOSE_RECIPIENT", draft', TRUE, C!Recipients)
    BY <2>2, <2>3, NeutralFits
  <2> QED  BY <1>1, <1>2, <1>5, <2>1, <2>3, <2>5, <2>6, Onward, ShowForDraft
<1> QED  BY <1>3, <1>4, <1>5 DEF C!FixedQuantity

LEMMA CustomQuantityKeeps ==
    ASSUME DialogueInv, NEW m \in C!Message, C!CustomQuantity(m)
    PROVE  DialogueInv' /\ LinksKept
<1>1. /\ C!Others /\ activeMessage = m /\ state = "CHOOSE_QUANTITY"
      /\ "CUSTOM_QUANTITY_INPUT" \in C!State /\ "CHOOSE_QUANTITY" \in C!State
  BY Handled DEF C!CustomQuantity, C!Taps, DialogueInv, ChatTypeOK, C!State
<1>2. CASE C!Detour("CHOOSE_QUANTITY")
  BY <1>1, <1>2, DetourKeeps
<1>3. CASE draft' = draft /\ C!Show(m, C!EnterCustomQuantity, "CUSTOM_QUANTITY_INPUT", activeMessage)
  <2>1. C!EnterCustomQuantity \in SomeScreen /\ Neutral(C!EnterCustomQuantity)
        /\ C!EnterCustomQuantity.what = "custom quantity"
    BY ScreenTypes, NeutralScreens, PlainScreens
  <2>2. Fits(state, draft, TRUE, C!EnterCustomQuantity)
    BY <1>1, <2>1, NeutralFits DEF AsksNothing
  <2>3. Fits("CUSTOM_QUANTITY_INPUT", draft, TRUE, C!EnterCustomQuantity)
    BY <2>1 DEF Fits, StateFits, ScreenFits, Neutral
  <2> QED  BY <1>1, <1>3, <2>1, <2>2, <2>3, Onward, ShowKeeps
<1> QED  BY <1>2, <1>3 DEF C!CustomQuantity

LEMMA CustomQuantityInputKeeps ==
    ASSUME DialogueInv, C!CustomQuantityInput
    PROVE  DialogueInv' /\ LinksKept
<1>1. /\ C!Others /\ state = "CUSTOM_QUANTITY_INPUT"
      /\ {"CUSTOM_QUANTITY_INPUT", "LARGE_ORDER_WARNING", "CHOOSE_RECIPIENT"} \subseteq C!State
  BY DEF C!CustomQuantityInput, C!State
<1>2. Shown \in {C!EnterCustomQuantity, C!Quantities, C!Gone} /\ draft \in C!Draft
  BY <1>1 DEF DialogueInv, Fits, StateFits, ChatTypeOK
<1>3. Neutral(Shown) /\ Shown.what # "order" /\ Neutral(C!Gone)
  BY <1>2, NeutralScreens
<1>4. CASE C!Detour("CUSTOM_QUANTITY_INPUT")
  BY <1>1, <1>4, DetourKeeps
<1>5. ASSUME NEW s \in {C!LargeOrder, C!Recipients}, NEW next \in C!State, AsksNothing(next), WayOn(next, s),
             draft' \in C!Draft, C!ShowBelow(s, {}, next, activeMessage)
      PROVE  DialogueInv' /\ LinksKept
  <2>1. s \in SomeScreen /\ Neutral(s) /\ s.what \notin {"order", "gone"}
    BY ScreenTypes, NeutralScreens, PlainScreens
  <2>2. Fits(next, draft', TRUE, s)
    BY <1>5, <2>1, NeutralFits
  <2>3. \A x \in {Shown, C!Gone} : Fits(state, draft', activeMessage # 0, x)
    BY <1>1, <1>2, <1>3 DEF Fits, StateFits, ScreenFits, Neutral
  <2>4. \A drop : drop = {} => drop \subseteq {activeMessage}
    OBVIOUS
  <2>5. \A drop : drop = {} /\ C!ShowBelow(s, drop, next, activeMessage) => DialogueInv' /\ LinksKept
    BY <1>1, <1>3, <1>5, <2>1, <2>2, <2>3, <2>4, ShowBelowForDraft
  <2> QED  BY <1>5, <2>5
<1>6. AsksNothing("LARGE_ORDER_WARNING") /\ AsksNothing("CHOOSE_RECIPIENT")
  BY DEF AsksNothing
<1>7. CASE draft' = draft /\ C!ShowBelow(C!LargeOrder, {}, "LARGE_ORDER_WARNING", activeMessage)
  BY <1>1, <1>2, <1>5, <1>6, <1>7, Onward
<1>8. CASE /\ \E q \in Quantity : draft' = [draft EXCEPT !.quantity = q]
           /\ C!ShowBelow(C!Recipients, {}, "CHOOSE_RECIPIENT", activeMessage)
  <2>1. draft' \in C!Draft
    BY <1>2, <1>8 DEF C!Draft
  <2> QED  BY <1>1, <1>5, <1>6, <1>8, <2>1, Onward
<1> QED  BY <1>4, <1>7, <1>8 DEF C!CustomQuantityInput

\* A handler that raised once it had changed the draft.
LEMMA OnlyDraft ==
    ASSUME DialogueInv, UNCHANGED <<state, activeMessage, screen, sent, expired, member, failures, moves>>,
           draft' \in C!Draft, Fits(state, draft', activeMessage # 0, Shown)
    PROVE  DialogueInv' /\ LinksKept
<1>1. ChatTypeOK /\ (failures = 0 => WayOn(state, Shown)) /\ Shown' = Shown
  BY DEF DialogueInv, Shown
<1>2. ChatTypeOK'
  BY <1>1 DEF ChatTypeOK
<1>3. Fits(state', draft', activeMessage' # 0, Shown')
  BY <1>1
<1>4. LinksKept
  BY DEF LinksKept
<1> QED  BY <1>1, <1>2, <1>3, <1>4 DEF DialogueInv

LEMMA RecipientSelfKeeps ==
    ASSUME DialogueInv, NEW m \in C!Message, C!RecipientSelf(m)
    PROVE  DialogueInv' /\ LinksKept
<1>1. /\ C!Others /\ activeMessage = m /\ state = "CHOOSE_RECIPIENT" /\ "self" \in C!Button(screen[m])
      /\ draft' = [draft EXCEPT !.mode = "SELF", !.target = Self] /\ C!ToPayment(m, draft')
      /\ "CHOOSE_PAYMENT" \in C!State /\ state \in C!State
  BY Handled DEF C!RecipientSelf, C!Taps, DialogueInv, ChatTypeOK, C!State
<1>2. Fits(state, draft, TRUE, Shown) /\ Shown.what = "recipient" /\ draft \in C!Draft /\ activeMessage # 0
  BY <1>1, Tapped, OnScreen
<1>3. draft' \in C!Draft /\ Belongs(draft')
  BY <1>1, <1>2 DEF C!Draft, Belongs
<1>4. AsksNothing(state) /\ Neutral(C!Gone)
  BY <1>1, NeutralScreens DEF AsksNothing
<1>5. Fits(state, draft', TRUE, Shown)
  BY <1>2, <1>4, FitsAgain
<1>6. CASE draft'.quantity = 0
  <2>1. (activeMessage # 0) = TRUE
    BY <1>2
  <2>2. UNCHANGED <<state, activeMessage, screen, sent, expired, member, failures, moves>>
    BY <1>1, <1>6 DEF C!ToPayment, C!Raise, C!Others
  <2> QED  BY <1>3, <1>5, <2>1, <2>2, OnlyDraft
<1>7. CASE draft'.quantity # 0
  <2>1. C!Show(m, C!PaymentMethods(draft'), "CHOOSE_PAYMENT", activeMessage)
    BY <1>1, <1>7 DEF C!ToPayment
  <2>2. /\ C!PaymentMethods(draft') \in SomeScreen /\ C!PaymentMethods(draft').what = "payment"
        /\ \A st \in {state, "CHOOSE_PAYMENT"} : Fits(st, draft', TRUE, C!PaymentMethods(draft'))
    BY <1>1, <1>3, <1>7, PaymentScreen
  <2>3. \A x \in {Shown, C!Gone, C!PaymentMethods(draft')} : Fits(state, draft', TRUE, x)
    BY <1>4, <1>5, <2>2, NeutralFits
  <2> QED  BY <1>1, <1>2, <1>3, <2>1, <2>2, <2>3, Onward, ShowForDraft
<1> QED  BY <1>6, <1>7

LEMMA RecipientGiftKeeps ==
    ASSUME DialogueInv, NEW m \in C!Message, C!RecipientGift(m)
    PROVE  DialogueInv' /\ LinksKept
<1>1. /\ C!Others /\ activeMessage = m /\ state = "CHOOSE_RECIPIENT" /\ "gift" \in C!Button(screen[m])
      /\ draft' = [draft EXCEPT !.mode = "GIFT"]
      /\ C!Show(m, C!EnterUsername, "ENTER_GIFT_USERNAME", activeMessage)
      /\ "ENTER_GIFT_USERNAME" \in C!State
  BY Handled DEF C!RecipientGift, C!Taps, DialogueInv, ChatTypeOK, C!State
<1>2. Fits(state, draft, TRUE, Shown) /\ Shown.what = "recipient" /\ draft \in C!Draft
  BY <1>1, Tapped, OnScreen
<1>3. draft' \in C!Draft /\ draft'.mode = "GIFT"
  BY <1>1, <1>2 DEF C!Draft
<1>4. AsksNothing(state)
  BY <1>1 DEF AsksNothing
<1>5. /\ C!EnterUsername \in SomeScreen /\ C!EnterUsername.what = "username"
      /\ Neutral(C!EnterUsername) /\ Neutral(C!Gone)
  BY ScreenTypes, PlainScreens, NeutralScreens
<1>6. \A x \in {Shown, C!Gone, C!EnterUsername} : Fits(state, draft', TRUE, x)
  BY <1>2, <1>4, <1>5, NeutralFits, FitsAgain
<1>7. Fits("ENTER_GIFT_USERNAME", draft', TRUE, C!EnterUsername)
  BY <1>3, <1>5 DEF Fits, StateFits, ScreenFits, Neutral
<1> QED  BY <1>1, <1>2, <1>3, <1>5, <1>6, <1>7, Onward, ShowForDraft

LEMMA RecipientElseKeeps ==
    ASSUME DialogueInv, NEW m \in C!Message, C!RecipientElse(m)
    PROVE  DialogueInv' /\ LinksKept
<1>1. C!Others /\ (C!Detour("CHOOSE_RECIPIENT") \/ C!End) /\ "CHOOSE_RECIPIENT" \in C!State
  BY DEF C!RecipientElse, C!State
<1>2. CASE C!Detour("CHOOSE_RECIPIENT")
  BY <1>1, <1>2, DetourKeeps
<1>3. CASE C!End
  BY <1>1, <1>3, NothingDrawn DEF C!End, C!Others
<1> QED  BY <1>1, <1>2, <1>3

LEMMA GiftUsernameKeeps ==
    ASSUME DialogueInv, C!GiftUsername
    PROVE  DialogueInv' /\ LinksKept
<1>1. /\ C!Others /\ state = "ENTER_GIFT_USERNAME"
      /\ {"ENTER_GIFT_USERNAME", "CHOOSE_PAYMENT"} \subseteq C!State
  BY DEF C!GiftUsername, C!State
<1>2. /\ Shown \in {C!EnterUsername, C!Recipients, C!Quantities, C!Gone} /\ draft \in C!Draft
      /\ draft.quantity # 0 => draft.mode = "GIFT"
      /\ ChatTypeOK
  BY <1>1 DEF DialogueInv, Fits, StateFits, ChatTypeOK
<1>3. Neutral(Shown) /\ Shown.what # "order" /\ Neutral(C!Gone) /\ Neutral(C!EnterUsername)
      /\ C!EnterUsername \in SomeScreen /\ C!EnterUsername.what = "username"
  BY <1>2, NeutralScreens, ScreenTypes, PlainScreens
<1>4. ASSUME NEW d, d.quantity # 0 => d.mode = "GIFT",
             NEW shown, NEW x \in {C!EnterUsername, C!Recipients, C!Quantities, C!Gone}
      PROVE  Fits(state, d, shown, x)
  <2>1. Neutral(x)
    BY NeutralScreens
  <2> QED  BY <1>1, <1>4, <2>1 DEF Fits, StateFits, ScreenFits, Neutral
<1>5. CASE C!Detour("ENTER_GIFT_USERNAME")
  BY <1>1, <1>5, DetourKeeps
<1>6. CASE draft' = draft /\ C!ShowBelow(C!EnterUsername, {activeMessage}, "ENTER_GIFT_USERNAME", activeMessage)
  <2>1. Fits("ENTER_GIFT_USERNAME", draft', TRUE, C!EnterUsername)
    BY <1>1, <1>2, <1>4, <1>6
  <2>2. \A x \in {Shown, C!Gone} : Fits(state, draft', activeMessage # 0, x)
    BY <1>2, <1>4, <1>6
  <2>3. {activeMessage} \subseteq {activeMessage} /\ draft' \in C!Draft
    BY <1>2, <1>6
  <2> QED  BY <1>1, <1>3, <1>6, <2>1, <2>2, <2>3, Onward, ShowBelowForDraft
<1>7. CASE /\ \E f \in Friend : draft' = [draft EXCEPT !.target = f]
           /\ IF draft.quantity = 0
                THEN C!Delete({activeMessage}) /\ UNCHANGED <<state, activeMessage, failures>>
                ELSE C!ShowBelow(C!PaymentMethods(draft'), {activeMessage}, "CHOOSE_PAYMENT", activeMessage)
  <2>1. /\ draft' \in C!Draft /\ draft'.quantity = draft.quantity /\ draft'.mode = draft.mode
        /\ draft'.target # Self
    BY <1>2, <1>7, BotAssumption DEF C!Draft, C!ConversationAssumption
  <2>2. \A x \in {Shown, C!Gone} : Fits(state, draft', activeMessage # 0, x)
    BY <1>2, <1>4, <2>1
  <2>3. CASE draft.quantity = 0
    <3>1. C!Delete({activeMessage}) /\ UNCHANGED <<state, activeMessage, failures, member, moves>>
      BY <1>1, <1>7, <2>3 DEF C!Others
    <3>2. /\ sent' = sent /\ expired' = expired /\ screen' \in [C!Message -> SomeScreen]
          /\ Painted(C!EnterUsername, {activeMessage})
          /\ activeMessage # 0 => screen'[activeMessage] = C!Gone
      BY <1>2, <3>1, DeleteFacts
    <3>3. ChatTypeOK' /\ Shown' = C!Gone
      BY <1>2, <2>1, <3>1, <3>2 DEF ChatTypeOK, Shown
    <3>4. WayOn(state, C!Gone)
      BY <1>1 DEF WayOn, C!TakesText
    <3>5. LinksKept
      <4>1. activeMessage # 0 => activeMessage \in C!Message /\ screen[activeMessage] = Shown
        BY <1>2, ActiveIsMessage
      <4>2. ASSUME NEW k \in C!Message, k = activeMessage  PROVE screen[k].what # "order"
        <5>1. activeMessage # 0
          BY <4>2, BotAssumption DEF C!Message, C!ConversationAssumption
        <5> QED  BY <1>3, <4>1, <4>2, <5>1
      <4> QED  BY <1>3, <3>2, <4>2, PlainScreens DEF Painted, LinksKept
    <3> QED  BY <2>2, <3>1, <3>3, <3>4, <3>5 DEF DialogueInv
  <2>4. CASE draft.quantity # 0
    <3>1. Belongs(draft')
      BY <1>2, <2>1, <2>4 DEF Belongs
    <3>2. /\ C!PaymentMethods(draft') \in SomeScreen /\ C!PaymentMethods(draft').what = "payment"
          /\ Fits("CHOOSE_PAYMENT", draft', TRUE, C!PaymentMethods(draft'))
      BY <1>1, <2>1, <2>4, <3>1, PaymentScreen
    <3>3. C!ShowBelow(C!PaymentMethods(draft'), {activeMessage}, "CHOOSE_PAYMENT", activeMessage)
          /\ {activeMessage} \subseteq {activeMessage}
      BY <1>7, <2>4
    <3> QED  BY <1>1, <1>3, <2>1, <2>2, <3>2, <3>3, Onward, ShowBelowForDraft
  <2> QED  BY <2>3, <2>4
<1> QED  BY <1>5, <1>6, <1>7 DEF C!GiftUsername

\* The draft belongs together where a promo code is asked for.
LEMMA PromoFits ==
    ASSUME NEW st \in {"CHOOSE_PAYMENT", "ENTER_PROMO"}, NEW d, d.quantity # 0 => Belongs(d)
    PROVE  Fits(st, d, TRUE, C!EnterPromo)
BY PlainScreens DEF Fits, StateFits, ScreenFits

\* The payment methods were shown for this draft, which belongs together.
LEMMA PaymentShown ==
    ASSUME DialogueInv, NEW m \in C!Message, activeMessage = m, NEW b \in {"method", "promo"},
           b \in C!Button(screen[m])
    PROVE  /\ Shown = C!PaymentMethods(draft) /\ Shown.what = "payment" /\ Shown = screen[m]
           /\ draft \in C!Draft /\ draft.quantity # 0 /\ Belongs(draft)
<1>1. Fits(state, draft, TRUE, Shown) /\ Shown \in SomeScreen /\ Shown = screen[m] /\ draft \in C!Draft
  BY Tapped
<1>2. Shown.what = "payment"
  BY <1>1, OnScreen
<1> QED  BY <1>1, <1>2 DEF Fits, ScreenFits

LEMMA PaymentMethodKeeps ==
    ASSUME DialogueInv, NEW m \in C!Message, C!PaymentMethod(m)
    PROVE  DialogueInv' /\ LinksKept
<1>1. /\ C!Others /\ activeMessage = m /\ state = "CHOOSE_PAYMENT" /\ "method" \in C!Button(screen[m])
      /\ {"CHOOSE_PAYMENT", "ORDER_CONFIRMATION"} \subseteq C!State
  BY Handled DEF C!PaymentMethod, C!Taps, DialogueInv, ChatTypeOK, C!State
<1>2. /\ Shown = C!PaymentMethods(draft) /\ Shown.what = "payment" /\ Shown = screen[m]
      /\ draft \in C!Draft /\ draft.quantity # 0 /\ Belongs(draft)
  BY <1>1, PaymentShown
<1>3. CASE C!Detour("CHOOSE_PAYMENT")
  BY <1>1, <1>3, DetourKeeps
<1>4. CASE C!End
  BY <1>1, <1>4, NothingDrawn DEF C!End, C!Others
<1>5. CASE /\ draft' = [draft EXCEPT !.price = screen[m].price]
           /\ C!Show(m, C!Confirmation(draft'), "ORDER_CONFIRMATION", activeMessage)
  <2>1. screen[m].price = draft.quantity
    BY <1>2, PaymentScreen
  <2>2. draft' \in C!Draft /\ Complete(draft') /\ C!PaymentMethods(draft') = Shown
    BY <1>2, <1>5, <2>1 DEF C!Draft, Complete, Belongs, C!PaymentMethods
  <2>3. /\ C!Confirmation(draft') \in SomeScreen /\ C!Confirmation(draft').what = "confirmation"
        /\ \A st \in {"CHOOSE_PAYMENT", "ORDER_CONFIRMATION"} :
              Fits(st, draft', TRUE, Shown) /\ Fits(st, draft', TRUE, C!Confirmation(draft'))
    BY <1>1, <2>2, PaymentScreen
  <2>4. Fits(state, draft', TRUE, C!Gone)
    BY <1>1, <2>3, GoneFits
  <2> QED  BY <1>1, <1>2, <1>5, <2>2, <2>3, <2>4, Onward, ShowForDraft
<1> QED  BY <1>2, <1>3, <1>4, <1>5 DEF C!PaymentMethod

LEMMA PromoKeeps ==
    ASSUME DialogueInv, NEW m \in C!Message, C!Promo(m)
    PROVE  DialogueInv' /\ LinksKept
<1>1. /\ C!Others /\ activeMessage = m /\ state = "CHOOSE_PAYMENT" /\ "promo" \in C!Button(screen[m])
      /\ {"CHOOSE_PAYMENT", "ENTER_PROMO"} \subseteq C!State
  BY Handled DEF C!Promo, C!Taps, DialogueInv, ChatTypeOK, C!State
<1>2. Belongs(draft)
  BY <1>1, PaymentShown
<1>3. CASE C!Detour("CHOOSE_PAYMENT")
  BY <1>1, <1>3, DetourKeeps
<1>4. CASE draft' = draft /\ C!Show(m, C!EnterPromo, "ENTER_PROMO", activeMessage)
  <2>1. C!EnterPromo \in SomeScreen /\ C!EnterPromo.what = "promo"
    BY ScreenTypes, PlainScreens
  <2>2. Fits(state, draft, TRUE, C!EnterPromo) /\ Fits("ENTER_PROMO", draft, TRUE, C!EnterPromo)
    BY <1>1, <1>2, PromoFits
  <2> QED  BY <1>1, <1>4, <2>1, <2>2, Onward, ShowKeeps
<1> QED  BY <1>3, <1>4 DEF C!Promo

LEMMA CancelPromoKeeps ==
    ASSUME DialogueInv, NEW m \in C!Message, C!CancelPromo(m)
    PROVE  DialogueInv' /\ LinksKept
<1>1. C!Others /\ activeMessage = m /\ state = "ENTER_PROMO" /\ "ENTER_PROMO" \in C!State
  BY Handled DEF C!CancelPromo, C!Taps, DialogueInv, ChatTypeOK, C!State
<1>2. draft.quantity # 0 => Belongs(draft)
  BY <1>1 DEF DialogueInv, Fits, StateFits
<1>3. CASE C!Detour("ENTER_PROMO")
  BY <1>1, <1>3, DetourKeeps
<1>4. CASE draft' = draft /\ C!Show(m, C!EnterPromo, "ENTER_PROMO", activeMessage)
  <2>1. C!EnterPromo \in SomeScreen /\ C!EnterPromo.what = "promo"
    BY ScreenTypes, PlainScreens
  <2>2. Fits(state, draft, TRUE, C!EnterPromo)
    BY <1>1, <1>2, PromoFits
  <2> QED  BY <1>1, <1>4, <2>1, <2>2, Onward, ShowKeeps
<1> QED  BY <1>3, <1>4 DEF C!CancelPromo

LEMMA EnterPromoTextKeeps ==
    ASSUME DialogueInv, C!EnterPromoText
    PROVE  DialogueInv' /\ LinksKept
<1>1. C!Others /\ state = "ENTER_PROMO" /\ "ENTER_PROMO" \in C!State
  BY DEF C!EnterPromoText, C!State
<1>2. Fits(state, draft, activeMessage # 0, Shown) /\ draft \in C!Draft
  BY DEF DialogueInv, ChatTypeOK
<1>3. (draft.quantity # 0 => Belongs(draft)) /\ Shown.what # "order"
  BY <1>1, <1>2 DEF Fits, StateFits
<1>4. CASE C!Detour("ENTER_PROMO")
  BY <1>1, <1>4, DetourKeeps
<1>5. CASE draft' = draft /\ C!ShowBelow(C!EnterPromo, {}, "ENTER_PROMO", activeMessage)
  <2>1. C!EnterPromo \in SomeScreen /\ C!EnterPromo.what \notin {"order", "gone"}
    BY ScreenTypes, PlainScreens
  <2>2. Fits("ENTER_PROMO", draft', TRUE, C!EnterPromo)
    BY <1>3, <1>5, PromoFits
  <2>3. \A x \in {Shown, C!Gone} : Fits(state, draft', activeMessage # 0, x)
    BY <1>2, <1>5, GoneFits
  <2>4. \A drop : drop = {} => drop \subseteq {activeMessage}
    OBVIOUS
  <2>5. \A drop : drop = {} /\ C!ShowBelow(C!EnterPromo, drop, "ENTER_PROMO", activeMessage) => DialogueInv' /\ LinksKept
    BY <1>1, <1>2, <1>3, <1>5, <2>1, <2>2, <2>3, <2>4, Onward, ShowBelowForDraft
  <2> QED  BY <1>5, <2>5
<1> QED  BY <1>4, <1>5 DEF C!EnterPromoText

\* The message with the order's link says what the message that was tapped said.
OrderShown ==
    \A k \in C!Message :
        \/ screen'[k] = screen[k]
        \/ /\ screen'[k].what = "order"
           /\ screen'[k].quantity = screen[k].quantity
           /\ screen'[k].price = screen[k].price
           /\ screen'[k].target = screen[k].target

\* The order was not made: its message was left, edited or deleted.
LEMMA ConfirmFails ==
    ASSUME DialogueInv, state = "ORDER_CONFIRMATION", Complete(draft), Shown.what # "order", activeMessage # 0,
           state' = state, draft' = draft, C!Others, failures' \in Nat \ {0}, CanvasOK',
           NEW s \in {C!NoLink, C!Creating}, Painted(s, {activeMessage}), Shown' \in {Shown, C!NoLink, C!Creating, C!Gone}
    PROVE  DialogueInv' /\ LinksKept
<1>1. ChatTypeOK /\ Fits(state, draft, activeMessage # 0, Shown)
  BY DEF DialogueInv
<1>2. ChatTypeOK'
  BY <1>1 DEF ChatTypeOK, CanvasOK, C!Others
<1>3. ASSUME NEW x \in {C!NoLink, C!Creating, C!Gone}, NEW shown
      PROVE  Fits(state, draft, shown, x)
  <2>1. Neutral(x)
    BY NeutralScreens
  <2> QED  BY <2>1 DEF Fits, StateFits, ScreenFits, Neutral
<1>4. Fits(state, draft, activeMessage' # 0, Shown)
  BY <1>1 DEF Fits, StateFits
<1>5. Fits(state', draft', activeMessage' # 0, Shown')
  BY <1>3, <1>4
<1>6. activeMessage \in C!Message /\ screen[activeMessage] = Shown
  BY <1>1, ActiveIsMessage
<1>7. LinksKept
  <2>1. s.what \notin {"order", "gone"} /\ C!Gone.what = "gone"
    BY PlainScreens
  <2> QED  BY <1>6, <2>1 DEF Painted, LinksKept
<1> QED  BY <1>2, <1>5, <1>7 DEF DialogueInv

LEMMA ConfirmKeeps ==
    ASSUME DialogueInv, NEW m \in C!Message, C!Confirm(m)
    PROVE  DialogueInv' /\ (LinksKept \/ OrderShown)
<1>1. /\ C!Others /\ activeMessage = m /\ state = "ORDER_CONFIRMATION" /\ "confirm" \in C!Button(screen[m])
      /\ "ORDER_CONFIRMED" \in C!State /\ "ORDER_CONFIRMATION" \in C!State
  BY Handled DEF C!Confirm, C!Taps, DialogueInv, ChatTypeOK, C!State
<1>2. /\ ChatTypeOK /\ activeMessage # 0 /\ Shown = screen[m] /\ Shown \in SomeScreen
      /\ Fits(state, draft, TRUE, Shown) /\ draft \in C!Draft
  BY <1>1, Tapped
<1>3. Shown.what = "confirmation"
  BY <1>1, <1>2, OnScreen
<1>4. Shown = C!Confirmation(draft) /\ Complete(draft)
  BY <1>2, <1>3 DEF Fits, ScreenFits
<1>5. /\ sent \in 0..MaxMessages /\ activeMessage \in 0..sent /\ expired \subseteq C!Message
      /\ screen \in [C!Message -> SomeScreen] /\ failures \in Nat
  BY <1>2 DEF ChatTypeOK
<1>6. CASE C!Detour("ORDER_CONFIRMATION")
  BY <1>1, <1>2, <1>6, DetourKeeps
<1>7. CASE /\ draft' = draft
           /\ screen' = [screen EXCEPT ![m] = C!OrderLink(draft)]
           /\ state' = "ORDER_CONFIRMED" /\ UNCHANGED <<activeMessage, sent, expired, failures>>
  <2>1. /\ C!OrderLink(draft) \in SomeScreen /\ C!OrderLink(draft).what = "order"
        /\ C!OrderLink(draft).dest = ""
    BY <1>2, PaymentScreen
  <2>2. screen' \in [C!Message -> SomeScreen] /\ Shown' = C!OrderLink(draft)
    BY <1>1, <1>2, <1>5, <1>7, <2>1 DEF Shown
  <2>3. ChatTypeOK'
    BY <1>1, <1>2, <1>7, <2>2 DEF ChatTypeOK, C!Others
  <2>4. Fits("ORDER_CONFIRMED", draft, TRUE, C!OrderLink(draft))
    BY <2>1 DEF Fits, StateFits, ScreenFits
  <2>5. (activeMessage' # 0) = TRUE
    BY <1>2, <1>7
  <2>6. Fits(state', draft', activeMessage' # 0, Shown')
    BY <1>7, <2>2, <2>4, <2>5
  <2>7. WayOn("ORDER_CONFIRMED", Shown')
    BY DEF WayOn
  <2>8. OrderShown
    <3>1. /\ C!OrderLink(draft).quantity = C!Confirmation(draft).quantity
          /\ C!OrderLink(draft).price = C!Confirmation(draft).price
          /\ C!OrderLink(draft).target = C!Confirmation(draft).target
      BY DEF C!OrderLink, C!Confirmation, C!Screen
    <3>2. screen[m] = C!Confirmation(draft)
      BY <1>2, <1>4
    <3> QED  BY <1>5, <1>7, <2>1, <3>1, <3>2 DEF OrderShown
  <2> QED  BY <1>7, <2>3, <2>6, <2>7, <2>8 DEF DialogueInv
<1>8. CASE draft' = draft /\ C!Fault /\ state' = state /\ C!NoScreen /\ activeMessage' = activeMessage
  <2>1. failures' \in Nat \ {0}
    BY <1>2, <1>8, FaultCounts
  <2> QED  BY <1>1, <1>8, <2>1, NothingDrawn DEF C!NoScreen, C!Others
<1>9. CASE draft' = draft /\ C!Fault /\ state' = state /\ C!Put(m, C!NoLink) /\ activeMessage' = C!Newest(m)
  <2>1. failures' \in Nat \ {0} /\ C!NoLink \in SomeScreen
    BY <1>2, <1>9, FaultCounts, ScreenTypes
  <2>2. /\ sent' \in 0..MaxMessages /\ activeMessage' \in 1..sent' /\ expired' \subseteq C!Message
        /\ screen' \in [C!Message -> SomeScreen] /\ screen'[activeMessage'] = C!NoLink /\ Painted(C!NoLink, {activeMessage})
    BY <1>1, <1>2, <1>9, <2>1, PutFacts
  <2>3. activeMessage' # 0 /\ activeMessage' \in 0..sent'
    BY <2>2
  <2>4. CanvasOK' /\ Shown' = C!NoLink
    BY <2>2, <2>3 DEF CanvasOK, Shown
  <2> QED  BY <1>1, <1>2, <1>3, <1>4, <1>9, <2>1, <2>2, <2>4, ConfirmFails
<1>10. CASE /\ draft' = draft /\ C!Fault /\ state' = state
            /\ screen' = [screen EXCEPT ![m] = C!Creating] /\ UNCHANGED <<activeMessage, sent, expired>>
  <2>1. failures' \in Nat \ {0} /\ C!Creating \in SomeScreen
    BY <1>2, <1>10, FaultCounts, ScreenTypes
  <2>2. screen' \in [C!Message -> SomeScreen] /\ screen'[m] = C!Creating
    BY <1>5, <1>10, <2>1
  <2>3. CanvasOK' /\ Shown' = C!Creating /\ Painted(C!Creating, {activeMessage})
    BY <1>1, <1>2, <1>5, <1>10, <2>2 DEF CanvasOK, Shown, Painted
  <2> QED  BY <1>1, <1>2, <1>3, <1>4, <1>10, <2>1, <2>3, ConfirmFails
<1>11. CASE draft' = draft /\ C!Fault /\ state' = state /\ C!Delete({m}) /\ activeMessage' = 0
  <2>1. failures' \in Nat \ {0}
    BY <1>2, <1>11, FaultCounts
  <2>2. /\ sent' = sent /\ expired' = expired /\ screen' \in [C!Message -> SomeScreen]
        /\ Painted(C!NoLink, {activeMessage})
    BY <1>1, <1>2, <1>11, DeleteFacts
  <2>3. 0 \in 0..sent
    BY <1>5
  <2>4. CanvasOK' /\ Shown' = C!Gone
    BY <1>5, <1>11, <2>2, <2>3 DEF CanvasOK, Shown
  <2> QED  BY <1>1, <1>2, <1>3, <1>4, <1>11, <2>1, <2>2, <2>4, ConfirmFails
<1> QED  BY <1>6, <1>7, <1>8, <1>9, <1>10, <1>11 DEF C!Confirm

\* Where "back", and "I subscribed", lead from the screen that is shown.
LEMMA DestinationKeeps ==
    ASSUME DialogueInv, NEW m \in C!Message, activeMessage = m, NEW dest, dest = screen[m].dest,
           C!Destination(m, dest), C!Others,
           C!HasBack(screen[m]) \/ (state = "NOT_SUBSCRIBED" /\ screen[m].what = "subscribe")
    PROVE  DialogueInv' /\ LinksKept
<1>1. /\ ChatTypeOK /\ activeMessage # 0 /\ Shown = screen[m] /\ Shown \in SomeScreen
      /\ Fits(state, draft, TRUE, Shown) /\ draft \in C!Draft /\ state \in C!State
      /\ (activeMessage # 0) = TRUE
  BY Tapped DEF DialogueInv, ChatTypeOK
<1>2. Shown.what # "gone" /\ Shown.what # "order"
  BY <1>1, PlainScreens DEF C!HasBack
<1>3. state = "ENTER_GIFT_USERNAME" =>
         /\ Shown \in {C!EnterUsername, C!Recipients, C!Quantities}
         /\ dest \in {"CHOOSE_RECIPIENT", "CHOOSE_QUANTITY", "MAIN_MENU"}
  BY <1>1, <1>2, PlainScreens DEF Fits, StateFits
<1>4. state = "CUSTOM_QUANTITY_INPUT" => dest \in {"CHOOSE_QUANTITY", "MAIN_MENU"}
  BY <1>1, <1>2, PlainScreens DEF Fits, StateFits
<1>5. /\ {"MAIN_MENU", "CHOOSE_PAYMENT", "CHOOSE_QUANTITY", "CUSTOM_QUANTITY_INPUT", "CHOOSE_RECIPIENT",
          "ENTER_GIFT_USERNAME", "PROFILE"} \subseteq C!State
      /\ \A st \in {"MAIN_MENU", "CHOOSE_QUANTITY", "CHOOSE_RECIPIENT", "PROFILE"} : AsksNothing(st)
  BY DEF C!State, AsksNothing
<1>6. CASE dest = "MAIN_MENU" /\ C!ToMainMenu(m)
  BY <1>1, <1>2, <1>5, <1>6, Onward, BeginAgainKeeps DEF C!ToMainMenu
<1>7. CASE dest = "CHOOSE_PAYMENT" /\ C!ToPayment(m, draft) /\ draft' = draft
  <2>1. CASE draft.quantity = 0
    <3>1. state' \in {state, "none"} /\ UNCHANGED <<draft, activeMessage, screen, sent, expired, failures, member, moves>>
      BY <1>7, <2>1 DEF C!ToPayment, C!Raise, C!Others
    <3> QED  BY <3>1, NothingDrawn
  <2>2. CASE draft.quantity # 0
    <3>1. Shown.what \in {"promo", "confirmation", "subscribe"}
      BY <1>1, <1>7 DEF Fits, ScreenFits
    <3>2. Belongs(draft)
      BY <1>1, <1>7, <2>2, <3>1 DEF Fits, ScreenFits, Complete
    <3>3. state = "ORDER_CONFIRMATION" => Complete(draft)
      BY <1>1 DEF Fits, StateFits
    <3>4. /\ C!PaymentMethods(draft) \in SomeScreen /\ C!PaymentMethods(draft).what = "payment"
          /\ Fits("CHOOSE_PAYMENT", draft, TRUE, C!PaymentMethods(draft))
          /\ Fits(state, draft, TRUE, C!PaymentMethods(draft))
      BY <1>1, <1>3, <1>4, <1>5, <1>7, <2>2, <3>2, <3>3, PaymentScreen
    <3>5. C!Show(m, C!PaymentMethods(draft), "CHOOSE_PAYMENT", activeMessage)
      BY <1>7, <2>2 DEF C!ToPayment
    <3> QED  BY <1>1, <1>2, <1>5, <1>7, <3>4, <3>5, Onward, ShowKeeps
  <2> QED  BY <2>1, <2>2
<1>8. ASSUME NEW s \in {C!Quantities, C!EnterCustomQuantity, C!Recipients, C!EnterUsername, C!Profile},
             NEW next \in C!State, C!Show(m, s, next, activeMessage), draft' = draft, WayOn(next, s),
             AsksNothing(next)
                \/ (next = "CUSTOM_QUANTITY_INPUT" /\ s = C!EnterCustomQuantity)
                \/ (next = "ENTER_GIFT_USERNAME" /\ s = C!EnterUsername
                      /\ (draft.quantity # 0 => draft.mode = "GIFT")),
             state = "ENTER_GIFT_USERNAME" => s \in {C!EnterUsername, C!Recipients, C!Quantities},
             state = "CUSTOM_QUANTITY_INPUT" => s = C!Quantities
      PROVE  DialogueInv' /\ LinksKept
  <2>1. s \in SomeScreen /\ Neutral(s) /\ s.what \notin {"order", "gone"}
    BY ScreenTypes, NeutralScreens, PlainScreens
  <2>2. Fits(next, draft, TRUE, s)
    BY <1>8, <2>1 DEF Fits, StateFits, ScreenFits, Neutral, AsksNothing
  <2>3. Fits(state, draft, TRUE, s)
    BY <1>1, <1>8, <2>1 DEF Fits, StateFits, ScreenFits, Neutral
  <2> QED  BY <1>2, <1>8, <2>1, <2>2, <2>3, ShowKeeps
<1>9. CASE dest = "CHOOSE_QUANTITY" /\ C!Show(m, C!Quantities, "CHOOSE_QUANTITY", activeMessage) /\ draft' = draft
  BY <1>5, <1>8, <1>9, Onward
<1>10. CASE /\ dest = "CUSTOM_QUANTITY_INPUT" /\ draft' = draft
            /\ C!Show(m, C!EnterCustomQuantity, "CUSTOM_QUANTITY_INPUT", activeMessage)
  BY <1>3, <1>4, <1>5, <1>8, <1>10, Onward
<1>11. CASE dest = "CHOOSE_RECIPIENT" /\ C!Show(m, C!Recipients, "CHOOSE_RECIPIENT", activeMessage) /\ draft' = draft
  BY <1>4, <1>5, <1>8, <1>11, Onward
<1>12. CASE /\ dest = "ENTER_GIFT_USERNAME" /\ draft' = draft
            /\ C!Show(m, C!EnterUsername, "ENTER_GIFT_USERNAME", activeMessage)
  <2>1. Shown.what \in {"payment", "subscribe"}
    BY <1>1, <1>12 DEF Fits, ScreenFits
  <2>2. CASE Shown.what = "payment"
    <3>1. draft.target # Self /\ Belongs(draft)
      BY <1>1, <1>12, <2>2, PaymentScreen DEF Fits, ScreenFits
    <3>2. draft.mode = "GIFT"
      BY <3>1 DEF Belongs
    <3> QED  BY <1>3, <1>4, <1>5, <1>8, <1>12, <3>2, Onward
  <2>3. CASE Shown.what = "subscribe"
    <3>1. draft.quantity # 0 => draft.mode = "GIFT"
      BY <1>1, <1>12, <2>3 DEF Fits, ScreenFits
    <3> QED  BY <1>3, <1>4, <1>5, <1>8, <1>12, <3>1, Onward
  <2> QED  BY <2>1, <2>2, <2>3
<1>13. CASE dest = "PROFILE" /\ C!Show(m, C!Profile, "PROFILE", activeMessage) /\ draft' = draft
  BY <1>3, <1>4, <1>5, <1>8, <1>13, Onward
<1> QED
  <2>1. ASSUME NEW s \in {<<"CHOOSE_QUANTITY", C!Quantities>>, <<"CUSTOM_QUANTITY_INPUT", C!EnterCustomQuantity>>,
                          <<"CHOOSE_RECIPIENT", C!Recipients>>, <<"ENTER_GIFT_USERNAME", C!EnterUsername>>,
                          <<"PROFILE", C!Profile>>},
               dest = s[1], C!Show(m, s[2], s[1], activeMessage), draft' = draft
        PROVE  DialogueInv' /\ LinksKept
    <3>1. CASE s = <<"CHOOSE_QUANTITY", C!Quantities>>
      BY <2>1, <3>1, <1>9
    <3>2. CASE s = <<"CUSTOM_QUANTITY_INPUT", C!EnterCustomQuantity>>
      BY <2>1, <3>2, <1>10
    <3>3. CASE s = <<"CHOOSE_RECIPIENT", C!Recipients>>
      BY <2>1, <3>3, <1>11
    <3>4. CASE s = <<"ENTER_GIFT_USERNAME", C!EnterUsername>>
      BY <2>1, <3>4, <1>12
    <3>5. CASE s = <<"PROFILE", C!Profile>>
      BY <2>1, <3>5, <1>13
    <3> QED  BY <2>1, <3>1, <3>2, <3>3, <3>4, <3>5
  <2> QED  BY <1>6, <1>7, <2>1 DEF C!Destination

LEMMA BackKeeps ==
    ASSUME DialogueInv, NEW m \in C!Message, C!Back(m)
    PROVE  DialogueInv' /\ LinksKept
<1>1. C!Others /\ activeMessage = m /\ C!HasBack(screen[m]) /\ state # "none"
  BY DEF C!Back
<1>2. CASE C!End
  BY <1>1, <1>2, NothingDrawn DEF C!End, C!Others
<1>3. CASE C!Destination(m, screen[m].dest)
  BY <1>1, <1>3, DestinationKeeps
<1> QED  BY <1>2, <1>3 DEF C!Back

LEMMA SubscribedKeeps ==
    ASSUME DialogueInv, NEW m \in C!Message, C!Subscribed(m)
    PROVE  DialogueInv' /\ LinksKept
<1>1. /\ C!Others /\ activeMessage = m /\ state = "NOT_SUBSCRIBED" /\ "subscribed" \in C!Button(screen[m])
      /\ "NOT_SUBSCRIBED" \in C!State /\ "CHOOSE_QUANTITY" \in C!State
      /\ "ENTER_PROMO" \in C!State /\ "ORDER_CONFIRMATION" \in C!State
      /\ AsksNothing("CHOOSE_QUANTITY")
  BY Handled DEF C!Subscribed, C!Taps, DialogueInv, ChatTypeOK, C!State, AsksNothing
<1>2. /\ activeMessage # 0 /\ Shown = screen[m] /\ Shown \in SomeScreen
      /\ Fits(state, draft, TRUE, Shown) /\ draft \in C!Draft
  BY <1>1, Tapped
<1>3. Shown.what = "subscribe"
  BY <1>1, <1>2, OnScreen
<1>4. CASE C!End
  BY <1>1, <1>4, NothingDrawn DEF C!End, C!Others
<1>5. CASE draft' = C!EmptyDraft /\ C!Show(m, C!Quantities, "CHOOSE_QUANTITY", 0)
  BY <1>1, <1>5, Onward, BeginAgainKeeps
<1>6. CASE C!Destination(m, screen[m].dest)
  BY <1>1, <1>2, <1>3, <1>6, DestinationKeeps
<1>7. CASE /\ screen[m].dest = "ENTER_PROMO" /\ draft' = draft /\ draft.quantity # 0
           /\ C!Show(m, C!EnterPromo, "ENTER_PROMO", activeMessage)
  <2>1. C!EnterPromo \in SomeScreen /\ C!EnterPromo.what = "promo"
    BY ScreenTypes, PlainScreens
  <2>2. Belongs(draft)
    BY <1>2, <1>3, <1>7 DEF Fits, ScreenFits
  <2>3. Fits("ENTER_PROMO", draft, TRUE, C!EnterPromo)
    BY <2>2, PromoFits
  <2>4. Fits(state, draft, TRUE, C!EnterPromo)
    BY <1>1, <2>3 DEF Fits, StateFits
  <2> QED  BY <1>1, <1>7, <2>1, <2>3, <2>4, Onward, ShowKeeps
<1>8. CASE /\ screen[m].dest = "ORDER_CONFIRMATION" /\ draft' = draft
           /\ C!Show(m, C!Confirmation(draft), "ORDER_CONFIRMATION", activeMessage)
  <2>1. Complete(draft)
    BY <1>2, <1>3, <1>8 DEF Fits, ScreenFits
  <2>2. /\ C!Confirmation(draft) \in SomeScreen /\ C!Confirmation(draft).what = "confirmation"
        /\ Fits("ORDER_CONFIRMATION", draft, TRUE, C!Confirmation(draft))
        /\ Fits(state, draft, TRUE, C!Confirmation(draft))
    BY <1>1, <1>2, <2>1, PaymentScreen
  <2> QED  BY <1>1, <1>8, <2>2, Onward, ShowKeeps
<1> QED  BY <1>4, <1>5, <1>6, <1>7, <1>8 DEF C!Subscribed, C!StartsAgain

-----------------------------------------------------------------------------
(* Around the conversation, and the whole of it.                            *)

LEMMA OrderEndsKeeps ==
    ASSUME DialogueInv, NEW m \in C!Message, C!OrderEnds(m)
    PROVE  DialogueInv' /\ LinksKept
<1>1. /\ screen[m].what = "order" /\ screen' = [screen EXCEPT ![m] = C!Plain("status", "")]
      /\ UNCHANGED <<state, draft, activeMessage, sent, expired, member, failures, moves>>
  BY DEF C!OrderEnds
<1>2. ChatTypeOK /\ Fits(state, draft, activeMessage # 0, Shown) /\ (failures = 0 => WayOn(state, Shown))
  BY DEF DialogueInv
<1>3. /\ C!Plain("status", "") \in SomeScreen /\ C!Plain("status", "").what = "status"
      /\ C!Plain("status", "").dest = ""
  BY ScreenTypes, PlainScreens
<1>4. screen \in [C!Message -> SomeScreen] /\ screen' \in [C!Message -> SomeScreen]
  BY <1>1, <1>2, <1>3 DEF ChatTypeOK
<1>5. ChatTypeOK'
  BY <1>1, <1>2, <1>4 DEF ChatTypeOK
<1>6. LinksKept
  BY <1>1, <1>3, <1>4 DEF LinksKept
<1>7. CASE Shown' = Shown
  BY <1>1, <1>2, <1>5, <1>6, <1>7 DEF DialogueInv
<1>8. CASE Shown' # Shown
  <2>1. activeMessage # 0 /\ activeMessage = m
    BY <1>1, <1>2, <1>4, <1>8, ActiveIsMessage DEF Shown
  <2>2. Shown.what = "order" /\ Shown' = C!Plain("status", "")
    BY <1>1, <1>4, <2>1 DEF Shown
  <2>3. state \in {"none", "ORDER_CONFIRMED"}
    BY <1>2, <2>2 DEF Fits, StateFits
  <2>4. Fits(state, draft, activeMessage # 0, Shown')
    BY <1>3, <2>2, <2>3 DEF Fits, StateFits, ScreenFits
  <2>5. WayOn(state, Shown')
    BY <2>3 DEF WayOn
  <2> QED  BY <1>1, <1>5, <1>6, <2>4, <2>5 DEF DialogueInv
<1> QED  BY <1>7, <1>8

LEMMA RestartKeeps ==
    ASSUME DialogueInv, C!Restart
    PROVE  DialogueInv' /\ LinksKept
<1>1. /\ state' = "none" /\ draft' = C!EmptyDraft /\ activeMessage' = 0
      /\ UNCHANGED <<screen, sent, expired, member, moves>>
  BY DEF C!Restart
<1>2. ChatTypeOK /\ failures' \in Nat \ {0}
  BY FaultCounts DEF DialogueInv, C!Restart
<1>3. 0 \in 0..sent
  BY <1>2 DEF ChatTypeOK
<1>4. ChatTypeOK'
  BY <1>1, <1>2, <1>3, EmptyFits DEF ChatTypeOK, C!State
<1>5. Shown' = C!Gone
  BY <1>1 DEF Shown
<1>6. (activeMessage' # 0) = FALSE
  BY <1>1
<1>7. Fits(state', draft', activeMessage' # 0, Shown')
  BY <1>1, <1>5, <1>6, EmptyFits
<1>8. LinksKept
  BY <1>1 DEF LinksKept
<1> QED  BY <1>2, <1>4, <1>7, <1>8 DEF DialogueInv

LEMMA AroundKeeps ==
    ASSUME DialogueInv, C!Moves \/ C!ButtonsExpire \/ UNCHANGED C!vars
    PROVE  DialogueInv' /\ LinksKept
<1>1. UNCHANGED <<state, draft, activeMessage, screen, sent>>
  BY DEF C!Moves, C!ButtonsExpire, C!vars
<1>2. ChatTypeOK /\ Fits(state, draft, activeMessage # 0, Shown) /\ (failures = 0 => WayOn(state, Shown))
  BY DEF DialogueInv
<1>3. Shown' = Shown
  BY <1>1 DEF Shown
<1>4. failures' = failures \/ failures' \in Nat \ {0}
  BY <1>2, FaultCounts DEF C!Moves, C!ButtonsExpire, C!vars
<1>5. expired' \subseteq C!Message
  <2>1. 1..sent \subseteq C!Message
    <3>1. sent \in 0..MaxMessages /\ MaxMessages \in Nat
      BY <1>2, BotAssumption DEF ChatTypeOK, C!ConversationAssumption
    <3>2. 1..sent \subseteq 1..MaxMessages
      BY <3>1
    <3> QED  BY <3>2 DEF C!Message
  <2> QED  BY <1>2, <2>1 DEF ChatTypeOK, C!Moves, C!ButtonsExpire, C!vars
<1>6. moves' \in Nat /\ member' \in BOOLEAN
  <2>1. moves \in Nat /\ member \in BOOLEAN
    BY <1>2 DEF ChatTypeOK
  <2>2. CASE C!Moves
    <3>1. moves' = moves + 1 /\ member' = ~member
      BY <2>2 DEF C!Moves
    <3>2. moves' \in Nat
      BY <2>1, <3>1
    <3> QED  BY <3>1, <3>2
  <2>3. CASE ~C!Moves
    <3>1. moves' = moves /\ member' = member
      BY <2>3 DEF C!ButtonsExpire, C!vars
    <3> QED  BY <2>1, <3>1
  <2> QED  BY <2>2, <2>3
<1>7. ChatTypeOK'
  BY <1>1, <1>2, <1>4, <1>5, <1>6 DEF ChatTypeOK
<1>8. Fits(state', draft', activeMessage' # 0, Shown')
  BY <1>1, <1>2, <1>3
<1>9. failures' = 0 => WayOn(state', Shown')
  BY <1>1, <1>2, <1>3, <1>4
<1>10. LinksKept
  BY <1>1 DEF LinksKept
<1> QED  BY <1>7, <1>8, <1>9, <1>10 DEF DialogueInv

LEMMA DialogueInit == C!Init => DialogueInv
<1> SUFFICES ASSUME C!Init  PROVE DialogueInv
  OBVIOUS
<1>1. /\ state = "none" /\ draft = C!EmptyDraft /\ activeMessage = 0 /\ screen = [m \in C!Message |-> C!Gone]
      /\ sent = 0 /\ expired = {} /\ member \in BOOLEAN /\ failures = 0 /\ moves = 0
  BY DEF C!Init
<1>2. MaxMessages \in Nat
  BY BotAssumption DEF C!ConversationAssumption
<1>3. 0 \in 0..MaxMessages /\ 0 \in 0..0 /\ 0 \in Nat
  BY <1>2
<1>4. screen \in [C!Message -> SomeScreen]
  BY <1>1, ScreenTypes
<1>5. ChatTypeOK
  BY <1>1, <1>3, <1>4, EmptyFits DEF ChatTypeOK, C!State
<1>6. Shown = C!Gone /\ (activeMessage # 0) = FALSE
  BY <1>1 DEF Shown
<1>7. Fits(state, draft, activeMessage # 0, Shown)
  BY <1>1, <1>6, EmptyFits
<1>8. WayOn(state, Shown)
  BY <1>1 DEF WayOn
<1> QED  BY <1>5, <1>7, <1>8 DEF DialogueInv

LEMMA DialogueStep ==
    DialogueInv /\ [C!Next]_dialogue => DialogueInv' /\ (LinksKept \/ OrderShown)
<1> SUFFICES ASSUME DialogueInv, [C!Next]_dialogue
             PROVE  DialogueInv' /\ (LinksKept \/ OrderShown)
  OBVIOUS
<1>1. ASSUME NEW m \in C!Message, C!Tap(m)
      PROVE  DialogueInv' /\ (LinksKept \/ OrderShown)
  BY <1>1, RepeatKeeps, MainMenuTapKeeps, ProfileTapKeeps, FixedQuantityKeeps, CustomQuantityKeeps,
     RecipientSelfKeeps, RecipientGiftKeeps, RecipientElseKeeps, PaymentMethodKeeps, PromoKeeps,
     CancelPromoKeeps, ConfirmKeeps, BackKeeps, SubscribedKeeps DEF C!Tap
<1>2. ASSUME C!Text  PROVE DialogueInv' /\ LinksKept
  BY <1>2, StartKeeps, CustomQuantityInputKeeps, GiftUsernameKeeps, EnterPromoTextKeeps DEF C!Text
<1>3. ASSUME NEW m \in C!Message, C!OrderEnds(m)  PROVE DialogueInv' /\ LinksKept
  BY <1>3, OrderEndsKeeps
<1>4. ASSUME C!Restart  PROVE DialogueInv' /\ LinksKept
  BY <1>4, RestartKeeps
<1>5. ASSUME C!Moves \/ C!ButtonsExpire \/ UNCHANGED C!vars  PROVE DialogueInv' /\ LinksKept
  BY <1>5, AroundKeeps
<1>6. CASE C!Next
  <2>1. \/ \E m \in C!Message : C!Tap(m) \/ C!OrderEnds(m)
        \/ C!Text \/ C!Restart
        \/ C!Moves \/ C!ButtonsExpire
    BY <1>6 DEF C!Next
  <2> QED  BY <2>1, <1>1, <1>2, <1>3, <1>4, <1>5
<1>7. CASE UNCHANGED dialogue
  BY <1>5, <1>7 DEF C!vars, dialogue
<1> QED  BY <1>6, <1>7

-----------------------------------------------------------------------------
(* The parts together.                                                      *)

P == INSTANCE PromoCodeProofs
        WITH GlobalLimit <- AccountLimit + 1, MaxFaults <- 0, MaxLate <- 0,
             active <- roomyActive, used <- roomyUsed, at <- roomyAt,
             keys <- roomyKeys, price <- roomyPrice, pc <- roomyPc, got <- roomyGot,
             lock <- roomyLock, order <- roomyOrder, faults <- roomyFaults,
             late <- roomyLate

\* The roomy instance is one of PromoCode, with what that assumes of its constants, and
\* PromoCodeProofs is about it.
LEMMA RoomyAssumption == P!PromoCodeAssumption
BY PromoCodeAssumption DEF P!PromoCodeAssumption, P!IsFiniteSet, IsFiniteSet

LEMMA OneCardinality ==
    ASSUME NEW S
    PROVE  P!Cardinality(S) = Cardinality(S) /\ Roomy!Cardinality(S) = Cardinality(S)
BY DEF P!Cardinality, Roomy!Cardinality, Cardinality

LEMMA RoomyInit == Roomy!Init => P!LimitInv
<1>1. P!Init => P!LimitInv
  BY P!LimitInit, RoomyAssumption
<1>2. Roomy!Init => P!Init
  BY DEF Roomy!Init, P!Init
<1> QED  BY <1>1, <1>2

LEMMA RoomyNext == Roomy!Next => P!Next
<1>1. ASSUME NEW u \in User, Roomy!Taps(u)  PROVE P!Taps(u)
  BY <1>1 DEF Roomy!Taps, P!Taps, Roomy!ShowPaymentMethods, P!ShowPaymentMethods,
              Roomy!AskForPromo, P!AskForPromo, Roomy!CancelPromo, P!CancelPromo,
              Roomy!ChoosePaymentMethod, P!ChoosePaymentMethod, Roomy!Enter, P!Enter,
              Roomy!Confirm, P!Confirm, Roomy!Go, P!Go, Roomy!PriceFor, P!PriceFor
<1>2. ASSUME NEW u \in User, Roomy!Handler(u)  PROVE P!Handler(u)
  <2>1. Roomy!CountOrders(u) => P!CountOrders(u)
    BY OneCardinality DEF Roomy!CountOrders, P!CountOrders, Roomy!Uses, P!Uses, Roomy!AllUses, P!AllUses,
           Roomy!Refuse, P!Refuse, Roomy!Leave, P!Leave
  <2>2. Roomy!CountUsers(u) => P!CountUsers(u)
    BY OneCardinality DEF Roomy!CountUsers, P!CountUsers, Roomy!Refuse, P!Refuse, Roomy!Leave, P!Leave
  <2>3. Roomy!Activate(u) => P!Activate(u)
    BY DEF Roomy!Activate, P!Activate, Roomy!Leave, P!Leave, Roomy!Go, P!Go,
           Roomy!PriceFor, P!PriceFor
  <2>4. ASSUME NEW o \in Order, Roomy!CreateOrder(u, o)  PROVE P!CreateOrder(u, o)
    BY <2>4 DEF Roomy!CreateOrder, P!CreateOrder
  <2>5. Roomy!ShowLink(u) => P!ShowLink(u)
    BY DEF Roomy!ShowLink, P!ShowLink, Roomy!Go, P!Go, Roomy!Leave, P!Leave
  <2>6. Roomy!ClearPromo(u) => P!ClearPromo(u)
    BY DEF Roomy!ClearPromo, P!ClearPromo, Roomy!Go, P!Go, Roomy!Leave, P!Leave
  <2> QED  BY <1>2, <2>1, <2>2, <2>3, <2>4, <2>5, <2>6 DEF Roomy!Handler, P!Handler
<1>3. ASSUME NEW u \in User, Roomy!HandlerFails(u)  PROVE P!HandlerFails(u)
  BY <1>3 DEF Roomy!HandlerFails, P!HandlerFails, Roomy!Leave, P!Leave
<1>4. Roomy!Deactivate => P!Deactivate
  BY DEF Roomy!Deactivate, P!Deactivate
<1>5. ASSUME NEW o \in Order, Roomy!StopCounting(o) \/ Roomy!CountAgain(o)
      PROVE  P!StopCounting(o) \/ P!CountAgain(o)
  BY <1>5 DEF Roomy!StopCounting, P!StopCounting, Roomy!CountAgain, P!CountAgain
<1> QED  BY <1>1, <1>2, <1>3, <1>4, <1>5 DEF Roomy!Next, P!Next

LEMMA RoomyStep ==
    ASSUME P!LimitInv, Roomy!Next \/ UNCHANGED roomyVars
    PROVE  P!LimitInv'
<1>1. ASSUME P!Next  PROVE P!LimitInv'
  BY <1>1, P!StepKeepsLimit, RoomyAssumption
<1>2. ASSUME UNCHANGED roomyVars  PROVE P!LimitInv'
  BY <1>2, P!StepKeepsLimit, RoomyAssumption DEF P!vars, roomyVars
<1> QED  BY <1>1, <1>2, RoomyNext

LEMMA RoomyInvariants ==
    ASSUME P!LimitInv
    PROVE  Roomy!PromoCodeInv /\ Roomy!AccountLimitKept
<1>1. P!IInv /\ \A u \in User : Cardinality(P!Uses(u)) <= AccountLimit
  BY OneCardinality DEF P!LimitInv
<1>2. Roomy!AccountLimitKept
  BY <1>1, OneCardinality DEF Roomy!AccountLimitKept, Roomy!Uses, P!Uses
<1>3. P!PromoCodeInv => Roomy!PromoCodeInv
  <2>1. P!PromoCodeTypeOK => Roomy!PromoCodeTypeOK
    BY DEF P!PromoCodeTypeOK, Roomy!PromoCodeTypeOK, P!At, Roomy!At, P!Pc, Roomy!Pc,
           P!Prices, Roomy!Prices, P!Transaction, Roomy!Transaction
  <2>2. P!EntriesExclude => Roomy!EntriesExclude
    BY OneCardinality DEF P!EntriesExclude, Roomy!EntriesExclude
  <2>3. P!DiscountFollows => Roomy!DiscountFollows
    BY DEF P!DiscountFollows, Roomy!DiscountFollows
  <2> QED  BY <2>1, <2>2, <2>3 DEF P!PromoCodeInv, Roomy!PromoCodeInv
<1> QED  BY <1>1, <1>2, <1>3 DEF P!IInv

\* What every step of the bot keeps.
BotIInv == IInv /\ P!LimitInv /\ DialogueInv

LEMMA BotStarts == BotInit => BotIInv
BY InitInv, RoomyInit, DialogueInit DEF BotInit, BotIInv

LEMMA BotSteps ==
    ASSUME BotIInv, [PromoCodeMoves \/ RoomyCodeMoves \/ ConversationMoves]_botVars
    PROVE  BotIInv' /\ (LinksKept \/ OrderShown)
<1>1. Next \/ UNCHANGED vars
  BY DEF PromoCodeMoves, RoomyCodeMoves, ConversationMoves, botVars, vars
<1>2. Roomy!Next \/ UNCHANGED roomyVars
  BY DEF PromoCodeMoves, RoomyCodeMoves, ConversationMoves, botVars, roomyVars
<1>3. C!Next \/ UNCHANGED dialogue
  BY DEF PromoCodeMoves, RoomyCodeMoves, ConversationMoves, botVars, dialogue
<1>4. IInv'
  BY <1>1, StepKeepsInv DEF BotIInv
<1>5. P!LimitInv'
  BY <1>2, RoomyStep DEF BotIInv
<1>6. DialogueInv' /\ (LinksKept \/ OrderShown)
  BY <1>3, DialogueStep DEF BotIInv
<1> QED  BY <1>4, <1>5, <1>6 DEF BotIInv

LEMMA BotKeepsIt == BotSpec => []BotIInv
<1>1. BotIInv /\ [PromoCodeMoves \/ RoomyCodeMoves \/ ConversationMoves]_botVars => BotIInv'
  BY BotSteps
<1> QED  BY <1>1, BotStarts, PTL DEF BotSpec

\* order.py:207, 290-297, 345-352: where an order can be made, the draft is complete and
\* belongs together, however the user went back, started again or left the channel; and
\* handle_enter_promo counts for one user at a time, at its small limits and at roomy ones.
THEOREM BotIsSound == BotSpec => []BotInv
<1>1. ASSUME DialogueInv  PROVE C!ConversationInv
  <2>1. ChatTypeOK /\ Fits(state, draft, activeMessage # 0, Shown)
    BY <1>1 DEF DialogueInv
  <2>2. activeMessage \in 0..MaxMessages
    <3>1. sent \in 0..MaxMessages /\ activeMessage \in 0..sent /\ MaxMessages \in Nat
      BY <2>1, BotAssumption DEF ChatTypeOK, C!ConversationAssumption
    <3> QED  BY <3>1
  <2>3. \A m \in C!Message : screen[m].quantity \in Quantity \cup {0} /\ screen[m].price \in Quantity \cup {0}
    BY <2>1 DEF ChatTypeOK, SomeScreen
  <2>4. C!ConversationTypeOK
    BY <2>1, <2>2, <2>3 DEF ChatTypeOK, C!ConversationTypeOK
  <2>5. C!DraftIsComplete
    BY <2>1 DEF Fits, StateFits, Complete, Belongs, C!DraftIsComplete
  <2> QED  BY <2>4, <2>5 DEF C!ConversationInv
<1>2. BotIInv => BotInv
  BY <1>1, RoomyInvariants DEF BotIInv, IInv, BotInv
<1> QED  BY <1>2, BotKeepsIt, PTL

\* models.py:39, "usage_account": where no handler fails and no cancelled order is paid, a
\* user's orders with the code that count stay within the limit, for any limit above
\* which there is one more use in all.
THEOREM UndisturbedLimit == BotSpec => []UndisturbedLimitKept
<1>1. BotIInv => UndisturbedLimitKept
  BY RoomyInvariants DEF BotIInv, UndisturbedLimitKept
<1> QED  BY <1>1, BotKeepsIt, PTL

\* router.py: while nothing failed, the message of the conversation has a button that its
\* state handles, or the user is asked for a text, or the order waits for its payment.
THEOREM NoDeadEnds == BotSpec => []NoDeadEnd
<1>1. ASSUME DialogueInv  PROVE C!NoDeadEnd
  <2> SUFFICES ASSUME failures = 0, state \notin {"none", "ORDER_CONFIRMED"}, ~C!TakesText(state)
               PROVE  /\ activeMessage # 0
                      /\ \/ C!HasBack(screen[activeMessage])
                         \/ C!Button(screen[activeMessage]) \cap C!Handles(state) # {}
    BY DEF C!NoDeadEnd
  <2>1. WayOn(state, Shown) /\ ChatTypeOK
    BY <1>1 DEF DialogueInv
  <2>2. \/ C!HasBack(Shown)
        \/ state = "MAIN_MENU" /\ Shown.what = "main menu"
        \/ state = "NOT_SUBSCRIBED" /\ Shown.what = "subscribe"
    BY <2>1 DEF WayOn
  <2>3. Shown.what # "gone"
    BY <2>2 DEF C!HasBack
  <2>4. activeMessage # 0
    BY <2>3, PlainScreens DEF Shown
  <2>5. Shown = screen[activeMessage]
    BY <2>1, <2>4, ActiveIsMessage
  <2>6. CASE C!HasBack(Shown)
    BY <2>4, <2>5, <2>6
  <2>7. CASE state = "MAIN_MENU" /\ Shown.what = "main menu"
    <3>1. "buy" \in C!Button(Shown) /\ "buy" \in C!Handles(state)
      BY <2>7 DEF C!Button, C!Handles
    <3> QED  BY <2>4, <2>5, <3>1
  <2>8. CASE state = "NOT_SUBSCRIBED" /\ Shown.what = "subscribe"
    <3>1. "subscribed" \in C!Button(Shown) /\ "subscribed" \in C!Handles(state)
      BY <2>8 DEF C!Button, C!Handles
    <3> QED  BY <2>4, <2>5, <3>1
  <2> QED  BY <2>2, <2>6, <2>7, <2>8
<1>2. BotIInv => NoDeadEnd
  BY <1>1 DEF BotIInv, NoDeadEnd
<1> QED  BY <1>2, BotKeepsIt, PTL

\* order.py:345-352: the order that is made is the one on the message whose button was
\* tapped: what the handler reads of the draft is what the user was shown.
THEOREM ShownIsOrdered == BotSpec => WhatIsShownIsOrdered
<1>1. ASSUME BotIInv, [PromoCodeMoves \/ RoomyCodeMoves \/ ConversationMoves]_botVars,
             NEW m \in C!Message, screen[m].what = "confirmation", screen'[m].what = "order"
      PROVE  /\ screen'[m].quantity = screen[m].quantity
             /\ screen'[m].price = screen[m].price
             /\ screen'[m].target = screen[m].target
  <2>1. LinksKept \/ OrderShown
    BY <1>1, BotSteps
  <2> QED  BY <1>1, <2>1 DEF LinksKept, OrderShown
<1>2. BotIInv /\ [PromoCodeMoves \/ RoomyCodeMoves \/ ConversationMoves]_botVars =>
        [\A m \in C!Message :
            screen[m].what = "confirmation" /\ screen'[m].what = "order" =>
                /\ screen'[m].quantity = screen[m].quantity
                /\ screen'[m].price = screen[m].price
                /\ screen'[m].target = screen[m].target]_screen
  BY <1>1
<1> QED  BY <1>2, BotKeepsIt, PTL DEF BotSpec, WhatIsShownIsOrdered, C!WhatIsShownIsOrdered

\* context.py, subscription.py: no handler deletes a message with the link to an order's
\* payment, but for a user who left the channel.
THEOREM LinksStay == BotSpec => LinkStays
<1>1. ASSUME BotIInv, [PromoCodeMoves \/ RoomyCodeMoves \/ ConversationMoves]_botVars,
             NEW m \in C!Message, screen[m].what = "order", screen'[m].what = "gone"
      PROVE  ~member
  <2>1. LinksKept \/ OrderShown
    BY <1>1, BotSteps
  <2> QED  BY <1>1, <2>1 DEF LinksKept, OrderShown
<1>2. BotIInv /\ [PromoCodeMoves \/ RoomyCodeMoves \/ ConversationMoves]_botVars =>
        [\A m \in C!Message :
            screen[m].what = "order" /\ screen'[m].what = "gone" => ~member]_screen
  BY <1>1
<1> QED  BY <1>2, BotKeepsIt, PTL DEF BotSpec, LinkStays, C!LinkStays
=============================================================================
