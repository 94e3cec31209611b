---------------------------- MODULE Conversation ----------------------------
(***************************************************************************)
(* The dialogue of one user with the bot, from /start to the order: the    *)
(* ConversationHandler of bot/router.py, its handlers (bot/handlers), the  *)
(* view context (bot/context.py), the screens and keyboards (bot/renderers,*)
(* bot/keyboards), the buttons' data in Redis (bot/callbacks.py) and the   *)
(* two decorators of bot/utils.                                            *)
(*                                                                         *)
(* The handlers run one at a time: while one runs the conversation is      *)
(* WAITING and every tap or text is answered by _bot_is_busy.  One that    *)
(* raises leaves the state as it was, but not the view context, nor the    *)
(* chat: error_handler only sends a message.                               *)
(*                                                                         *)
(* The chat keeps every message the bot sent, with its keyboard, and the   *)
(* user may tap any of them: an older order's, one that was left when      *)
(* /start was sent, one whose state is long gone.  A price is in the data  *)
(* of the payment method's button (order.py:293), and the quantity in the  *)
(* view context.                                                           *)
(***************************************************************************)
EXTENDS Naturals

CONSTANTS
    Quantity,     \* numbers of stars the user may choose, 0 is none
    Friend,       \* usernames of receivers of gifts
    Self,         \* the empty target_username
    MaxMessages, MaxFaults, MaxMoves

ConversationAssumption ==
    /\ Quantity \subseteq Nat \ {0}
    /\ Self \notin Friend
    /\ {MaxMessages, MaxFaults, MaxMoves} \subseteq Nat

VARIABLES
    state,    \* of the conversation
    draft,    \* ViewContext.order
    active,   \* ViewContext.active_conversation, 0 is None
    screen,   \* the chat: what each message shows
    sent,     \* messages sent so far
    expired,  \* messages whose buttons' data is no longer in Redis
    member,   \* the user is subscribed to the channel
    faults,   \* failures of Telegram, restarts, times of two days without a button
    moves     \* times the user joined or left the channel

vars == <<state, draft, active, screen, sent, expired, member, faults, moves>>

Message == 1..MaxMessages

State ==
    {"none", "NOT_SUBSCRIBED", "MAIN_MENU", "INFO", "SUPPORT", "PROFILE",
     "ORDER_HISTORY", "CHOOSE_QUANTITY", "CUSTOM_QUANTITY_INPUT",
     "LARGE_ORDER_WARNING", "CHOOSE_RECIPIENT", "ENTER_GIFT_USERNAME",
     "CHOOSE_PAYMENT", "ENTER_PROMO", "ORDER_CONFIRMATION", "ORDER_CONFIRMED"}

(* A price is named by the quantity it was computed for.                     *)
Draft == [quantity: Quantity \cup {0}, mode: {"none", "SELF", "GIFT"},
          target: Friend \cup {Self}, price: Quantity \cup {0}]
EmptyDraft == [quantity |-> 0, mode |-> "none", target |-> Self, price |-> 0]

(* A screen: its kind, the destination of its "back" or "I subscribed"       *)
(* button, the quantity and the prices on it, and for whom.                  *)
Screen(what, dest, quantity, price, target) ==
    [what |-> what, dest |-> dest, quantity |-> quantity, price |-> price, target |-> target]
Plain(what, dest) == Screen(what, dest, 0, 0, Self)

Gone == Plain("gone", "")

-----------------------------------------------------------------------------
(* Screens and their keyboards                                               *)

MainMenu   == Plain("main menu", "")
Info       == Plain("info", "MAIN_MENU")
Support    == Plain("support", "MAIN_MENU")
Profile    == Plain("profile", "MAIN_MENU")
History    == Plain("history", "PROFILE")
Quantities == Plain("quantity", "MAIN_MENU")
EnterCustomQuantity == Plain("custom quantity", "CHOOSE_QUANTITY")
LargeOrder == Plain("large order", "CUSTOM_QUANTITY_INPUT")
Recipients == Plain("recipient", "CHOOSE_QUANTITY")
EnterUsername == Plain("username", "CHOOSE_RECIPIENT")  \* also: searching, not found
EnterPromo == Plain("promo", "CHOOSE_PAYMENT")
Creating   == Plain("creating", "")
NoLink     == Plain("no link", "MAIN_MENU")
Subscribe(dest) == Plain("subscribe", dest)

PaymentMethods(d) ==
    Screen("payment", IF d.target = Self THEN "CHOOSE_RECIPIENT" ELSE "ENTER_GIFT_USERNAME",
           0, d.quantity, d.target)
Confirmation(d) ==
    Screen("confirmation", "CHOOSE_PAYMENT", d.quantity, d.price, d.target)
OrderLink(d) == Screen("order", "", d.quantity, d.price, d.target)

HasBack(s) ==
    s.what \in {"info", "support", "profile", "history", "quantity", "custom quantity",
                "large order", "recipient", "username", "payment", "promo",
                "confirmation", "no link"}

\* Which buttons a screen has besides "back", and the states that handle them.
Button(s) ==
    CASE s.what = "main menu"    -> {"buy", "info", "support", "profile"}
      [] s.what = "profile"      -> {"history"}
      [] s.what = "history"      -> {"page"}
      [] s.what = "quantity"     -> {"fixed", "custom"}
      [] s.what = "recipient"    -> {"self", "gift"}
      [] s.what = "payment"      -> {"method", "promo"}
      [] s.what = "promo"        -> {"cancel promo"}
      [] s.what = "confirmation" -> {"confirm"}
      [] s.what = "subscribe"    -> {"subscribed"}
      [] s.what = "status"       -> {"repeat"}
      [] OTHER                   -> {}

Handles(st) ==
    CASE st = "none"               -> {"repeat"}
      [] st = "NOT_SUBSCRIBED"     -> {"subscribed"}
      [] st = "MAIN_MENU"          -> {"buy", "info", "support", "profile"}
      [] st = "PROFILE"            -> {"history"}
      [] st = "ORDER_HISTORY"      -> {"page"}
      [] st = "CHOOSE_QUANTITY"    -> {"fixed", "custom"}
      [] st = "CHOOSE_RECIPIENT"   -> {"self", "gift"}
      [] st = "CHOOSE_PAYMENT"     -> {"method", "promo"}
      [] st = "ENTER_PROMO"        -> {"cancel promo"}
      [] st = "ORDER_CONFIRMATION" -> {"confirm"}
      [] st = "ORDER_CONFIRMED"    -> {"repeat"}
      [] OTHER                     -> {}

TakesText(st) == st \in {"CUSTOM_QUANTITY_INPUT", "ENTER_GIFT_USERNAME", "ENTER_PROMO"}

\* Buttons that are found by their pattern alone; the others have data in Redis.
HasData(b) == b \notin {"custom", "promo", "cancel promo", "confirm", "repeat"}

-----------------------------------------------------------------------------
ConversationTypeOK ==
    /\ state \in State
    /\ draft \in Draft
    /\ active \in 0..MaxMessages
    /\ sent \in 0..MaxMessages /\ expired \subseteq Message
    /\ \A m \in Message : screen[m].quantity \in Quantity \cup {0}
                       /\ screen[m].price \in Quantity \cup {0}
    /\ member \in BOOLEAN
    /\ {faults, moves} \subseteq Nat

Init ==
    /\ state = "none" /\ draft = EmptyDraft /\ active = 0
    /\ screen = [m \in Message |-> Gone]
    /\ sent = 0 /\ expired = {}
    /\ member \in BOOLEAN
    /\ faults = 0 /\ moves = 0

-----------------------------------------------------------------------------
(* Rendering                                                                 *)

Fault == faults < MaxFaults /\ faults' = faults + 1

\* A new message; the messages in "drop" are deleted.
Send(s, drop) ==
    /\ sent < MaxMessages
    /\ sent' = sent + 1
    /\ screen' = [m \in Message |-> CASE m = sent + 1 -> s
                                      [] m \in drop   -> Gone
                                      [] OTHER        -> screen[m]]
    /\ expired' = expired \ {sent + 1}

Delete(drop) ==
    /\ screen' = [m \in Message |-> IF m \in drop THEN Gone ELSE screen[m]]
    /\ UNCHANGED <<sent, expired>>

\* render_screen after a tap on m: the message is edited, or deleted and replaced by
\* a new one when it cannot be (a text cannot become a picture).
Put(m, s) ==
    \/ /\ screen' = [screen EXCEPT ![m] = s]
       /\ expired' = expired \ {m} /\ UNCHANGED sent
    \/ Send(s, {m})

\* The message that is active once s was put, m being the one that was tapped.
Newest(m) == IF sent' > sent THEN sent' ELSE m

NoScreen == UNCHANGED <<screen, sent, expired>>

\* The handler shows s and ends with the state next; or Telegram fails, perhaps after
\* the screen was put: the state stays, and the view context's message is "was".
Show(m, s, next, was) ==
    \/ Put(m, s) /\ active' = Newest(m) /\ state' = next /\ UNCHANGED faults
    \/ Fault /\ active' = was /\ UNCHANGED state
       /\ (NoScreen \/ Delete({m}) \/ Put(m, s))

\* The same for a text of the user, whose message is deleted and not modelled.
ShowBelow(s, drop, next, was) ==
    \/ Send(s, drop) /\ active' = sent' /\ state' = next /\ UNCHANGED faults
    \/ Fault /\ active' = was /\ UNCHANGED state
       /\ (NoScreen \/ Delete(drop) \/ Send(s, drop))

Raise == UNCHANGED <<state, active, screen, sent, expired>>

-----------------------------------------------------------------------------
(* The decorators                                                            *)

TapsAny(m, b) ==  \* a slip: a tap on any message counts
    /\ b \in Button(screen[m]) /\ b \in Handles(state)

\* ensure_use_active_conversation_with_callback, for a button the state handles.
Taps(m, b) ==
    /\ active = m
    /\ b \in Handles(state) /\ b \in Button(screen[m])

\* manage_callback_data: a button older than two days ends the conversation.
Old(m, b) == HasData(b) /\ m \in expired
End == state' = "none" /\ UNCHANGED <<draft, active, screen, sent, expired, faults>>

DetourInPlace(dest) ==  \* a slip: the state of the detour is not returned
    /\ ~member
    /\ ShowBelow(Subscribe(dest), {active}, state, active)
    /\ UNCHANGED draft

\* require_subscription for who left the channel: the active message goes.
Detour(dest) ==
    /\ ~member
    /\ ShowBelow(Subscribe(dest), {active}, "NOT_SUBSCRIBED", active)
    /\ UNCHANGED draft

Others == UNCHANGED <<member, moves>>

-----------------------------------------------------------------------------
(* start.py and the main menu                                                *)

Start ==
    /\ draft' = EmptyDraft
    /\ ShowBelow(MainMenu, {}, "MAIN_MENU", 0)
    /\ Others

ToMainMenu(m) == draft' = EmptyDraft /\ Show(m, MainMenu, "MAIN_MENU", 0)

RepeatDeleting(m) ==  \* a slip: the active message is deleted for the new one
    /\ "repeat" \in Handles(state) /\ "repeat" \in Button(screen[m])
    /\ \/ Detour("CHOOSE_QUANTITY")
       \/ /\ member /\ draft' = EmptyDraft
          /\ ShowBelow(Quantities, {active}, "CHOOSE_QUANTITY", 0)
    /\ Others

\* The button of a message that shows an order's end; it is not compared with the
\* active message.
Repeat(m) ==
    /\ "repeat" \in Handles(state) /\ "repeat" \in Button(screen[m])
    /\ \/ Detour("CHOOSE_QUANTITY")
       \/ /\ member /\ draft' = EmptyDraft
          /\ ShowBelow(Quantities, {}, "CHOOSE_QUANTITY", 0)
    /\ Others

MainMenuTap(m) ==
    /\ \E b \in {"buy", "info", "support", "profile"} :
          /\ Taps(m, b)
          /\ \/ Old(m, b) /\ End
             \/ /\ ~Old(m, b) /\ b = "buy"
                /\ \/ Detour("MAIN_MENU")
                   \/ /\ member /\ UNCHANGED draft
                      /\ Show(m, Quantities, "CHOOSE_QUANTITY", active)
             \/ /\ ~Old(m, b) /\ UNCHANGED draft
                /\ \/ b = "info" /\ Show(m, Info, "INFO", active)
                   \/ b = "support" /\ Show(m, Support, "SUPPORT", active)
                   \/ b = "profile" /\ Show(m, Profile, "PROFILE", active)
    /\ Others

ProfileTap(m) ==
    /\ \E b \in {"history", "page"} :
          /\ Taps(m, b)
          /\ \/ Old(m, b) /\ End
             \/ ~Old(m, b) /\ Show(m, History, "ORDER_HISTORY", active) /\ UNCHANGED draft
    /\ Others

-----------------------------------------------------------------------------
(* order.py: the quantity and the receiver                                   *)

\* show_payment_methods; without a quantity the prices are a TypeError.
ToPayment(m, d) ==
    IF d.quantity = 0 THEN Raise /\ UNCHANGED faults
                      ELSE Show(m, PaymentMethods(d), "CHOOSE_PAYMENT", active)

FixedQuantity(m) ==
    /\ Taps(m, "fixed")
    /\ \/ Detour("CHOOSE_QUANTITY")
       \/ member /\ Old(m, "fixed") /\ End
       \/ /\ member /\ ~Old(m, "fixed")
          /\ \E q \in Quantity : draft' = [draft EXCEPT !.quantity = q]
          /\ Show(m, Recipients, "CHOOSE_RECIPIENT", active)
    /\ Others

CustomQuantity(m) ==
    /\ Taps(m, "custom")
    /\ \/ Detour("CHOOSE_QUANTITY")
       \/ /\ member /\ UNCHANGED draft
          /\ Show(m, EnterCustomQuantity, "CUSTOM_QUANTITY_INPUT", active)
    /\ Others

\* A text that is no number, or too small a one, changes nothing.
CustomQuantityInput ==
    /\ state = "CUSTOM_QUANTITY_INPUT"
    /\ \/ Detour("CUSTOM_QUANTITY_INPUT")
       \/ /\ member /\ UNCHANGED draft
          /\ ShowBelow(LargeOrder, {}, "LARGE_ORDER_WARNING", active)
       \/ /\ member
          /\ \E q \in Quantity : draft' = [draft EXCEPT !.quantity = q]
          /\ ShowBelow(Recipients, {}, "CHOOSE_RECIPIENT", active)
    /\ Others

RecipientSelfKeepingTarget(m) ==  \* a slip: the name of an earlier choice stays
    /\ Taps(m, "self") /\ member /\ ~Old(m, "self")
    /\ draft' = [draft EXCEPT !.mode = "SELF"]
    /\ ToPayment(m, draft')
    /\ Others

RecipientSelf(m) ==
    /\ Taps(m, "self") /\ member /\ ~Old(m, "self")
    /\ draft' = [draft EXCEPT !.mode = "SELF", !.target = Self]
    /\ ToPayment(m, draft')
    /\ Others

RecipientGift(m) ==
    /\ Taps(m, "gift") /\ member /\ ~Old(m, "gift")
    /\ draft' = [draft EXCEPT !.mode = "GIFT"]
    /\ Show(m, EnterUsername, "ENTER_GIFT_USERNAME", active)
    /\ Others

RecipientElse(m) ==
    /\ \E b \in {"self", "gift"} :
          /\ Taps(m, b)
          /\ \/ Detour("CHOOSE_RECIPIENT")
             \/ member /\ Old(m, b) /\ End
    /\ Others

\* The active message is deleted, "searching" is sent and deleted again, and the name
\* is in the draft before the payment methods are shown.
GiftUsername ==
    /\ state = "ENTER_GIFT_USERNAME"
    /\ \/ Detour("ENTER_GIFT_USERNAME")
       \/ /\ member /\ UNCHANGED draft      \* not found, or Fragment fails meanwhile
          /\ ShowBelow(EnterUsername, {active}, "ENTER_GIFT_USERNAME", active)
       \/ /\ member
          /\ \E f \in Friend : draft' = [draft EXCEPT !.target = f]
          /\ IF draft.quantity = 0
               THEN Delete({active}) /\ UNCHANGED <<state, active, faults>>
               ELSE ShowBelow(PaymentMethods(draft'), {active}, "CHOOSE_PAYMENT", active)
    /\ Others

-----------------------------------------------------------------------------
(* order.py and promo_code.py: the payment method and the promo code         *)

PaymentMethod(m) ==
    /\ Taps(m, "method")
    /\ \/ Detour("CHOOSE_PAYMENT")
       \/ member /\ Old(m, "method") /\ End
       \/ /\ member /\ ~Old(m, "method")
          /\ IF draft.quantity = 0
               THEN Raise /\ UNCHANGED <<draft, faults>>
               ELSE /\ draft' = [draft EXCEPT !.price = screen[m].price]
                    /\ Show(m, Confirmation(draft'), "ORDER_CONFIRMATION", active)
    /\ Others

Promo(m) ==
    /\ Taps(m, "promo")
    /\ \/ Detour("CHOOSE_PAYMENT")
       \/ /\ member /\ UNCHANGED draft
          /\ Show(m, EnterPromo, "ENTER_PROMO", active)
    /\ Others

CancelPromo(m) ==
    /\ Taps(m, "cancel promo")
    /\ \/ Detour("ENTER_PROMO")
       \/ /\ member /\ UNCHANGED draft
          /\ Show(m, EnterPromo, "ENTER_PROMO", active)
    /\ Others

\* What the codes are worth is PromoCode; a code that is refused is only answered.
EnterPromoText ==
    /\ state = "ENTER_PROMO"
    /\ \/ Detour("ENTER_PROMO")
       \/ /\ member /\ UNCHANGED draft
          /\ ShowBelow(EnterPromo, {}, "ENTER_PROMO", active)
    /\ Others

\* OrderCreation: the order is made of the draft, its link shown in the message; or
\* something failed on the way and the button stays, or the message is left as it was
\* edited last, or the bot is under maintenance and deletes it.
Confirm(m) ==
    /\ Taps(m, "confirm")
    /\ \/ Detour("ORDER_CONFIRMATION")
       \/ /\ member /\ UNCHANGED draft
          /\ \/ /\ 0 \notin {draft.quantity, draft.price}
                /\ screen' = [screen EXCEPT ![m] = OrderLink(draft)]
                /\ state' = "ORDER_CONFIRMED" /\ UNCHANGED <<active, sent, expired, faults>>
             \/ /\ Fault /\ UNCHANGED state
                /\ \/ NoScreen /\ UNCHANGED active
                   \/ Put(m, NoLink) /\ active' = Newest(m)
                   \/ /\ screen' = [screen EXCEPT ![m] = Creating]
                      /\ UNCHANGED <<active, sent, expired>>
                   \/ Delete({m}) /\ active' = 0
    /\ Others

-----------------------------------------------------------------------------
(* back.py and subscription.py                                               *)

Destination(m, dest) ==
    \/ dest = "MAIN_MENU" /\ ToMainMenu(m)
    \/ dest = "CHOOSE_PAYMENT" /\ ToPayment(m, draft) /\ UNCHANGED draft
    \/ \E s \in {<<"CHOOSE_QUANTITY", Quantities>>, <<"CUSTOM_QUANTITY_INPUT", EnterCustomQuantity>>,
                 <<"CHOOSE_RECIPIENT", Recipients>>, <<"ENTER_GIFT_USERNAME", EnterUsername>>,
                 <<"PROFILE", Profile>>} :
          dest = s[1] /\ Show(m, s[2], s[1], active) /\ UNCHANGED draft

\* "Back" is a fallback: every state but none handles it, whatever screen it is on.
Back(m) ==
    /\ active = m /\ state # "none" /\ HasBack(screen[m])
    /\ IF m \in expired THEN End ELSE Destination(m, screen[m].dest)
    /\ Others

\* The quantity is checked before the destinations that need it, the price before the
\* confirmation; without them the order starts again.
StartsAgain(dest) ==
    \/ dest = "CHOOSE_QUANTITY"
    \/ dest \notin {"MAIN_MENU", "CUSTOM_QUANTITY_INPUT"} /\ draft.quantity = 0
    \/ dest = "ORDER_CONFIRMATION" /\ draft.price = 0

Subscribed(m) ==
    LET dest == screen[m].dest IN
    /\ Taps(m, "subscribed")
    /\ \/ Old(m, "subscribed") /\ End
       \/ /\ ~Old(m, "subscribed") /\ member
          /\ \/ /\ StartsAgain(dest) /\ draft' = EmptyDraft
                /\ Show(m, Quantities, "CHOOSE_QUANTITY", 0)
             \/ /\ ~StartsAgain(dest)
                /\ \/ Destination(m, dest)
                   \/ /\ dest = "ENTER_PROMO" /\ UNCHANGED draft
                      /\ Show(m, EnterPromo, "ENTER_PROMO", active)
                   \/ /\ dest = "ORDER_CONFIRMATION" /\ UNCHANGED draft
                      /\ Show(m, Confirmation(draft), "ORDER_CONFIRMATION", active)
    /\ Others

-----------------------------------------------------------------------------
(* Around the conversation                                                   *)

\* update_order_message_task shows how the order ended (OrderMessage).
OrderEnds(m) ==
    /\ screen[m].what = "order"
    /\ screen' = [screen EXCEPT ![m] = Plain("status", "")]
    /\ UNCHANGED <<state, draft, active, sent, expired, member, faults, moves>>

\* Nothing of the conversation is persistent.
Restart ==
    /\ Fault
    /\ state' = "none" /\ draft' = EmptyDraft /\ active' = 0
    /\ UNCHANGED <<screen, sent, expired, member, moves>>

\* The user joins or leaves the channel.
Moves ==
    /\ moves < MaxMoves
    /\ moves' = moves + 1
    /\ member' = ~member
    /\ UNCHANGED <<state, draft, active, screen, sent, expired, faults>>

\* Two days without a new button: Redis forgets the data of all of them.
ButtonsExpire ==
    /\ Fault
    /\ expired' = 1..sent
    /\ UNCHANGED <<state, draft, active, screen, sent, member, moves>>

-----------------------------------------------------------------------------
Tap(m) ==
    \/ Repeat(m) \/ MainMenuTap(m) \/ ProfileTap(m)
    \/ FixedQuantity(m) \/ CustomQuantity(m)
    \/ RecipientSelf(m) \/ RecipientGift(m) \/ RecipientElse(m)
    \/ PaymentMethod(m) \/ Promo(m) \/ CancelPromo(m) \/ Confirm(m)
    \/ Back(m) \/ Subscribed(m)

Text == Start \/ CustomQuantityInput \/ GiftUsername \/ EnterPromoText

Next ==
    \/ \E m \in Message : Tap(m) \/ OrderEnds(m)
    \/ Text
    \/ Restart \/ Moves \/ ButtonsExpire

Spec == Init /\ [][Next]_vars

-----------------------------------------------------------------------------
(* Properties                                                                *)

\* Where the order can be created, the draft is complete and belongs together: the
\* price was computed for the quantity, and a gift has a receiver and an order for
\* oneself has none, however often the user went back, started again or left the
\* channel, whatever failed, and whatever older messages were tapped
\* (order.py:207, 290-297, 345-352).
DraftIsComplete ==
    state = "ORDER_CONFIRMATION" /\ active # 0 =>
        /\ draft.quantity # 0 /\ draft.price = draft.quantity
        /\ (draft.mode = "SELF") <=> (draft.target = Self)

ConversationInv == ConversationTypeOK /\ DraftIsComplete

\* The order that is created, of the draft, is the one the user was asked to check ("check
\* the order before you pay"): the message with its link says the quantity, the price
\* and the receiver that the message with the button said.
WhatIsShownIsOrdered ==
    [][\A m \in Message :
          screen[m].what = "confirmation" /\ screen'[m].what = "order" =>
              /\ screen'[m].quantity = screen[m].quantity
              /\ screen'[m].price = screen[m].price
              /\ screen'[m].target = screen[m].target]_screen

\* While nothing failed, no state is a dead end: the active message has a button the
\* state handles, or the user is asked for a text, or the order waits for its payment.
NoDeadEnd ==
    faults = 0 /\ state \notin {"none", "ORDER_CONFIRMED"} =>
        \/ TakesText(state)
        \/ active # 0 /\ (HasBack(screen[active]) \/ Button(screen[active]) \cap Handles(state) # {})

\* The bot does not delete the message with the link to an order's payment.  Only a
\* user who left the channel and taps "one more order" loses it (Detour).
LinkStays ==
    [][\A m \in Message :
          screen[m].what = "order" /\ screen'[m].what = "gone" => ~member]_screen
=============================================================================
