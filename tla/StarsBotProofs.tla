--------------------------- MODULE StarsBotProofs ---------------------------
(***************************************************************************)
(* The delivery of Stars payments, for any number of charges, attempts and *)
(* restarts: types, no payment dropped, none credited twice, and the safety *)
(* half of StarsDelivery's promise.                                        *)
(***************************************************************************)
EXTENDS StarsBot, TLAPS

Paid(c) == [kind |-> "paid", charge |-> c]

\* Telegram takes only what the bot has agreed to.
Agreed == \A c \in Charges : bill[c] \in {"approved", "charged"} => c \in priced

\* Whatever is on its way to the api was charged.
OnlyCharged ==
    \A c \in Charges :
        Held(c) \/ c \in late \cup starPayments \cup lost => bill[c] = "charged"

\* An update that counts as handled has left its charge with the bot.
HandledTaken ==
    \A c \in Charges, i \in 1 .. handled :
        updates[i] = Paid(c) /\ c \in priced =>
            delivery[c] # NoDelivery \/ c \in pending \cup starPayments

\* The update being handled is the next one, and its charge is being delivered.
HandlingNext ==
    handling # Null =>
        /\ delivery[handling] # NoDelivery
        /\ phase = "polling" => handled < Len(updates) /\ updates[handled + 1] = Paid(handling)

\* What is lost stays lost.
LostForGood == \A c \in lost : ~Held(c) /\ c \notin late \cup starPayments

BotInv ==
    /\ TypeOK /\ Agreed /\ OnlyCharged /\ HandledTaken /\ HandlingNext /\ LostForGood
    /\ PaymentHeld /\ CreditedOnce

-----------------------------------------------------------------------------
(* The queue of updates.                                                    *)

\* An update is queued at some place.
LEMMA QueuedAt ==
    ASSUME NEW c
    PROVE  Queued(c) <=> \E i \in 1 .. Len(updates) : updates[i] = Paid(c)
  BY DEF Queued, Updates, Paid

\* The same in the next state.
LEMMA QueuedAfter ==
    ASSUME NEW c
    PROVE  Queued(c)' <=> \E i \in 1 .. Len(updates') : updates'[i] = Paid(c)
  BY DEF Queued, Updates, Paid

\* An update that arrives joins the queue.
LEMMA QueuedAppend ==
    ASSUME updates \in Seq(Update), NEW u \in Update, updates' = Append(updates, u)
    PROVE  /\ updates' \in Seq(Update) /\ Len(updates') = Len(updates) + 1
           /\ \A i \in 1 .. Len(updates) : updates'[i] = updates[i]
           /\ \A c : Queued(c)' <=> Queued(c) \/ u = Paid(c)
  <1>1. /\ updates' \in Seq(Update) /\ Len(updates') = Len(updates) + 1
        /\ \A i \in 1 .. Len(updates) : updates'[i] = updates[i]
        /\ updates'[Len(updates) + 1] = u
    OBVIOUS
  <1>2. ASSUME NEW c PROVE Queued(c)' <=> Queued(c) \/ u = Paid(c)
    BY <1>1, QueuedAt, QueuedAfter
  <1> QED  BY <1>1, <1>2

\* What is queued after the first updates are confirmed.
LEMMA QueuedDrop ==
    ASSUME updates \in Seq(Update), NEW n \in 0 .. Len(updates),
           updates' = SubSeq(updates, n + 1, Len(updates))
    PROVE  /\ updates' \in Seq(Update) /\ Len(updates') = Len(updates) - n
           /\ \A i \in 1 .. Len(updates') : updates'[i] = updates[i + n]
           /\ \A c : Queued(c)' => Queued(c)
           /\ \A c : Queued(c) => Queued(c)' \/ \E i \in 1 .. n : updates[i] = Paid(c)
  <1>1. /\ updates' \in Seq(Update) /\ Len(updates') = Len(updates) - n
        /\ \A i \in 1 .. Len(updates') : updates'[i] = updates[i + n]
    OBVIOUS
  <1>2. ASSUME NEW c, Queued(c)' PROVE Queued(c)
    <2>1. PICK i \in 1 .. Len(updates') : updates'[i] = Paid(c)
      BY <1>2, QueuedAfter
    <2>2. i + n \in 1 .. Len(updates) /\ updates[i + n] = Paid(c)
      BY <1>1, <2>1
    <2> QED  BY <2>2, QueuedAt
  <1>3. ASSUME NEW c, Queued(c), ~(\E i \in 1 .. n : updates[i] = Paid(c))
        PROVE  Queued(c)'
    <2>1. PICK i \in 1 .. Len(updates) : updates[i] = Paid(c)
      BY <1>3, QueuedAt
    <2>2. i > n
      BY <1>3, <2>1
    <2>3. i - n \in 1 .. Len(updates') /\ updates'[i - n] = Paid(c)
      BY <1>1, <2>1, <2>2
    <2> QED  BY <2>3, QueuedAfter
  <1> QED  BY <1>1, <1>2, <1>3

\* The same queue holds the same updates.
LEMMA QueuedSame ==
    ASSUME UNCHANGED updates
    PROVE  \A c : Queued(c)' <=> Queued(c)
  BY DEF Queued, Updates

-----------------------------------------------------------------------------
(* Telegram and the answers to its questions.                               *)

\* The bill of an invoice moves on; perhaps an update joins the queue.
LEMMA TelegramStep ==
    ASSUME BotInv, NEW c \in Charges, AskCheckout(c) \/ Charge(c)
    PROVE  BotInv'
  <1> USE DEF BotInv
  <1>1. PICK b \in {"asked", "charged"}, u \in Update :
          /\ bill' = [bill EXCEPT ![c] = b] /\ updates' = Append(updates, u)
          /\ b = "charged" => u = Paid(c) /\ bill[c] = "approved"
          /\ b = "asked" => u.kind = "checkout" /\ bill[c] = "none"
    BY DEF AskCheckout, Charge, Update, Paid
  <1>2. UNCHANGED <<priced, bot, late, api, lost>>
    BY DEF AskCheckout, Charge
  <1>3. /\ updates' \in Seq(Update) /\ Len(updates') = Len(updates) + 1
        /\ \A i \in 1 .. Len(updates) : updates'[i] = updates[i]
        /\ \A d : Queued(d)' <=> Queued(d) \/ u = Paid(d)
    BY <1>1, QueuedAppend DEF TypeOK
  <1>4. \A d : u = Paid(d) => d = c /\ b = "charged"
    BY <1>1 DEF Paid
  <1>5. bill[c] # "charged" /\ bill'[c] = b /\ \A d \in Charges \ {c} : bill'[d] = bill[d]
    BY <1>1 DEF TypeOK
  <1>6. \A d \in Charges : /\ (Held(d) => Held(d)')
                           /\ (Held(d)' => Held(d) \/ (d = c /\ b = "charged"))
    BY <1>2, <1>3, <1>4 DEF Held, bot
  <1>7. ~Held(c) /\ c \notin late \cup starPayments \cup lost
    BY <1>5 DEF OnlyCharged
  <1>8. TypeOK'
    BY <1>1, <1>2, <1>3 DEF TypeOK, bot, api
  <1>9. Agreed' /\ OnlyCharged'
    BY <1>1, <1>2, <1>5, <1>6, <1>7 DEF Agreed, OnlyCharged, bot, api
  <1>10. HandledTaken' /\ HandlingNext'
    <2>1. handled \in 0 .. Len(updates) /\ Len(updates) \in Nat
      BY DEF TypeOK
    <2>2. HandledTaken'
      BY <1>2, <1>3, <2>1 DEF HandledTaken, bot, api
    <2>3. HandlingNext'
      BY <1>2, <1>3, <2>1 DEF HandlingNext, bot
    <2> QED  BY <2>2, <2>3
  <1>11. LostForGood'
    BY <1>2, <1>6, <1>7 DEF LostForGood, TypeOK, api
  <1>12. PaymentHeld'
    <2>1. ASSUME b = "charged" PROVE Held(c)'
      BY <1>1, <1>3, <2>1 DEF Held
    <2> QED  BY <1>1, <1>2, <1>5, <1>6, <2>1 DEF PaymentHeld, api
  <1>13. CreditedOnce'
    BY <1>2, <1>5, <1>7 DEF CreditedOnce, api
  <1> QED  BY <1>8, <1>9, <1>10, <1>11, <1>12, <1>13

\* An invoice is agreed to or cancelled before anything is charged.
LEMMA CheckoutStep ==
    ASSUME BotInv, NEW c \in Charges, CheckoutLapses(c) \/ AnswerCheckout(c)
    PROVE  BotInv'
  <1> USE DEF BotInv
  <1>1. /\ UNCHANGED <<priced, updates, handling, delivery, pending, phase, restarts, late,
                       api, lost>>
        /\ handled' = handled \/ AnswerCheckout(c)
    BY DEF CheckoutLapses, AnswerCheckout, bot
  <1>2. AnswerCheckout(c) =>
          /\ handled' = handled + 1 /\ handling = Null /\ handled < Len(updates)
          /\ \A d : updates[handled + 1] # Paid(d)
    BY DEF AnswerCheckout, IsNext, Paid
  <1>3. \/ UNCHANGED bill
        \/ \E b \in {"approved", "cancelled"} :
             /\ bill[c] = "asked" /\ bill' = [bill EXCEPT ![c] = b]
             /\ b = "approved" => c \in priced
    BY DEF CheckoutLapses, AnswerCheckout, Accepts
  <1>4. /\ bill' \in [Charges -> {"none", "asked", "approved", "charged", "cancelled"}]
        /\ \A d \in Charges : /\ bill'[d] = "charged" <=> bill[d] = "charged"
                              /\ bill'[d] = "approved" => bill[d] = "approved" \/ d \in priced
    BY <1>3 DEF TypeOK
  <1>5. \A d \in Charges : Held(d)' <=> Held(d)
    BY <1>1, QueuedSame DEF Held
  <1>6. TypeOK'
    BY <1>1, <1>2, <1>4 DEF TypeOK, api
  <1>7. Agreed' /\ OnlyCharged' /\ PaymentHeld'
    BY <1>1, <1>4, <1>5 DEF Agreed, OnlyCharged, PaymentHeld, api
  <1>8. HandledTaken'
    <2> SUFFICES ASSUME NEW d \in Charges, NEW i \in 1 .. handled', updates[i] = Paid(d),
                        d \in priced
                 PROVE  delivery[d] # NoDelivery \/ d \in pending \cup starPayments
      BY <1>1 DEF HandledTaken, api
    <2>1. i \in 1 .. handled
      BY <1>1, <1>2 DEF TypeOK
    <2> QED  BY <2>1 DEF HandledTaken
  <1>9. HandlingNext' /\ LostForGood' /\ CreditedOnce'
    BY <1>1, <1>2, <1>4, <1>5 DEF HandlingNext, LostForGood, CreditedOnce, TypeOK, api
  <1> QED  BY <1>6, <1>7, <1>8, <1>9

-----------------------------------------------------------------------------
(* Handlers, the loop and the posts.                                        *)

\* A delivery starts, or its post is sent.
LEMMA DeliveryStep ==
    ASSUME BotInv, NEW c \in Charges, HandlePaid(c) \/ RetryPending(c) \/ Post(c)
    PROVE  BotInv'
  <1> USE DEF BotInv
  <1>1. UNCHANGED <<telegram, pending, phase, restarts, late, api, lost>>
    BY DEF HandlePaid, RetryPending, Post
  <1>2. /\ delivery' \in [Charges -> Delivery]
        /\ \A d \in Charges : delivery[d] # NoDelivery => delivery'[d] # NoDelivery
        /\ \A d \in Charges : delivery'[d] # NoDelivery => Held(d)
    <2>1. CASE HandlePaid(c)
      <3>1. Queued(c)
        BY <2>1, QueuedAt DEF HandlePaid, IsNext, Paid, TypeOK
      <3>2. UNCHANGED delivery \/ delivery' = [delivery EXCEPT ![c] = Started]
        BY <2>1 DEF HandlePaid
      <3>3. Started \in Delivery /\ Started # NoDelivery
        BY StarsConstants DEF Started, Delivery, NoDelivery
      <3> QED  BY <3>1, <3>2, <3>3 DEF TypeOK, Held
    <2>2. CASE RetryPending(c)
      <3>1. Started \in Delivery /\ Started # NoDelivery
        BY StarsConstants DEF Started, Delivery, NoDelivery
      <3> QED  BY <2>2, <3>1 DEF RetryPending, TypeOK, Held
    <2>3. CASE Post(c)
      <3>1. delivery[c] \in Delivery /\ delivery[c].attempt > 0
        BY <2>3 DEF Post, TypeOK
      <3> DEFINE sent == [delivery[c] EXCEPT !.posted = TRUE]
      <3>2. sent \in Delivery /\ sent # NoDelivery /\ delivery[c] # NoDelivery
        <4>1. sent \in Delivery /\ sent.attempt = delivery[c].attempt
          BY <3>1 DEF Delivery
        <4>2. delivery[c].attempt # 0 /\ NoDelivery.attempt = 0
          BY <3>1, StarsConstants DEF Delivery, NoDelivery
        <4> HIDE DEF sent
        <4> QED  BY <4>1, <4>2
      <3>3. delivery' = [delivery EXCEPT ![c] = sent]
        BY <2>3 DEF Post
      <3> HIDE DEF sent
      <3> QED  BY <3>2, <3>3 DEF TypeOK, Held
    <2> QED  BY <2>1, <2>2, <2>3
  <1>3. \A d \in Charges : Held(d)' <=> Held(d)
    BY <1>1, <1>2, QueuedSame DEF Held, telegram
  <1>4. \/ UNCHANGED <<handled, handling>>
        \/ /\ handled' = handled + 1 /\ UNCHANGED handling
           /\ handling = Null /\ handled < Len(updates) /\ updates[handled + 1] = Paid(c)
           /\ c \notin priced \/ delivery[c] # NoDelivery
        \/ /\ handling' = c /\ UNCHANGED handled /\ delivery'[c] # NoDelivery
           /\ handled < Len(updates) /\ updates[handled + 1] = Paid(c)
    <2>1. CASE HandlePaid(c)
      <3>1. Started # NoDelivery
        BY DEF Started, NoDelivery
      <3>2. handling = Null /\ handled < Len(updates) /\ updates[handled + 1] = Paid(c)
        BY <2>1 DEF HandlePaid, IsNext, Paid
      <3>3. CASE /\ c \notin priced \/ delivery[c] # NoDelivery
                 /\ handled' = handled + 1 /\ UNCHANGED <<handling, delivery>>
        BY <3>2, <3>3
      <3>4. CASE delivery' = [delivery EXCEPT ![c] = Started] /\ handling' = c /\ UNCHANGED handled
        <4>1. delivery'[c] = Started
          BY <3>4 DEF TypeOK
        <4> QED  BY <3>1, <3>2, <3>4, <4>1
      <3>5. \/ /\ c \notin priced \/ delivery[c] # NoDelivery
               /\ handled' = handled + 1 /\ UNCHANGED <<handling, delivery>>
            \/ delivery' = [delivery EXCEPT ![c] = Started] /\ handling' = c /\ UNCHANGED handled
        BY <2>1 DEF HandlePaid
      <3> QED  BY <3>3, <3>4, <3>5, Zenon
    <2>2. CASE RetryPending(c) \/ Post(c)
      BY <2>2 DEF RetryPending, Post
    <2> QED  BY <2>1, <2>2
  <1>5. TypeOK'
    BY <1>1, <1>2, <1>4 DEF TypeOK, telegram, api
  <1>6. Agreed' /\ OnlyCharged' /\ PaymentHeld' /\ LostForGood' /\ CreditedOnce'
    BY <1>1, <1>3
       DEF Agreed, OnlyCharged, PaymentHeld, LostForGood, CreditedOnce, TypeOK, telegram, api
  <1>7. HandledTaken'
    <2> SUFFICES ASSUME NEW d \in Charges, NEW i \in 1 .. handled', updates[i] = Paid(d),
                        d \in priced
                 PROVE  delivery'[d] # NoDelivery \/ d \in pending \cup starPayments
      BY <1>1 DEF HandledTaken, telegram, api
    <2>1. CASE i \in 1 .. handled
      BY <1>2, <2>1 DEF HandledTaken
    <2>2. CASE i = handled + 1 /\ handled' = handled + 1
      <3>1. Paid(c) = Paid(d) => c = d
        BY DEF Paid
      <3> QED  BY <1>2, <1>4, <2>2, <3>1 DEF TypeOK
    <2> QED  BY <1>4, <2>1, <2>2 DEF TypeOK
  <1>8. HandlingNext'
    BY <1>1, <1>2, <1>4, StarsConstants DEF HandlingNext, TypeOK, telegram
  <1> QED  BY <1>5, <1>6, <1>7, <1>8

\* The api commits, for the bot or for a post it has given up.
LEMMA CreditKeepsOnce ==
    ASSUME BotInv, NEW c \in Charges, CreditStars(c), bill[c] = "charged"
    PROVE  /\ starPayments' = starPayments \cup {c} /\ extensions' \in [Charges -> Nat]
           /\ \A d \in Charges : extensions'[d] = IF d \in starPayments' THEN 1 ELSE 0
  <1> USE DEF BotInv
  <1>1. extensions \in [Charges -> Nat] /\ starPayments' = starPayments \cup {c}
    BY DEF TypeOK, CreditStars
  <1>2. extensions[c] = IF c \in starPayments THEN 1 ELSE 0
    BY DEF CreditedOnce
  <1>3. extensions'[c] = 1 /\ extensions' \in [Charges -> Nat]
    BY <1>1, <1>2 DEF CreditStars, NewPayment
  <1>4. \A d \in Charges \ {c} : extensions'[d] = extensions[d]
    BY <1>1 DEF CreditStars
  <1> QED  BY <1>1, <1>3, <1>4 DEF CreditedOnce

\* deliverCredit returns: its charge is credited, or waits for the loop.
LEMMA ReturnStep ==
    ASSUME BotInv, NEW c \in Charges, delivery[c] # NoDelivery, Return(c),
           delivery' = [delivery EXCEPT ![c] = NoDelivery],
           pending' \in SUBSET Charges, pending \ {c} \subseteq pending',
           pending' \subseteq pending \cup {c},
           c \in pending' \cup starPayments',
           starPayments \subseteq starPayments', starPayments' \subseteq starPayments \cup {c},
           late \subseteq late', late' \subseteq late \cup {c},
           extensions' \in [Charges -> Nat],
           \A d \in Charges : extensions'[d] = IF d \in starPayments' THEN 1 ELSE 0,
           UNCHANGED <<telegram, phase, restarts, lost>>
    PROVE  BotInv'
  <1> USE DEF BotInv, telegram
  <1>1. bill[c] = "charged"
    BY DEF OnlyCharged, Held
  <1>2. NoDelivery \in Delivery
    BY StarsConstants DEF NoDelivery, Delivery
  <1>3. /\ delivery' \in [Charges -> Delivery] /\ delivery'[c] = NoDelivery
        /\ \A d \in Charges \ {c} : delivery'[d] = delivery[d]
    BY <1>2 DEF TypeOK
  <1>4. \A d \in Charges \ {c} : Held(d)' <=> Held(d)
    BY <1>3, QueuedSame DEF Held
  <1>5. Held(c) /\ c \notin lost
    BY DEF Held, LostForGood
  <1>6. handling = c /\ phase = "polling" =>
          handled < Len(updates) /\ updates[handled + 1] = Paid(c)
    BY StarsConstants DEF HandlingNext
  <1>7. \/ handled' = handled
        \/ /\ handled' = handled + 1 /\ handled < Len(updates)
           /\ updates[handled + 1] = Paid(c)
    BY <1>6 DEF Return
  <1>8. handling' \in {Null, handling} /\ handling' # c
        /\ (handled' # handled => handling' = Null)
    BY StarsConstants DEF Return
  <1>9. TypeOK'
    BY <1>3, <1>7, <1>8 DEF TypeOK
  <1>10. Agreed' /\ OnlyCharged' /\ LostForGood'
    BY <1>1, <1>4, <1>5 DEF Agreed, OnlyCharged, LostForGood, TypeOK
  <1>11. PaymentHeld'
    <2>1. c \in pending' => Held(c)'
      BY DEF Held
    <2> QED  BY <1>4, <2>1 DEF PaymentHeld
  <1>12. CreditedOnce'
    BY <1>1 DEF CreditedOnce
  <1>13. HandledTaken'
    <2> SUFFICES ASSUME NEW d \in Charges, NEW i \in 1 .. handled', updates[i] = Paid(d),
                        d \in priced
                 PROVE  delivery'[d] # NoDelivery \/ d \in pending' \cup starPayments'
      BY DEF HandledTaken
    <2>1. CASE d = c
      BY <2>1
    <2>2. CASE d # c
      <3>1. updates[handled + 1] = Paid(c) => i # handled + 1
        BY <2>2 DEF Paid
      <3>2. i \in 1 .. handled
        BY <1>7, <3>1 DEF TypeOK
      <3> QED  BY <1>3, <2>2, <3>2 DEF HandledTaken
    <2> QED  BY <2>1, <2>2
  <1>14. HandlingNext'
    <2> SUFFICES ASSUME handling' # Null
                 PROVE  /\ delivery'[handling'] # NoDelivery
                        /\ phase = "polling" => /\ handled' < Len(updates)
                                                /\ updates[handled' + 1] = Paid(handling')
      BY DEF HandlingNext
    <2>1. handling' = handling /\ handled' = handled /\ handling \in Charges \ {c}
      BY <1>8 DEF TypeOK
    <2> QED  BY <1>3, <2>1 DEF HandlingNext
  <1> QED  BY <1>9, <1>10, <1>11, <1>12, <1>13, <1>14

\* A post is answered, or fails with what it did on the api's side.
LEMMA PostStep ==
    ASSUME BotInv, NEW c \in Charges, Credited(c) \/ PostFails(c)
    PROVE  BotInv'
  <1> USE DEF BotInv
  <1>1. delivery[c].posted /\ delivery[c] # NoDelivery
    BY DEF Credited, PostFails, NoDelivery
  <1>2. bill[c] = "charged"
    BY <1>1 DEF OnlyCharged, Held
  <1>3. UNCHANGED <<telegram, phase, restarts, lost>>
    BY DEF Credited, PostFails
  <1>4. /\ starPayments \subseteq starPayments' /\ starPayments' \subseteq starPayments \cup {c}
        /\ late \subseteq late' /\ late' \subseteq late \cup {c}
        /\ extensions' \in [Charges -> Nat]
        /\ \A d \in Charges : extensions'[d] = IF d \in starPayments' THEN 1 ELSE 0
        /\ Credited(c) => c \in starPayments'
    <2>1. CASE CreditStars(c)
      BY <1>2, <2>1, CreditKeepsOnce DEF Credited, PostFails
    <2>2. CASE UNCHANGED api
      BY <2>2 DEF api, TypeOK, CreditedOnce, PostFails, Credited, CreditStars
    <2> QED  BY <2>1, <2>2 DEF Credited, PostFails
  <1>5. CASE Credited(c)
    <2>1. /\ Return(c) /\ delivery' = [delivery EXCEPT ![c] = NoDelivery]
          /\ pending' = pending \ {c}
      BY <1>5 DEF Credited
    <2>2. pending \subseteq Charges
      BY DEF TypeOK
    <2> QED  BY <1>1, <1>3, <1>4, <1>5, <2>1, <2>2, ReturnStep
  <1>6. CASE PostFails(c) /\ Return(c)
                          /\ delivery' = [delivery EXCEPT ![c] = NoDelivery]
                          /\ pending' = pending \cup {c}
    <2>1. pending \subseteq Charges
      BY DEF TypeOK
    <2> QED  BY <1>1, <1>3, <1>4, <1>6, <2>1, ReturnStep
  <1>7. CASE /\ PostFails(c) /\ delivery[c].attempt < Attempts
             /\ delivery' = [delivery EXCEPT ![c] = [attempt |-> @.attempt + 1, posted |-> FALSE]]
             /\ UNCHANGED <<pending, handled, handling>>
    <2> DEFINE next == [attempt |-> delivery[c].attempt + 1, posted |-> FALSE]
    <2>1. delivery[c] \in Delivery
      BY DEF TypeOK
    <2>2. next \in Delivery
      BY <1>7, <2>1, StarsConstants DEF Delivery
    <2>3. next # NoDelivery
      <3>1. next.attempt # 0 /\ NoDelivery.attempt = 0
        BY <2>1, StarsConstants DEF Delivery, NoDelivery
      <3> HIDE DEF next
      <3> QED  BY <3>1
    <2>4. delivery' = [delivery EXCEPT ![c] = next]
      BY <1>7
    <2> HIDE DEF next
    <2>5. /\ delivery' \in [Charges -> Delivery]
          /\ \A d \in Charges : delivery'[d] # NoDelivery <=> delivery[d] # NoDelivery
      BY <1>1, <2>2, <2>3, <2>4 DEF TypeOK
    <2>6. \A d \in Charges : Held(d)' <=> Held(d)
      BY <1>3, <1>7, <2>5, QueuedSame DEF Held, telegram
    <2>7. Held(c) /\ c \notin lost
      BY <1>1 DEF Held, LostForGood
    <2>8. TypeOK'
      BY <1>3, <1>4, <1>7, <2>5 DEF TypeOK, telegram
    <2>9. Agreed' /\ OnlyCharged' /\ PaymentHeld' /\ LostForGood' /\ CreditedOnce'
      BY <1>2, <1>3, <1>4, <2>6, <2>7
         DEF Agreed, OnlyCharged, PaymentHeld, LostForGood, CreditedOnce, TypeOK, telegram
    <2>10. HandledTaken' /\ HandlingNext'
      BY <1>3, <1>4, <1>7, <2>5 DEF HandledTaken, HandlingNext, TypeOK, telegram
    <2> QED  BY <2>8, <2>9, <2>10
  <1> QED  BY <1>5, <1>6, <1>7 DEF PostFails, KeepFailed

\* A post the bot has given up commits, or dies.
LEMMA LateStep ==
    ASSUME BotInv, NEW c \in Charges, LateCredit(c) \/ LateDies(c)
    PROVE  BotInv'
  <1> USE DEF BotInv, telegram, bot, api
  <1>1. c \in late /\ late' = late \ {c} /\ UNCHANGED <<telegram, bot>>
    BY DEF LateCredit, LateDies
  <1>2. bill[c] = "charged" /\ c \notin lost
    BY <1>1 DEF OnlyCharged, LostForGood
  <1>3. \A d \in Charges : Held(d)' <=> Held(d)
    BY <1>1, QueuedSame DEF Held
  <1>4. /\ starPayments \subseteq starPayments' /\ starPayments' \subseteq starPayments \cup {c}
        /\ extensions' \in [Charges -> Nat]
        /\ \A d \in Charges : extensions'[d] = IF d \in starPayments' THEN 1 ELSE 0
        /\ lost \subseteq lost' /\ lost' \subseteq lost \cup {c}
        /\ c \in lost' => ~Held(c) /\ c \notin starPayments'
        /\ Held(c) \/ c \in starPayments' \cup lost'
    <2>1. CASE LateCredit(c)
      <3>1. CreditStars(c) /\ UNCHANGED lost
        BY <2>1 DEF LateCredit
      <3> QED  BY <1>2, <3>1, CreditKeepsOnce
    <2>2. CASE LateDies(c)
      BY <1>2, <2>2 DEF LateDies, TypeOK, CreditedOnce
    <2> QED  BY <2>1, <2>2
  <1>5. TypeOK'
    BY <1>1, <1>4 DEF TypeOK
  <1>6. Agreed' /\ OnlyCharged' /\ LostForGood' /\ CreditedOnce'
    BY <1>1, <1>2, <1>3, <1>4 DEF Agreed, OnlyCharged, LostForGood, CreditedOnce, TypeOK
  <1>7. PaymentHeld'
    BY <1>1, <1>3, <1>4 DEF PaymentHeld
  <1>8. HandledTaken' /\ HandlingNext'
    BY <1>1, <1>4 DEF HandledTaken, HandlingNext
  <1> QED  BY <1>5, <1>6, <1>7, <1>8

-----------------------------------------------------------------------------
(* Confirming updates, shutdown and restart.                                *)

\* The first n updates are confirmed.
LEMMA ConfirmStep ==
    ASSUME BotInv, Poll \/ Stop
    PROVE  BotInv'
  <1> USE DEF BotInv, api
  <1>1. PICK n \in 0 .. Len(updates) :
          /\ updates' = SubSeq(updates, n + 1, Len(updates)) /\ handled' = 0
          /\ \/ Poll /\ phase' = phase /\ n = handled
             \/ phase = "polling" /\ phase' = "stopped" /\ n = Fetched
    <2>1. CASE Poll
      <3>1. handled \in 0 .. Len(updates)
        BY DEF TypeOK
      <3>2. /\ updates' = SubSeq(updates, handled + 1, Len(updates)) /\ handled' = 0
            /\ phase' = phase
        BY <2>1 DEF Poll, Confirmed
      <3> QED  BY <2>1, <3>1, <3>2
    <2>2. CASE Stop
      <3>1. Fetched \in 0 .. Len(updates)
        BY <2>2 DEF Stop, Fetched, HandlingNext, TypeOK
      <3> QED  BY <2>2, <3>1 DEF Stop
    <2> QED  BY <2>1, <2>2
  <1>2. UNCHANGED <<priced, bill, handling, delivery, pending, restarts, late, api, lost>>
    BY DEF Poll, Stop
  <1>3. /\ updates' \in Seq(Update) /\ Len(updates') = Len(updates) - n
        /\ \A i \in 1 .. Len(updates') : updates'[i] = updates[i + n]
        /\ \A d : Queued(d)' => Queued(d)
        /\ \A d : Queued(d) => Queued(d)' \/ \E i \in 1 .. n : updates[i] = Paid(d)
    BY <1>1, QueuedDrop DEF TypeOK
  <1>4. ASSUME NEW d \in Charges, bill[d] = "charged", NEW i \in 1 .. n, updates[i] = Paid(d)
        PROVE  delivery[d] # NoDelivery \/ d \in pending \cup starPayments
    <2>1. CASE i \in 1 .. handled
      BY <1>4, <2>1 DEF HandledTaken, Agreed
    <2>2. CASE i = handled + 1 /\ handling # Null /\ phase = "polling"
      <3>1. Paid(handling) = Paid(d) /\ delivery[handling] # NoDelivery
        BY <1>4, <2>2 DEF HandlingNext
      <3> QED  BY <3>1 DEF Paid
    <2> QED  BY <1>1, <2>1, <2>2 DEF Fetched, TypeOK
  <1>5. \A d \in Charges : Held(d)' => Held(d)
    BY <1>2, <1>3 DEF Held
  <1>6. TypeOK'
    <2>1. handled' \in 0 .. Len(updates') /\ phase' \in {"polling", "stopped"}
      BY <1>1, <1>3 DEF TypeOK
    <2> QED  BY <1>2, <1>3, <2>1 DEF TypeOK
  <1>7. Agreed' /\ OnlyCharged' /\ LostForGood' /\ CreditedOnce'
    BY <1>2, <1>5 DEF Agreed, OnlyCharged, LostForGood, CreditedOnce, TypeOK
  <1>8. PaymentHeld'
    BY <1>2, <1>3, <1>4 DEF PaymentHeld, Held
  <1>9. HandledTaken'
    BY <1>1 DEF HandledTaken
  <1>10. HandlingNext'
    <2> SUFFICES ASSUME handling # Null
                 PROVE  /\ delivery[handling] # NoDelivery
                        /\ phase' = "polling" => /\ 0 < Len(updates')
                                                 /\ updates'[1] = Paid(handling)
      BY <1>1, <1>2 DEF HandlingNext
    <2>1. CASE phase' = "polling"
      <3>1. n = handled /\ phase = "polling"
        BY <1>1, <2>1
      <3>2. handled < Len(updates) /\ updates[handled + 1] = Paid(handling)
            /\ delivery[handling] # NoDelivery
        BY <3>1 DEF HandlingNext
      <3> QED  BY <1>3, <3>1, <3>2 DEF TypeOK
    <2> QED  BY <2>1 DEF HandlingNext
  <1> QED  BY <1>6, <1>7, <1>8, <1>9, <1>10

\* What the bot held is queued, on its way, credited or lost.
LEMMA RestartStep ==
    ASSUME BotInv, Restart
    PROVE  BotInv'
  <1> USE DEF BotInv, api
  <1>1. /\ updates' = updates /\ handled' = 0 /\ handling' = Null /\ pending' = {}
        /\ delivery' = [d \in Charges |-> NoDelivery] /\ phase' = "polling"
        /\ restarts' \in 0 .. MaxRestarts
        /\ UNCHANGED <<priced, bill, api>>
    BY StarsConstants DEF Restart, KeptUpdates, TypeOK
  <1>2. PICK S \in SUBSET {d \in Charges : delivery[d].posted} :
          /\ late' = late \cup S
          /\ lost' = lost \cup {d \in Charges : /\ delivery[d] # NoDelivery \/ d \in pending
                                                /\ ~Queued(d)
                                                /\ d \notin starPayments \cup late'}
    BY DEF Restart
  <1>3. \A d \in S : d \in Charges /\ Held(d)
    BY DEF Held, NoDelivery
  <1>4. \A d \in Charges : Held(d)' <=> Queued(d)
    BY <1>1, QueuedSame DEF Held
  <1>5. TypeOK'
    BY <1>1, <1>2, StarsConstants DEF TypeOK, NoDelivery, Delivery
  <1>6. \A d \in Charges : d \in late' \cup lost' => Held(d) \/ d \in late \cup lost
    BY <1>2, <1>3 DEF Held
  <1>7. Agreed' /\ OnlyCharged' /\ CreditedOnce'
    <2>1. \A d \in Charges : Queued(d) => Held(d)
      BY DEF Held
    <2> QED  BY <1>1, <1>4, <1>6, <2>1 DEF Agreed, OnlyCharged, CreditedOnce
  <1>8. LostForGood'
    <2> SUFFICES ASSUME NEW d \in lost'
                 PROVE  ~Queued(d) /\ d \notin late' \cup starPayments
      BY <1>1, <1>4, <1>5 DEF LostForGood, TypeOK
    <2>1. CASE d \in lost
      BY <1>2, <1>3, <2>1 DEF LostForGood, Held
    <2>2. CASE d \notin lost
      BY <1>2, <2>2
    <2> QED  BY <2>1, <2>2
  <1>9. PaymentHeld'
    BY <1>1, <1>2, <1>4 DEF PaymentHeld, Held
  <1>10. HandledTaken' /\ HandlingNext'
    BY <1>1 DEF HandledTaken, HandlingNext
  <1> QED  BY <1>5, <1>7, <1>8, <1>9, <1>10

\* The inductive invariant of the bot.
LEMMA BotInvariant == Spec => []BotInv
  <1>1. Init => BotInv
    <2> SUFFICES ASSUME Init PROVE BotInv
      OBVIOUS
    <2>1. TypeOK
      BY StarsConstants DEF Init, TypeOK, NoDelivery, Delivery
    <2>2. \A c \in Charges : ~Held(c)
      <3>1. Len(updates) = 0
        BY DEF Init
      <3>2. \A c : ~Queued(c)
        BY <3>1, QueuedAt
      <3> QED  BY <3>2 DEF Init, Held
    <2> QED
      BY <2>1, <2>2 DEF Init, BotInv, Agreed, OnlyCharged, HandledTaken, HandlingNext,
                        LostForGood, PaymentHeld, CreditedOnce
  <1>2. BotInv /\ [Next]_vars => BotInv'
    <2> SUFFICES ASSUME BotInv, [Next]_vars PROVE BotInv'
      OBVIOUS
    <2>1. CASE Next
      BY <2>1, TelegramStep, CheckoutStep, DeliveryStep, PostStep, LateStep, ConfirmStep,
         RestartStep DEF Next
    <2>2. CASE UNCHANGED vars
      <3>1. \A c \in Charges : Held(c)' <=> Held(c)
        BY <2>2, QueuedSame DEF Held, vars, telegram, bot
      <3> QED
        BY <2>2, <3>1 DEF vars, telegram, bot, api, BotInv, TypeOK, Agreed, OnlyCharged,
                          HandledTaken, HandlingNext, LostForGood, PaymentHeld, CreditedOnce
    <2> QED  BY <2>1, <2>2
  <1> QED  BY <1>1, <1>2, PTL DEF Spec

-----------------------------------------------------------------------------
(* No step between the charge and the credit drops a payment: Telegram, the  *)
(* bot or a post under way holds it until it is credited, or it died with    *)
(* the bot (index.ts:157-209, 246-250).                                      *)
THEOREM NoPaymentDropped == Spec => []PaymentHeld
  <1>1. BotInv => PaymentHeld
    BY DEF BotInv
  <1> QED  BY <1>1, BotInvariant, PTL

(* However often a payment is delivered, its days are added once, and only   *)
(* what was charged is credited (stars.go:128-158).                          *)
THEOREM NeverCreditedTwice == Spec => []CreditedOnce
  <1>1. BotInv => CreditedOnce
    BY DEF BotInv
  <1> QED  BY <1>1, BotInvariant, PTL

(* The safety half of StarsDelivery's promise: each step of the delivery is  *)
(* a charge, a first credit of a charge that is not lost, a loss of charges  *)
(* nobody has credited, or none of the buyer's business.                     *)
THEOREM DeliverySafe == Spec => Promise!Init /\ [][Promise!Next]_(Promise!vars)
  <1> DEFINE charged == {c \in Charges : bill[c] = "charged"}
  <1>1. Init => Promise!Init
    BY DEF Init, Promise!Init
  <1>2. BotInv /\ BotInv' /\ [Next]_vars => [Promise!Next]_(Promise!vars)
    <2> SUFFICES ASSUME BotInv, BotInv', [Next]_vars
                 PROVE  Promise!Next \/ UNCHANGED <<charged, starPayments, lost>>
      BY DEF Promise!vars
    <2> USE DEF BotInv
    <2>1. CASE \E c \in Charges : Charge(c)
      <3>1. PICK c \in Charges : Charge(c)
        BY <2>1
      <3>2. bill[c] = "approved" /\ bill' = [bill EXCEPT ![c] = "charged"]
            /\ UNCHANGED <<starPayments, lost>>
        BY <3>1 DEF Charge, api
      <3>3. c \notin charged /\ charged' = charged \cup {c}
        BY <3>2 DEF TypeOK
      <3> QED  BY <3>2, <3>3 DEF Promise!Next, Promise!Charge
    <2>2. CASE \E c \in Charges : Credited(c) \/ PostFails(c) \/ LateCredit(c)
      <3>1. PICK c \in Charges : Credited(c) \/ PostFails(c) \/ LateCredit(c)
        BY <2>2
      <3>2. UNCHANGED <<bill, lost>> /\ (starPayments' = starPayments \cup {c} \/ UNCHANGED starPayments)
        BY <3>1 DEF Credited, PostFails, LateCredit, CreditStars, telegram, api
      <3>3. bill[c] = "charged"
        BY <3>1 DEF Credited, PostFails, LateCredit, OnlyCharged, Held, NoDelivery
      <3>4. CASE c \in starPayments \/ UNCHANGED starPayments
        BY <3>2, <3>4
      <3>5. CASE c \notin starPayments /\ starPayments' = starPayments \cup {c}
        <4>1. c \notin lost
          BY <3>2, <3>5 DEF LostForGood
        <4> QED  BY <3>2, <3>3, <3>5, <4>1 DEF Promise!Next, Promise!Credit
      <3> QED  BY <3>2, <3>4, <3>5
    <2>3. CASE Restart \/ \E c \in Charges : LateDies(c)
      <3>1. UNCHANGED <<bill, starPayments>> /\ lost \subseteq lost'
        BY <2>3 DEF Restart, LateDies, telegram, api
      <3>2. lost' \subseteq charged \ starPayments
        BY <3>1 DEF OnlyCharged, LostForGood, TypeOK
      <3> DEFINE S == lost'
      <3>3. S \in SUBSET (charged \ starPayments) /\ lost' = lost \cup S
        BY <3>1, <3>2
      <3> QED  BY <3>1, <3>3 DEF Promise!Next, Promise!Lose
    <2>4. CASE \E c \in Charges : CheckoutLapses(c) \/ AnswerCheckout(c) \/ AskCheckout(c)
      <3>1. UNCHANGED <<starPayments, lost>>
        BY <2>4 DEF CheckoutLapses, AnswerCheckout, AskCheckout, api
      <3>2. \A c \in Charges : bill'[c] = "charged" <=> bill[c] = "charged"
        BY <2>4 DEF CheckoutLapses, AnswerCheckout, AskCheckout, TypeOK
      <3> QED  BY <3>1, <3>2
    <2>5. CASE \/ Poll \/ Stop \/ UNCHANGED vars
               \/ \E c \in Charges : HandlePaid(c) \/ RetryPending(c) \/ Post(c)
      BY <2>5 DEF Poll, Stop, HandlePaid, RetryPending, Post, vars, telegram, api
    <2> QED  BY <2>1, <2>2, <2>3, <2>4, <2>5 DEF Next
  <1> QED  BY <1>1, <1>2, BotInvariant, PTL DEF Spec
=============================================================================
