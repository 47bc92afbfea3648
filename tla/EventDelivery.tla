---------------------------- MODULE EventDelivery ----------------------------
(***************************************************************************)
(* What the event bus promises one subscribing service about one event     *)
(* type, whatever the transport: every event published since the service   *)
(* first subscribed is settled at most once, and only because a handler    *)
(* call returned for it, because it was set aside in a dead-letter stream, *)
(* or because newer events pushed it out of a bounded log.  Handling and   *)
(* dead-lettering may be repeated and may come after settlement: delivery  *)
(* is at least once, and says nothing of order.  RedisStreamBus is shown   *)
(* to implement this module.                                               *)
(***************************************************************************)
EXTENDS Integers

CONSTANTS
  MaxEvents,   \* bound on published events
  Keep         \* the newest events the log never drops

VARIABLES
  published,   \* events 1..published exist
  subscribed,  \* has the service ever subscribed
  from,        \* events 1..from precede the subscription
  handled,     \* events a handler call returned for
  dead,        \* events set aside
  dropped,     \* events lost to the bound of the log
  settled      \* events that will not be delivered again

vars == <<published, subscribed, from, handled, dead, dropped, settled>>

Init ==
  /\ published = 0 /\ from = 0 /\ subscribed = FALSE
  /\ handled = {} /\ dead = {} /\ dropped = {} /\ settled = {}

Visible == {e \in 1..published : e > from}

Publish ==
  /\ published < MaxEvents
  /\ published' = published + 1
  /\ UNCHANGED <<subscribed, from, handled, dead, dropped, settled>>

Subscribe ==
  /\ ~subscribed
  /\ subscribed' = TRUE /\ from' = published
  /\ UNCHANGED <<published, handled, dead, dropped, settled>>

Handle ==
  /\ subscribed
  /\ \E e \in Visible : handled' = handled \union {e}
  /\ UNCHANGED <<published, subscribed, from, dead, dropped, settled>>

SetAside ==
  /\ subscribed
  /\ \E e \in Visible : dead' = dead \union {e}
  /\ UNCHANGED <<published, subscribed, from, handled, dropped, settled>>

Settle ==
  /\ \E e \in (handled \union dead) \ settled : settled' = settled \union {e}
  /\ UNCHANGED <<published, subscribed, from, handled, dead, dropped>>

Drop ==
  /\ subscribed
  /\ \E S \in SUBSET (Visible \ settled) :
       /\ \A e \in S : e <= published - Keep
       /\ dropped' = dropped \union S
       /\ settled' = settled \union S
  /\ UNCHANGED <<published, subscribed, from, handled, dead>>

Next == Publish \/ Subscribe \/ Handle \/ SetAside \/ Settle \/ Drop

Spec == Init /\ [][Next]_vars
==============================================================================
