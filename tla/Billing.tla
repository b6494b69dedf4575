------------------------------ MODULE Billing ------------------------------
(***************************************************************************)
(* The subscription of an organisation: BillingService beside Stripe.  A    *)
(* request reads the organisation, asks Stripe, and then writes; Stripe     *)
(* tells of its side by events, which arrive in any order and more than     *)
(* once.  A checkout puts the organisation's id on the session only, so an  *)
(* event about the subscription it makes names no organisation; those made  *)
(* by hand may.                                                             *)
(***************************************************************************)
EXTENDS Naturals, FiniteSets

CONSTANTS
  Requests,
  Sessions,      \* checkout sessions, each with the subscription it makes
  ByHand,        \* subscriptions made at Stripe, with the organisation's id
  Prices,        \* those charged: "other" is one of none of the plans
  MaxCustomers,  \* bound on the customers made
  MaxChanges,    \* bound on the changes of plan, and on those of status
  None

BillingAssumption ==
  /\ Sessions \cap ByHand = {}
  /\ None \notin Requests \cup Sessions \cup ByHand
  /\ Prices \subseteq {"starter", "professional", "other"}
  /\ {MaxCustomers, MaxChanges} \subseteq Nat

VARIABLES
  org,        \* the organisation's row
  customers,  \* how many customers Stripe has for it
  session, sub,
  events,     \* what Stripe tells, once or often, sooner or later
  request,
  changes,
  crossed,    \* requests overlapped or broke off, or an event was late
  spare       \* a request made a customer that another did not see

vars == <<org, customers, session, sub, events, request, changes, crossed, spare>>

Subs == Sessions \cup ByHand
Customers == 1..MaxCustomers
Plans == {"trial", "starter", "professional"}
Statuses == {"trialing", "active", "past_due", "canceled"}

NoSub == [status |-> "none", price |-> "other", ends |-> FALSE]
Idle == [pc |-> "idle", op |-> None, customer |-> 0, sub |-> None,
         price |-> "other", status |-> "none"]

\* mapPlanFromPriceId and mapSubscriptionStatus: what is not known is a trial, and active.
PlanOf(price) == IF price = "other" THEN "trial" ELSE price
StatusOf(status) == IF status \in Statuses THEN status ELSE "active"

\* getPlanLimits, by the number of users.
Limits == [trial |-> 1, starter |-> 5, professional |-> 1000]

\* Prices a plan and a cycle lead to, and those a checkout may ask for.
PlanPrices == Prices \ {"other"}
CheckoutPrices == Prices

TypeOK ==
  /\ org \in [customer : 0..MaxCustomers, sub : Subs \cup {None}, plan : Plans,
              status : Statuses, limits : {Limits[p] : p \in Plans}]
  /\ customers \in 0..MaxCustomers
  /\ session \in [Sessions -> [step : {"none", "open", "paid"}, price : Prices \cup {"other"},
                               customer : 0..MaxCustomers]]
  /\ sub \in [Subs -> [status : {"none", "active", "past_due", "unpaid", "canceled"},
                       price : Prices \cup {"other"}, ends : BOOLEAN]]
  /\ events \subseteq [about : {"updated", "deleted", "paid", "unpaid"}, sub : Subs,
                       price : Prices \cup {"other"},
                       status : {"none", "active", "past_due", "unpaid", "canceled"}]
  /\ request \in [Requests ->
       [pc : {"idle", "customer", "save", "session", "details", "stripe", "write", "sync"},
        op : {None, "checkout", "details", "change", "sync", "cancel", "resume"},
        customer : 0..MaxCustomers, sub : Subs \cup {None}, price : Prices \cup {"other"},
        status : {"none", "active", "past_due", "unpaid", "canceled"}]]
  /\ changes \in 0..MaxChanges
  /\ crossed \in BOOLEAN /\ spare \in BOOLEAN

Init ==
  /\ org = [customer |-> 0, sub |-> None, plan |-> "trial", status |-> "active",
            limits |-> Limits["trial"]]
  /\ customers = 0
  /\ session = [s \in Sessions |-> [step |-> "none", price |-> "other", customer |-> 0]]
  /\ sub = [s \in Subs |-> NoSub]
  /\ events = {}
  /\ request = [r \in Requests |-> Idle]
  /\ changes = 0
  /\ crossed = FALSE /\ spare = FALSE

stripeVars == <<customers, session, sub, events, changes>>

(***************************************************************************)
(* Requests                                                                 *)
(***************************************************************************)
Under(r, pc) == request[r].pc = pc
Others(r) == {q \in Requests \ {r} : request[q] # Idle}
Close(r) == request' = [request EXCEPT ![r] = Idle]

\* What a request about the subscription and another that writes it may overwrite.
Writers == {"change", "sync"}
Crossing(r, op) ==
  crossed' = (crossed \/ (op \in Writers /\ \E q \in Others(r) : request[q].op \in Writers))

\* A checkout, or new billing details: the customer is looked up in the row read.
Open(r, op, price) ==
  /\ request[r] = Idle
  /\ request' = [request EXCEPT ![r] =
       [Idle EXCEPT !.op = op, !.price = price, !.customer = org.customer,
          !.pc = IF org.customer = 0 THEN "customer"
                 ELSE IF op = "checkout" THEN "session" ELSE "details"]]
  /\ spare' = (spare \/ /\ org.customer = 0
                        /\ \E q \in Others(r) : request[q].pc \in {"customer", "save"})
  /\ UNCHANGED <<org, stripeVars, crossed>>

CreateCheckout(r, price) == price \in CheckoutPrices /\ Open(r, "checkout", price)
UpdateDetails(r) == Open(r, "details", "other")

CreateCustomer(r) ==
  /\ Under(r, "customer")
  /\ customers < MaxCustomers
  /\ customers' = customers + 1
  /\ request' = [request EXCEPT ![r].customer = customers + 1, ![r].pc = "save"]
  /\ UNCHANGED <<org, session, sub, events, changes, crossed, spare>>

SaveCustomer(r) ==
  /\ Under(r, "save")
  /\ org' = [org EXCEPT !.customer = request[r].customer]
  /\ request' = [request EXCEPT ![r].pc =
       IF request[r].op = "checkout" THEN "session" ELSE "details"]
  /\ UNCHANGED <<stripeVars, crossed, spare>>

CreateSession(r, s) ==
  /\ Under(r, "session")
  /\ session[s].step = "none"
  /\ session' = [session EXCEPT ![s] = [step |-> "open", price |-> request[r].price,
                                        customer |-> request[r].customer]]
  /\ Close(r)
  /\ UNCHANGED <<org, customers, sub, events, changes, crossed, spare>>

StoreDetails(r) ==
  /\ Under(r, "details")
  /\ Close(r)
  /\ UNCHANGED <<org, stripeVars, crossed, spare>>

\* A request about the subscription stored: refused when there is none.
About(r, op, price) ==
  /\ request[r] = Idle
  /\ org.sub # None
  /\ request' = [request EXCEPT ![r] =
       [Idle EXCEPT !.pc = "stripe", !.op = op, !.sub = org.sub, !.price = price]]
  /\ Crossing(r, op)
  /\ UNCHANGED <<org, stripeVars, spare>>

ChangeSubscription(r, price) ==
  /\ price \in PlanPrices
  /\ About(r, "change", price)
CancelSubscription(r) == About(r, "cancel", "other")
ResumeSubscription(r) == About(r, "resume", "other")

\* What Stripe tells of a change.  Of a subscription that a checkout made, an event
\* names no organisation and changes nothing, and is left out here.
Updated(s) ==
  IF s \in ByHand
    THEN {[about |-> "updated", sub |-> s, price |-> sub'[s].price,
           status |-> sub'[s].status]}
    ELSE {}
Told(about, s) ==
  {[about |-> about, sub |-> s, price |-> "other", status |-> "none"]}

\* Stripe refuses to update a subscription that has ended.
AtStripe(r) ==
  LET s == request[r].sub
      op == request[r].op
  IN  /\ Under(r, "stripe")
      /\ op = "change" => changes < MaxChanges
      /\ IF sub[s].status = "canceled"
           THEN Close(r) /\ UNCHANGED <<sub, events, changes>>
           ELSE /\ sub' = [sub EXCEPT ![s].ends = (op = "cancel"),
                     ![s].price = IF op = "change" THEN request[r].price ELSE @]
                /\ events' = events \cup Updated(s)
                /\ changes' = IF op = "change" THEN changes + 1 ELSE changes
                /\ IF op = "change" THEN request' = [request EXCEPT ![r].pc = "write"]
                   ELSE Close(r)
      /\ UNCHANGED <<org, customers, session, crossed, spare>>

\* Nothing is written after the change.
WriteNothing(r) ==
  /\ Under(r, "write")
  /\ Close(r)
  /\ UNCHANGED <<org, stripeVars, crossed, spare>>

\* The plan is written, the limits are not.
WritePlan(r) ==
  /\ Under(r, "write")
  /\ org' = [org EXCEPT !.plan = PlanOf(request[r].price)]
  /\ Close(r)
  /\ UNCHANGED <<stripeVars, crossed, spare>>

\* syncCheckout reads a session that was paid and its subscription ...
SyncCheckout(r, s) ==
  /\ request[r] = Idle
  /\ session[s].step = "paid"
  /\ request' = [request EXCEPT ![r] =
       [pc |-> "sync", op |-> "sync", sub |-> s, customer |-> session[s].customer,
        price |-> sub[s].price, status |-> sub[s].status]]
  /\ Crossing(r, "sync")
  /\ UNCHANGED <<org, stripeVars, spare>>

\* ... and writes what it read.
WriteSync(r) ==
  /\ Under(r, "sync")
  /\ org' = LET plan == PlanOf(request[r].price)
            IN  [customer |-> request[r].customer, sub |-> request[r].sub, plan |-> plan,
                 status |-> StatusOf(request[r].status), limits |-> Limits[plan]]
  /\ Close(r)
  /\ UNCHANGED <<stripeVars, crossed, spare>>

\* Stripe or the database fails, or the process stops.
BreakOff(r) ==
  /\ request[r] # Idle
  /\ spare' = (spare \/ Under(r, "save"))
  /\ crossed' = (crossed \/ Under(r, "write"))
  /\ Close(r)
  /\ UNCHANGED <<org, stripeVars>>

(***************************************************************************)
(* Stripe                                                                   *)
(***************************************************************************)
\* A subscription begins: a session is paid, or one is made by hand.
Begin(s, price) ==
  /\ sub' = [sub EXCEPT ![s] = [status |-> "active", price |-> price, ends |-> FALSE]]
  /\ events' = events \cup Updated(s)

Pay(s) ==
  /\ session[s].step = "open"
  /\ session' = [session EXCEPT ![s].step = "paid"]
  /\ Begin(s, session[s].price)
  /\ UNCHANGED <<org, customers, request, changes, crossed, spare>>

MakeByHand(s, price) ==
  /\ s \in ByHand
  /\ sub[s] = NoSub
  /\ org.customer # 0
  /\ Begin(s, price)
  /\ UNCHANGED <<org, customers, session, request, changes, crossed, spare>>

\* An invoice is paid, is not paid, or the last attempt failed.
Invoice(s, status) ==
  /\ sub[s].status \notin {"none", "canceled", status}
  /\ changes < MaxChanges
  /\ changes' = changes + 1
  /\ sub' = [sub EXCEPT ![s].status = status]
  /\ events' = events \cup Updated(s)
                       \cup Told(IF status = "active" THEN "paid" ELSE "unpaid", s)
  /\ UNCHANGED <<org, customers, session, request, crossed, spare>>

EndPeriod(s) ==
  /\ sub[s].status \notin {"none", "canceled"}
  /\ sub[s].ends
  /\ sub' = [sub EXCEPT ![s].status = "canceled"]
  /\ events' = events \cup (IF s \in ByHand THEN Told("deleted", s) ELSE {})
  /\ UNCHANGED <<org, customers, session, request, changes, crossed, spare>>

CustomerOf(s) == IF s \in Sessions THEN session[s].customer ELSE org.customer

\* handleWebhook.  An event about a subscription is about the organisation its
\* metadata names; one about an invoice is about the one with the customer.
After(e) ==
  CASE e.about = "updated" ->
         [org EXCEPT !.sub = e.sub, !.plan = PlanOf(e.price), !.status = StatusOf(e.status)]
    [] e.about = "deleted" -> [org EXCEPT !.status = "canceled"]
    [] e.about = "paid" /\ CustomerOf(e.sub) = org.customer ->
         [org EXCEPT !.status = "active"]
    [] e.about = "unpaid" /\ CustomerOf(e.sub) = org.customer ->
         [org EXCEPT !.status = "past_due"]
    [] OTHER -> org

HandleWebhook(e) ==
  /\ e \in events
  /\ org' = After(e)
  /\ crossed' = (crossed \/ /\ e.about = "updated"
                            /\ \/ e.price # sub[e.sub].price
                               \/ \E r \in Requests : request[r].op \in Writers)
  /\ UNCHANGED <<stripeVars, request, spare>>

Next ==
  \/ \E r \in Requests :
       \/ \E price \in Prices : CreateCheckout(r, price) \/ ChangeSubscription(r, price)
       \/ UpdateDetails(r) \/ CreateCustomer(r) \/ SaveCustomer(r) \/ StoreDetails(r)
       \/ \E s \in Sessions : CreateSession(r, s) \/ SyncCheckout(r, s)
       \/ CancelSubscription(r) \/ ResumeSubscription(r)
       \/ AtStripe(r) \/ WritePlan(r) \/ WriteSync(r) \/ BreakOff(r)
  \/ \E s \in Sessions : Pay(s)
  \/ \E s \in Subs :
       \/ \E price \in Prices : MakeByHand(s, price)
       \/ \E status \in {"active", "past_due", "unpaid"} : Invoice(s, status)
       \/ EndPeriod(s)
  \/ \E e \in events : HandleWebhook(e)

Spec == Init /\ [][Next]_vars

\* When nothing is under way, the organisation has the plan that its subscription is
\* charged for, unless changes crossed, one broke off between Stripe and the database,
\* or an event came when the price it tells had changed again (changeSubscription,
\* syncCheckout, handleWebhook).
PlanIsCharged ==
  /\ ~crossed
  /\ org.sub # None
  /\ \A r \in Requests : request[r].op \notin Writers
  => org.plan = PlanOf(sub[org.sub].price)

\* Stripe has one customer for the organisation, unless two requests that make one
\* overlapped or one broke off before it was stored (createCheckout).
OneCustomer ==
  /\ customers > 1 => spare
  /\ org.customer <= customers
  /\ org.sub # None => org.customer # 0
=============================================================================
