----------------------------- MODULE MockBackend -----------------------------
(***************************************************************************)
(* The backend the Mini App runs against outside Telegram (api/mock.ts):   *)
(* one admin's account in memory, orders that get paid by themselves, keys *)
(* that are always good.                                                   *)
(***************************************************************************)
EXTENDS Naturals, FiniteSets

CONSTANTS
    MockOrders,     \* ids of the orders made in this session
    MockDevices,    \* the demo devices
    PlanTerm        \* days of the plans on offer

ASSUME MockConstants == PlanTerm \subseteq Nat \ {0}

Lifetime == 0       \* paid_until = null

VARIABLES
    activated,      \* the account has access
    paidFor,        \* days of access ahead, or Lifetime
    age,            \* per order: "absent", "new", "due" (6 s), "old" (30 min)
    plan,           \* per order, its plan_days
    cancelled, paid,\* cancelledOrders, paidOrders
    mockDevices,    \* devices, each blocked or not
    limit,          \* deviceLimit is above zero
    mockConfig,     \* the demo config: "active" or "deleted"
    mockKeys,       \* adminKeys, by how they are listed
    client,         \* an admin profile: "lifetime", "paid" or "expired"
    told            \* history: what the last GET of each order answered

mockVars    == <<activated, paidFor, age, plan, cancelled, paid, mockDevices,
                 limit, mockConfig, mockKeys, client, told>>
orderState  == <<age, plan, cancelled, paid, told>>
accessState == <<activated, paidFor>>
deviceState == <<mockDevices, limit>>
adminState  == <<mockKeys, client>>

\* Due orders count as paid, whatever else happened to them.
Due(o) == age[o] \in {"due", "old"}

\* Mutation: orders already reported paid are not left out.
OfferedTooLong(o) == age[o] \in {"new", "due"} /\ o \notin cancelled

\* GET /orders/pending: not cancelled, not reported paid, within 30 minutes.
Offered(o) == age[o] \in {"new", "due"} /\ o \notin cancelled \cup paid

-----------------------------------------------------------------------------
(* Orders.                                                                  *)

PostOrder(o) ==
    /\ age[o] = "absent"
    /\ age' = [age EXCEPT ![o] = "new"]
    /\ \E days \in PlanTerm : plan' = [plan EXCEPT ![o] = days]
    /\ UNCHANGED <<accessState, cancelled, paid, told, deviceState, mockConfig, adminState>>

TimePasses(o) ==
    /\ age[o] \in {"new", "due"}
    /\ age' = [age EXCEPT ![o] = IF @ = "new" THEN "due" ELSE "old"]
    /\ UNCHANGED <<accessState, plan, cancelled, paid, told, deviceState, mockConfig,
                   adminState>>

PostCancel(o) ==
    /\ age[o] # "absent"
    /\ cancelled' = cancelled \cup {o}
    /\ UNCHANGED <<accessState, age, plan, paid, told, deviceState, mockConfig, adminState>>

\* GET /orders/{id}: a due order is paid, and its term begins now.
GetOrder(o) ==
    /\ age[o] # "absent"
    /\ told' = [told EXCEPT ![o] = IF Due(o) THEN "paid" ELSE "pending"]
    /\ IF Due(o)
       THEN /\ paid' = paid \cup {o}
            /\ activated' = TRUE /\ paidFor' = plan[o]
       ELSE UNCHANGED <<paid, accessState>>
    /\ UNCHANGED <<age, plan, cancelled, deviceState, mockConfig, adminState>>

-----------------------------------------------------------------------------
(* Access, configs and devices.                                             *)

PostKey ==
    /\ activated' = TRUE /\ paidFor' = Lifetime
    /\ UNCHANGED <<orderState, deviceState, mockConfig, adminState>>

DeleteConfig ==
    /\ mockConfig' = "deleted"
    /\ UNCHANGED <<accessState, orderState, deviceState, adminState>>

PatchLimit ==
    /\ limit' \in BOOLEAN
    /\ UNCHANGED <<accessState, orderState, mockDevices, mockConfig, adminState>>

\* DELETE or block of one device, or all of them with the subscription link.
ChangeDevices ==
    /\ \E d \in DOMAIN mockDevices :
         mockDevices' \in {[e \in DOMAIN mockDevices \ {d} |-> mockDevices[e]],
                           [mockDevices EXCEPT ![d] = "blocked"],
                           [mockDevices EXCEPT ![d] = "allowed"], << >>}
    /\ UNCHANGED <<accessState, orderState, limit, mockConfig, adminState>>

-----------------------------------------------------------------------------
(* The admin's.                                                             *)

\* One kind of each is enough: lifetime ones, and ones with a plan.
PostAdminKeys ==
    /\ \E kind \in {"lifetime", "timed"} : mockKeys' = mockKeys \cup {kind}
    /\ UNCHANGED <<accessState, orderState, deviceState, mockConfig, client>>

DeleteAdminKey ==
    /\ \E kind \in mockKeys : mockKeys' = mockKeys \ {kind}
    /\ UNCHANGED <<accessState, orderState, deviceState, mockConfig, client>>

\* apply-key: thirty days more, but nothing for a lifetime profile.
PostApplyKey ==
    /\ client # "lifetime" /\ client' = "paid"
    /\ UNCHANGED <<accessState, orderState, deviceState, mockConfig, mockKeys>>

-----------------------------------------------------------------------------
MockInit ==
    /\ activated = TRUE /\ paidFor \in PlanTerm
    /\ age = [o \in MockOrders |-> "absent"] /\ plan = [o \in MockOrders |-> 0]
    /\ cancelled = {} /\ paid = {}
    /\ told = [o \in MockOrders |-> "nothing"]
    /\ mockDevices = [d \in MockDevices |-> "allowed"] /\ limit = TRUE
    /\ mockConfig = "active"
    /\ mockKeys = {"lifetime"} /\ client \in {"lifetime", "paid", "expired"}

MockNext ==
    \/ \E o \in MockOrders : PostOrder(o) \/ TimePasses(o) \/ PostCancel(o) \/ GetOrder(o)
    \/ PostKey \/ DeleteConfig \/ PatchLimit \/ ChangeDevices
    \/ PostAdminKeys \/ DeleteAdminKey \/ PostApplyKey

MockSpec == MockInit /\ [][MockNext]_mockVars

-----------------------------------------------------------------------------
MockTypeOK ==
    /\ activated \in BOOLEAN /\ paidFor \in PlanTerm \cup {Lifetime}
    /\ age \in [MockOrders -> {"absent", "new", "due", "old"}]
    /\ cancelled \subseteq MockOrders /\ paid \subseteq MockOrders
    /\ DOMAIN mockDevices \subseteq MockDevices
    /\ mockKeys \subseteq {"lifetime", "timed"}

(* Once the app has been told that an order is paid, the order is not        *)
(* offered again among the unfinished ones (mock.ts:197-199, 217).           *)
PaidIsSettled == \A o \in MockOrders : told[o] = "paid" => ~Offered(o)
=============================================================================
