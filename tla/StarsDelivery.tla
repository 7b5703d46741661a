---------------------------- MODULE StarsDelivery ----------------------------
(***************************************************************************)
(* What buyers of days for Telegram Stars are promised, whatever the bot,  *)
(* Telegram and the api do in between: a charge is credited once, and it   *)
(* is credited eventually unless the bot lost it.                          *)
(***************************************************************************)
CONSTANT Charges

VARIABLES
    charged,    \* charges Telegram has taken
    credited,   \* charges whose days were added
    lost        \* charges nobody will credit

vars == <<charged, credited, lost>>

Init == charged = {} /\ credited = {} /\ lost = {}

Charge(c) ==
    /\ c \notin charged
    /\ charged' = charged \cup {c}
    /\ UNCHANGED <<credited, lost>>

Credit(c) ==
    /\ c \in charged \ (credited \cup lost)
    /\ credited' = credited \cup {c}
    /\ UNCHANGED <<charged, lost>>

\* The process that held them died.
Lose ==
    /\ \E S \in SUBSET (charged \ credited) : lost' = lost \cup S
    /\ UNCHANGED <<charged, credited>>

Next == Lose \/ \E c \in Charges : Charge(c) \/ Credit(c)

Spec == Init /\ [][Next]_vars /\ \A c \in Charges : WF_vars(Credit(c))
=============================================================================
