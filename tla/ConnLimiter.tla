---------------------------- MODULE ConnLimiter ----------------------------
(***************************************************************************)
(* What the pool of controller connections promises to its callers, with   *)
(* no queue, no lock and no network: slots that are taken and given back.  *)
(* A caller holds at most one slot; a slot changes hands (a closed         *)
(* connection starts a new one for a queued request) or comes back; a slot *)
(* whose connection fails to close is lost for good.                       *)
(*                                                                         *)
(* The slots taken pass the limit by less than Overshoot: each caller may  *)
(* pass the check of the limit once before any of them is counted.         *)
(* ConnPool implements this specification with Overshoot the number of     *)
(* its callers.                                                            *)
(***************************************************************************)
EXTENDS Integers

CONSTANTS
    Callers,            \* the goroutines that call the pool
    Overshoot           \* how many callers may be between check and count

VARIABLES
    limit,              \* largest number of slots wanted, 0: no limit
    holders,            \* callers that hold a slot
    taken               \* slots held or lost

limiterVars == <<limit, holders, taken>>

LimiterInit ==
    /\ limit = 0
    /\ holders = {}
    /\ taken = 0

\* The limit is set before the first slot is taken.
SetLimit ==
    /\ taken = 0
    /\ limit' \in Nat
    /\ UNCHANGED <<holders, taken>>

Acquire(p) ==
    /\ p \notin holders
    /\ limit > 0 => taken + 1 < limit + Overshoot
    /\ holders' = holders \union {p}
    /\ taken' = taken + 1
    /\ UNCHANGED limit

\* p's slot goes to q, which waited for one.
Transfer(p, q) ==
    /\ p \in holders
    /\ q \notin holders
    /\ holders' = (holders \ {p}) \union {q}
    /\ UNCHANGED <<limit, taken>>

GiveBack(p) ==
    /\ p \in holders
    /\ holders' = holders \ {p}
    /\ taken' = taken - 1
    /\ UNCHANGED limit

\* p goes without giving its slot back.
Lose(p) ==
    /\ p \in holders
    /\ holders' = holders \ {p}
    /\ UNCHANGED <<limit, taken>>

LimiterNext ==
    \/ SetLimit
    \/ \E p \in Callers :
        \/ Acquire(p)
        \/ \E q \in Callers : Transfer(p, q)
        \/ GiveBack(p)
        \/ Lose(p)

LimiterSpec == LimiterInit /\ [][LimiterNext]_limiterVars

============================================================================
