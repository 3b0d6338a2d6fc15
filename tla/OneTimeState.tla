---------------------------- MODULE OneTimeState ----------------------------
(***************************************************************************)
(* What OAuth state promises: a state that was handed out is redeemed at   *)
(* most once, by the user it was handed to and before it expires, and a    *)
(* state that was redeemed or lost never becomes open again.               *)
(***************************************************************************)
EXTENDS Integers

CONSTANTS
    States,   \* the OAuth states, each handed out at most once
    Attempts, \* the attempts at redeeming one
    Holders,  \* the users
    Ttl,      \* how long a state stays good
    Nobody    \* not a user

VARIABLES
    now,      \* the clock
    open,     \* the states that can be redeemed
    redeemed, \* the redemptions: which attempt, of which state, by whom
    owner,    \* per state, the user it was handed to
    expiry    \* per state, when it expires

statuses == <<now, open, redeemed, owner, expiry>>

Init ==
    /\ now = 0
    /\ open = {}
    /\ redeemed = {}
    /\ owner = [s \in States |-> Nobody]
    /\ expiry = [s \in States |-> 0]

HandOut(s, u) ==
    /\ owner[s] = Nobody
    /\ owner' = [owner EXCEPT ![s] = u]
    /\ expiry' = [expiry EXCEPT ![s] = now + Ttl]
    /\ open' = open \cup {s}
    /\ UNCHANGED <<now, redeemed>>

Redeem(a, s) ==
    /\ s \in open
    /\ now < expiry[s]
    /\ open' = open \ {s}
    /\ redeemed' = redeemed \cup {[attempt |-> a, state |-> s, by |-> owner[s]]}
    /\ UNCHANGED <<now, owner, expiry>>

Lose ==
    /\ open' \subseteq open
    /\ UNCHANGED <<now, redeemed, owner, expiry>>

Pass == now' = now + 1 /\ UNCHANGED <<open, redeemed, owner, expiry>>

Next ==
    \/ \E s \in States, a \in Attempts : Redeem(a, s)
    \/ \E s \in States, u \in Holders : HandOut(s, u)
    \/ Lose
    \/ Pass

Spec == Init /\ [][Next]_statuses

=============================================================================
