------------------------- MODULE ConnectionLifecycle -------------------------
(***************************************************************************)
(* What the token service promises of a Google connection, whatever the    *)
(* records, the tokens and the calls behind it look like.  A connection    *)
(* holds the grants its owner gave; a renewal never adds one; a grant that *)
(* a disconnect ended is not held again.                                   *)
(***************************************************************************)
CONSTANTS
    Connections, \* the (identity, Google account) pairs
    Grants       \* the consents users can give, each given once

VARIABLES
    held,  \* per connection, the grants whose tokens are kept
    ended, \* the grants a disconnect ended
    given  \* the grants given so far

lifecycle == <<held, ended, given>>

Init ==
    /\ held = [k \in Connections |-> {}]
    /\ ended = {}
    /\ given = {}

\* A new grant; tokens of grants held before may be kept beside it.
Connect(k, g) ==
    /\ g \notin given
    /\ given' = given \cup {g}
    /\ \E kept \in SUBSET held[k] : held' = [held EXCEPT ![k] = kept \cup {g}]
    /\ UNCHANGED ended

\* A renewal replaces tokens by tokens of grants already held.
Renew(k) ==
    /\ \E kept \in SUBSET held[k] : kept # {} /\ held' = [held EXCEPT ![k] = kept]
    /\ UNCHANGED <<ended, given>>

\* The provider no longer honours the connection.
Lapse(k) ==
    /\ held' = [held EXCEPT ![k] = {}]
    /\ UNCHANGED <<ended, given>>

Disconnect(k) ==
    /\ held' = [held EXCEPT ![k] = {}]
    /\ ended' = ended \cup held[k]
    /\ UNCHANGED given

Next ==
    \E k \in Connections :
        \/ \E g \in Grants : Connect(k, g)
        \/ Renew(k) \/ Lapse(k) \/ Disconnect(k)

Spec == Init /\ [][Next]_lifecycle

=============================================================================
