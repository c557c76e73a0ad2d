---------------------------- MODULE AttemptGate ----------------------------
(***************************************************************************)
(* What the rate limiter promises, without its locks and its map: for each *)
(* key (normalised client IP) attempts pass one at a time, and every       *)
(* failure counts until a success or an expiry clears the key's count.     *)
(***************************************************************************)
EXTENDS Naturals

CONSTANTS
  Conns,   \* the connections that authenticate
  KeyOf    \* the key of each connection

VARIABLES
  inside,  \* the connections whose attempt is under way
  fails    \* failures counted for each key

Keys == {KeyOf[c] : c \in Conns}

Init == inside = {} /\ fails = [k \in Keys |-> 0]

\* An attempt begins: no other attempt for the same key is under way.
Enter(c) ==
  /\ \A d \in inside : KeyOf[d] # KeyOf[c]
  /\ inside' = inside \cup {c}
  /\ UNCHANGED fails

\* An attempt ends in success and clears the count.
Succeed(c) ==
  /\ c \in inside
  /\ inside' = inside \ {c}
  /\ fails' = [fails EXCEPT ![KeyOf[c]] = 0]

\* An attempt ends in failure, which is counted.
Fail(c) ==
  /\ c \in inside
  /\ inside' = inside \ {c}
  /\ fails' = [fails EXCEPT ![KeyOf[c]] = @ + 1]

\* The count of a key with no attempt under way expires.
Forget(k) ==
  /\ \A d \in inside : KeyOf[d] # k
  /\ fails' = [fails EXCEPT ![k] = 0]
  /\ UNCHANGED inside

Next ==
  \/ \E c \in Conns : Enter(c) \/ Succeed(c) \/ Fail(c)
  \/ \E k \in Keys : Forget(k)

Spec == Init /\ [][Next]_<<inside, fails>>

=============================================================================
