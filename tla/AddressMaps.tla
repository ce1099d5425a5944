---------------------------- MODULE AddressMaps ----------------------------
(***************************************************************************)
(* What physical maps promise: each one that exists takes addresses to     *)
(* physical pages, and changes only where it is told to.                   *)
(***************************************************************************)
EXTENDS Integers

CONSTANTS Addresses, Unmapped

VARIABLE mapped    \* of each map that exists: what is mapped at each address

Nothing == [va \in Addresses |-> Unmapped]

\* A map with an identity that none has.
Create == \E m \in DOMAIN mapped' \ DOMAIN mapped :
  mapped' = [x \in DOMAIN mapped \cup {m} |-> IF x = m THEN Nothing ELSE mapped[x]]

Destroy(m) == mapped' = [x \in DOMAIN mapped \ {m} |-> mapped[x]]

Map(m, va) ==
  /\ mapped'[m][va] # Unmapped
  /\ mapped' = [mapped EXCEPT ![m][va] = mapped'[m][va]]

\* Everything in a range of addresses is unmapped.
Unmap(m, low, high) ==
  mapped' = [mapped EXCEPT ![m] = [va \in Addresses |-> IF va \in low..high THEN Unmapped ELSE @[va]]]

Init == mapped = << >>

Next ==
  \/ Create
  \/ \E m \in DOMAIN mapped :
       \/ Destroy(m)
       \/ \E va \in Addresses : m \in DOMAIN mapped' /\ Map(m, va)
       \/ \E low, high \in Addresses : Unmap(m, low, high)

Spec == Init /\ [][Next]_mapped

=============================================================================
