------------------------------- MODULE MCEvm -------------------------------
EXTENDS Evm
A == "a"
B == "b"
N == "n"
P == "p"
Accounts == {A, B, N}
Balance == [a \in Accounts |-> CASE a = A -> 2 [] a = B -> 1 [] OTHER -> 0]
Nonce == [a \in Accounts |-> IF a = N THEN 0 ELSE 1]
Code == [a \in Accounts |-> IF a = N THEN "none" ELSE "code"]
Slots == [a \in Accounts |-> IF a = N THEN [k \in {} |-> 0] ELSE [k \in {1} |-> IF a = A THEN 1 ELSE 0]]
=============================================================================
