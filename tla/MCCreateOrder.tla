--------------------------- MODULE MCCreateOrder ---------------------------
(* Three requests list the same products in different orders, a fourth     *)
(* lists one of them less often, two bring one key of their own.  Two      *)
(* instances, one of which fails.                                          *)
EXTENDS CreateOrder

CONSTANTS r1, r2, r3, r4, r5, r6, k, n1, n2

MCRequest  == {r1, r2, r3, r4, r5, r6}
MCItemsOf  == [r \in MCRequest |-> CASE r = r1 -> <<"a", "b", "b">>
                                    [] r = r2 -> <<"b", "a", "b">>
                                    [] r = r3 -> <<"b", "b", "a">>
                                    [] OTHER  -> <<"a", "b">>]
MCGivenKey == [r \in MCRequest |-> IF r \in {r5, r6} THEN k ELSE NoKey]
MCNodeOf   == [r \in MCRequest |-> IF r \in {r1, r5} THEN n1 ELSE n2]
=============================================================================
