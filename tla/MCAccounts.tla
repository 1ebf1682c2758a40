----------------------------- MODULE MCAccounts -----------------------------
(* Two clients register one email with different passwords, the first one  *)
(* tries again; a third has an email of its own.  They log in and out.     *)
EXTENDS Accounts, TLC

CONSTANTS reg1, reg2, reg3, reg4, log1, log2, log3, out1, out2, n1, n2

MCRequest  == {reg1, reg2, reg3, reg4, log1, log2, log3, out1, out2}
MCKindOf   == [r \in MCRequest |-> CASE r \in {reg1, reg2, reg3, reg4} -> "register"
                                    [] r \in {log1, log2, log3}  -> "login"
                                    [] OTHER                     -> "logout"]
MCEmailOf  == [r \in MCRequest |-> IF r = reg4 THEN "second" ELSE "first"]
MCPassword == [r \in MCRequest |-> IF r \in {reg2, log2} THEN "other" ELSE "password"]
MCAfter    == (reg3 :> reg1) @@ (log1 :> reg1) @@ (log2 :> reg2) @@ (log3 :> reg1)
              @@ (out1 :> reg1) @@ (out2 :> log1) @@ [r \in MCRequest |-> NoRequest]
MCNodeOf   == [r \in MCRequest |-> IF r \in {reg1, log3, out2} THEN n1 ELSE n2]
=============================================================================
