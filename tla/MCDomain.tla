------------------------------ MODULE MCDomain ------------------------------
(***************************************************************************)
(* One use of the domain: a transaction from its request to its row and    *)
(* back (WagerEntity), or a call of what it calculates with                *)
(* (ArithmeticCalls).  Neither shares state with the other.                *)
(***************************************************************************)
EXTENDS WagerEntity, ArithmeticCalls

DomainInit == Init /\ Calling

DomainNext ==
    \/ call.op = "none" /\ Next /\ UNCHANGED callVars
    \/ Call /\ UNCHANGED vars

DomainSpec == DomainInit /\ [][DomainNext]_<<vars, callVars>>
=============================================================================
