------------------------------ MODULE MpppSession ------------------------------
(***************************************************************************)
(* What xmppp promises its user: a link that is down, being dialed or up,  *)
(* and a dialing that makes a limited number of calls, fixed when it       *)
(* begins, and ends; the link comes up only out of a dialing that has      *)
(* placed a call.                                                          *)
(***************************************************************************)
EXTENDS Naturals

VARIABLES link, placed, budget

vars == <<link, placed, budget>>

Init == link = "down" /\ placed = 0 /\ budget = 0

\* Connect was clicked and the configuration read.
Begin == /\ link = "down" /\ link' = "dialing"
         /\ budget' \in Nat /\ UNCHANGED placed

Call == /\ link = "dialing" /\ placed < budget
        /\ placed' = placed + 1 /\ UNCHANGED <<link, budget>>

\* The plan is used up, the device or the modem failed, or the user cancelled.
Fail == link = "dialing" /\ link' = "down" /\ placed' = 0 /\ budget' = 0

\* pppd runs over the last call.
Up == /\ link = "dialing" /\ placed > 0
      /\ link' = "up" /\ placed' = 0 /\ budget' = 0

\* The user hung up or pppd died.
Down == link = "up" /\ link' = "down" /\ UNCHANGED <<placed, budget>>

Next == Begin \/ Call \/ Fail \/ Up \/ Down

Spec == Init /\ [][Next]_vars
=============================================================================
