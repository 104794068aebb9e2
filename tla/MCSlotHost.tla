------------------------------ MODULE MCSlotHost ------------------------------
(***************************************************************************)
(* Two parts that share no state, checked in one run: what a Windows slot  *)
(* is made of, and the manual control of a slot's session.  Each moves     *)
(* while the other is in its initial state.                                *)
(***************************************************************************)
EXTENDS WindowsSlots, SlotSessions, TLC

hostVars == <<winVars, sessionVars>>

HostInit == WinInit /\ SessionInit

SlotsAtRest == call = Nothing /\ sids = 0 /\ mishaps = 0

SessionsAtRest == slot.status = "unprovisioned" /\ ops = <<>> /\ pass = Idle

HostNext ==
    \/ SessionsAtRest /\ WinNext /\ UNCHANGED sessionVars
    \/ SlotsAtRest /\ SessionNext /\ UNCHANGED winVars

HostSpec == HostInit /\ [][HostNext]_hostVars

Symmetry == Permutations(Profiles) \cup Permutations(Slots)
=============================================================================
