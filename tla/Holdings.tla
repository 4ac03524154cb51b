------------------------------- MODULE Holdings -------------------------------
(***************************************************************************)
(* What the position book promises, without positions: the account holds   *)
(* what the booked purchases brought in minus what the booked sales took   *)
(* out, each execution is booked at most once and in one step, and a sale  *)
(* never takes out more than is held.  Merging positions, deleting them    *)
(* and converting a residue into a dust position are invisible here.       *)
(***************************************************************************)
EXTENDS Integers

CONSTANTS Buy, Sell  \* the executions

VARIABLES
  held,      \* the quantity the account holds
  bookedBuy, bookedSell  \* the quantity booked for each execution, 0 if none

hvars == <<held, bookedBuy, bookedSell>>

HInit ==
  /\ held = 0
  /\ bookedBuy = [b \in Buy |-> 0]
  /\ bookedSell = [j \in Sell |-> 0]

BookBuy(b) ==
  /\ bookedBuy[b] = 0
  /\ bookedBuy'[b] > 0
  /\ bookedBuy' = [bookedBuy EXCEPT ![b] = bookedBuy'[b]]
  /\ held' = held + bookedBuy'[b]
  /\ UNCHANGED bookedSell

BookSell(j) ==
  /\ bookedSell[j] = 0
  /\ bookedSell'[j] \in 1..held
  /\ bookedSell' = [bookedSell EXCEPT ![j] = bookedSell'[j]]
  /\ held' = held - bookedSell'[j]
  /\ UNCHANGED bookedBuy

HNext == (\E b \in Buy : BookBuy(b)) \/ (\E j \in Sell : BookSell(j))

HSpec == HInit /\ [][HNext]_hvars
=============================================================================
