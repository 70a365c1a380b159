------------------------------ MODULE FailClosed ------------------------------
(***************************************************************************)
(* What the session kill switch promises, without a word on how: ordinary   *)
(* traffic is locked before a tunnel comes up, stays locked while one is up *)
(* or has been lost, and is unlocked only on the user's request and only    *)
(* when no tunnel is up.                                                    *)
(***************************************************************************)
VARIABLES
  lock,     \* is the firewall table installed
  tunnel,   \* does NetworkManager hold the PIA tunnel up
  asked     \* is a request of the user to give the lock up being worked on

vars == <<lock, tunnel, asked>>

Init == ~lock /\ ~tunnel /\ ~asked

Ask == ~asked /\ asked' = TRUE /\ UNCHANGED <<lock, tunnel>>

Settle == asked /\ asked' = FALSE /\ UNCHANGED <<lock, tunnel>>

Arm == ~lock /\ ~tunnel /\ lock' = TRUE /\ UNCHANGED <<tunnel, asked>>

TunnelUp == lock /\ ~tunnel /\ tunnel' = TRUE /\ UNCHANGED <<lock, asked>>

TunnelDown == tunnel /\ tunnel' = FALSE /\ UNCHANGED <<lock, asked>>

Release == lock /\ ~tunnel /\ asked /\ lock' = FALSE /\ UNCHANGED <<tunnel, asked>>

Next == Ask \/ Settle \/ Arm \/ TunnelUp \/ TunnelDown \/ Release

Spec == Init /\ [][Next]_vars
=============================================================================
