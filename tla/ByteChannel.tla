----------------------------- MODULE ByteChannel -----------------------------
(***************************************************************************)
(* What one direction of the GPIB handshake promises: a talker offers      *)
(* numbered bytes one at a time, every receiver takes each of them exactly *)
(* once and hands it to its caller, and the talker is told that a byte has *)
(* been sent only when every receiver has taken it.                        *)
(***************************************************************************)
EXTENDS Naturals, Sequences

CONSTANTS N, Receiver

VARIABLES offered,   \* the last byte put on the bus
          taken,     \* taken[r]: the last byte r has latched
          got,       \* got[r]: the bytes r's caller has been given
          confirmed  \* the bytes the talker's caller was told are sent

chanVars == <<offered, taken, got, confirmed>>

Init ==
  /\ offered = 0
  /\ taken = [r \in Receiver |-> 0]
  /\ got = [r \in Receiver |-> <<>>]
  /\ confirmed = {}

Offer ==
  /\ offered < N
  /\ confirmed = 1..offered
  /\ offered' = offered + 1
  /\ UNCHANGED <<taken, got, confirmed>>

Take(r) ==
  /\ taken[r] = offered - 1
  /\ Len(got[r]) = taken[r]
  /\ taken' = [taken EXCEPT ![r] = offered]
  /\ UNCHANGED <<offered, got, confirmed>>

Return(r) ==
  /\ Len(got[r]) = taken[r] - 1
  /\ got' = [got EXCEPT ![r] = Append(@, taken[r])]
  /\ UNCHANGED <<offered, taken, confirmed>>

Confirm ==
  /\ \A r \in Receiver : taken[r] = offered
  /\ confirmed = 1..(offered - 1)
  /\ confirmed' = confirmed \cup {offered}
  /\ UNCHANGED <<offered, taken, got>>

Next == Offer \/ Confirm \/ \E r \in Receiver : Take(r) \/ Return(r)

Spec == Init /\ [][Next]_chanVars
==============================================================================
