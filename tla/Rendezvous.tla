----------------------------- MODULE Rendezvous -----------------------------
(***************************************************************************)
(* What the daemon promises, without connections, events or queues: an      *)
(* offer of descriptors and a producer that asks for one meet at once, in   *)
(* whichever order they come.  Only the standing offer is ever handed over, *)
(* to one producer, and it is gone then.                                    *)
(***************************************************************************)
CONSTANTS Offers, Producers,
          NULL   \* neither of them

VARIABLES
  offer,   \* the standing offer, or NULL
  asker,   \* the producer that waits for one, or NULL
  handed   \* the pairs <<producer, offer>> that have met

vars == <<offer, asker, handed>>

Init == offer = NULL /\ asker = NULL /\ handed = {}

\* Offer o and producer p stand; if both are there they meet.
Meet(o, p) ==
  IF o # NULL /\ p # NULL
  THEN /\ handed' = handed \cup {<<p, o>>}
       /\ offer' = NULL /\ asker' = NULL
  ELSE /\ offer' = o /\ asker' = p
       /\ UNCHANGED handed

\* A consumer deposits a fresh set; the one before it, if any, is lost.
Offer(o) == (\A x \in handed : x[2] # o) /\ Meet(o, asker)
Ask(p)   == Meet(offer, p)
\* Consumer gone, producer gone, the broker itself gone.
Withdraw == Meet(NULL, asker)
Leave    == Meet(offer, NULL)
Forget   == Meet(NULL, NULL)

Next ==
  \/ \E o \in Offers : Offer(o)
  \/ \E p \in Producers : Ask(p)
  \/ Withdraw
  \/ Leave
  \/ Forget

Spec == Init /\ [][Next]_vars

-----------------------------------------------------------------------------
TypeOK ==
  /\ offer \in Offers \cup {NULL}
  /\ asker \in Producers \cup {NULL}
  /\ handed \subseteq Producers \X Offers

\* Nobody is kept waiting while an offer stands.
NobodyWaits == offer = NULL \/ asker = NULL

\* An offer is handed to one producer, and does not stand any more.
HandedOnce ==
  /\ \A x, y \in handed : x[2] = y[2] => x = y
  /\ \A x \in handed : x[2] # offer
=============================================================================
