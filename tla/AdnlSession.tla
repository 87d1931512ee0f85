---------------------------- MODULE AdnlSession ----------------------------
(* What one ADNL session promises its caller, without frames or keystreams:  *)
(* a call is answered with the answer to that very call, or fails and leaves *)
(* the session open, or fails and loses it. A lost session answers nothing.  *)
EXTENDS Naturals

VARIABLES state,   \* "closed", "open" or "lost"
          call,    \* the number of the call in progress, 0 when there is none
          calls,   \* how many calls were started on the wire
          answer   \* the call whose answer was handed back last, 0 before any

vars == <<state, call, calls, answer>>

Init == state = "closed" /\ call = 0 /\ calls = 0 /\ answer = 0

Open == state = "closed" /\ state' = "open" /\ UNCHANGED <<call, calls, answer>>

Start == /\ state = "open" /\ call = 0
         /\ call' = calls + 1 /\ calls' = calls + 1
         /\ UNCHANGED <<state, answer>>

Answered == call # 0 /\ answer' = call /\ call' = 0 /\ UNCHANGED <<state, calls>>

Unanswered == call # 0 /\ call' = 0 /\ UNCHANGED <<state, calls, answer>>

Lose == call # 0 /\ call' = 0 /\ state' = "lost" /\ UNCHANGED <<calls, answer>>

Next == Open \/ Start \/ Answered \/ Unanswered \/ Lose

Spec == Init /\ [][Next]_vars
=============================================================================
