-------------------------------- MODULE Doors --------------------------------
(***************************************************************************)
(* What the doors of the Go binding promise, with no instance, no scratch  *)
(* and no pool in sight: any number of goroutines ask, and each is answered*)
(* from its own request alone, or panics inside the core.                  *)
(***************************************************************************)
EXTENDS DoorRequests

CONSTANTS Goroutine

VARIABLES
    asked,             \* the request each goroutine is inside a door with, or Nothing
    answer             \* what its latest call came to, Nothing while it is asking

DoorsInit ==
    /\ asked = [g \in Goroutine |-> Nothing]
    /\ answer = [g \in Goroutine |-> Nothing]

Ask(g, r) ==
    /\ asked[g] = Nothing
    /\ asked' = [asked EXCEPT ![g] = r]
    /\ answer' = [answer EXCEPT ![g] = Nothing]

(* A call that never reaches the core cannot trap in it.                   *)
Answer(g) ==
    /\ asked[g] # Nothing
    /\ asked' = [asked EXCEPT ![g] = Nothing]
    /\ \E a \in {Promise(asked[g])} \cup
                (IF Promise(asked[g]) = CallerBug THEN {} ELSE {Trapped}) :
          answer' = [answer EXCEPT ![g] = a]

DoorsNext == \E g \in Goroutine : Answer(g) \/ \E r \in Request : Ask(g, r)

(* Every call comes to an end.                                             *)
DoorsSpec ==
    /\ DoorsInit /\ [][DoorsNext]_<<asked, answer>>
    /\ \A g \in Goroutine : WF_<<asked, answer>>(Answer(g))

DoorsSafety == DoorsInit /\ [][DoorsNext]_<<asked, answer>>
=============================================================================
