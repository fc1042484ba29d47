----------------------------- MODULE MCFragment -----------------------------
(***************************************************************************)
(* Instances of fragment expansion for TLC.                                *)
(***************************************************************************)
EXTENDS FragmentProperties, TLC

CONSTANTS d1, d2, x, y, here, aside

(* Two directories next to each other.  "here" is the bare name of x, so   *)
(* there is one in each directory; "aside" is ../d1/y, the same file from  *)
(* either directory, and what it includes is looked up in d1.              *)
TheFiles == {<<d1, x>>, <<d2, x>>, <<d1, y>>}
Joined   == [d \in {d1, d2} |-> [n \in {here, aside} |->
              IF n = here THEN <<d, x>> ELSE <<d1, y>>]]
Parent   == [f \in TheFiles |-> f[1]]
Search   == <<d2, d1>>

(* Chains, fragments used twice, circles of one and two, empty fragments,  *)
(* and coordinates in the arm and inside fragments.                        *)
SomeBodies ==
  {<<>>, <<Text>>, <<here, Text>>, <<aside, here>>, <<here, aside, Text>>,
   <<Coordinate, aside>>, <<Text, Coordinate, here>>}
============================================================================
