-------------------------------- MODULE Poll --------------------------------
(***************************************************************************)
(* What an election promises its voters: a vote once counted stays as it   *)
(* is, a voter is counted at most once, and who is told that the vote was  *)
(* accepted has been counted.  counted maps the voters counted so far to   *)
(* their options.                                                          *)
(***************************************************************************)
EXTENDS Integers, Functions

CONSTANTS Voters, Options

VARIABLES counted, confirmed

vars == <<counted, confirmed>>

Init == counted = << >> /\ confirmed = {}

\* Votes of voters not counted before are added, several when one write makes
\* earlier ones durable as well; voters that are counted may be told so.
Count ==
  \E new \in SUBSET (Voters \ DOMAIN counted) :
    /\ \E choice \in [new -> Options] :
         counted' = [v \in DOMAIN counted \cup new |->
                       IF v \in DOMAIN counted THEN counted[v] ELSE choice[v]]
    /\ \E told \in SUBSET (DOMAIN counted \cup new) : confirmed' = confirmed \cup told

Next == Count

Spec == Init /\ [][Next]_vars
=============================================================================
