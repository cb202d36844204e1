--------------------------- MODULE ArrivalFacts ---------------------------
(***************************************************************************)
(* What the arrival fact table promises, free of files, jobs and merges.   *)
(* Sightings of stopped vehicles are offered in any order, any number of   *)
(* times; the fact of a stop visit is the earliest sighting offered so     *)
(* far, so it appears once and then only ever moves earlier.               *)
(***************************************************************************)
EXTENDS Naturals

CONSTANTS
  Grains, \* the stop visits: (service_date, trip_id, stop_sequence)
  Times   \* the vehicle's own timestamps, positive (Medallion assumes so)

\* The fact of a visit nobody was seen stopped at.
None == 0

Sightings == [grain : Grains, at : Times]

VARIABLES
  offered, \* the sightings offered so far
  fact     \* fact[g]: when the vehicle arrived at g, or None

factVars == <<offered, fact>>

TimesOf(S, g) == {s.at : s \in {x \in S : x.grain = g}}

\* t is the earliest of T, and None when T is empty.
IsEarliest(t, T) ==
  \/ T = {} /\ t = None
  \/ t \in T /\ \A u \in T : t <= u

FactsInit ==
  /\ offered = {}
  /\ fact = [g \in Grains |-> None]

Offer(S) ==
  /\ offered' = offered \union S
  /\ fact' \in [Grains -> Times \union {None}]
  /\ \A g \in Grains : IsEarliest(fact'[g], TimesOf(offered', g))

FactsNext == \E S \in SUBSET Sightings : Offer(S)

FactsSpec == FactsInit /\ [][FactsNext]_factVars
===========================================================================
