-------------------------------- MODULE Lru ---------------------------------
(***************************************************************************)
(* What an LRU replacer promises, with no list in it: a set of members and *)
(* the strict order in which they were last put.  The victim is the member *)
(* nothing is older than.                                                  *)
(***************************************************************************)
EXTENDS FiniteSets, Integers

CONSTANTS Values, Capacity, NoValue

VARIABLES
  members,  \* the values the replacer holds
  older,    \* <<a, b>> when a was put before b was last put
  evicted   \* the value the last operation returned as victim, or NoValue

Oldest(t) == /\ t \in members
             /\ \A u \in members : <<u, t>> \notin older

Without(t) == {pair \in older : t \notin {pair[1], pair[2]}}

Init == members = {} /\ older = {} /\ evicted = NoValue

Put(t) ==
  /\ t \in members \/ Cardinality(members) < Capacity
  /\ members' = members \cup {t}
  /\ older' = Without(t) \cup ((members \ {t}) \X {t})
  /\ evicted' = NoValue

PutWhenFull(t) ==
  /\ t \notin members /\ Cardinality(members) = Capacity
  /\ \E u \in members :
       /\ Oldest(u)
       /\ members' = (members \ {u}) \cup {t}
       /\ older' = Without(u) \cup ((members \ {u}) \X {t})
  /\ evicted' = NoValue

Remove(t) ==
  /\ members' = members \ {t}
  /\ older' = Without(t)
  /\ evicted' = NoValue

Victim(t) ==
  /\ Oldest(t)
  /\ members' = members \ {t}
  /\ older' = Without(t)
  /\ evicted' = t

NoVictim == /\ members = {}
            /\ evicted' = NoValue
            /\ UNCHANGED <<members, older>>

Next == \/ \E t \in Values : Put(t) \/ PutWhenFull(t) \/ Remove(t) \/ Victim(t)
        \/ NoVictim

Spec == Init /\ [][Next]_<<members, older, evicted>>
=============================================================================
