------------------------------- MODULE LruOps -------------------------------
(***************************************************************************)
(* What LruReplacer's operations do to the sequence of values it holds,    *)
(* most recently put first.  This is the view the buffer pool has of its   *)
(* replacer; LruReplacer.tla keeps the list nodes and the iterators and    *)
(* shows that they compute exactly these operators.                        *)
(***************************************************************************)
EXTENDS Integers, SequencesExt

\* The list without its element t: lru_list_.erase(iter->second).
LruErase(l, t) == RemoveAt(l, CHOOSE i \in DOMAIN l : l[i] = t)

\* remove(t): nothing happens when t is not in the replacer.
LruRemove(l, t) == IF t \in ToSet(l) THEN LruErase(l, t) ELSE l

\* put(t): t becomes the front; a new t in a full replacer drops the back.
LruPut(l, t, capacity) ==
  <<t>> \o ( IF t \in ToSet(l) THEN LruErase(l, t)
             ELSE IF Len(l) = capacity THEN Front(l)
             ELSE l )

\* victim(t): the value returned, and the list it leaves (list not empty).
LruVictim(l) == Last(l)
LruAfterVictim(l) == Front(l)
=============================================================================
