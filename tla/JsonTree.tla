------------------------------ MODULE JsonTree ------------------------------
(***************************************************************************)
(* What pson::Value promises (src/json/json_value.hpp): variables that     *)
(* hold JSON values, each for itself.  A value is [type, val], and val of  *)
(* an array or object is the function of its elements or members.  A place *)
(* is a variable, or a key in one: <<x>>, <<x, k>>.                        *)
(***************************************************************************)
EXTENDS SequencesExt, TLC

CONSTANTS Vars, Names, Numbers, Texts, NoText

VARIABLE tree  \* the value of each variable

Null == [type |-> "NULL", val |-> 0]
Containers == {"ARRAY", "OBJECT"}
Empty(type) == [type |-> type, val |-> <<>>]

At(T, p) == IF Len(p) = 1 THEN T[p[1]] ELSE T[p[1]].val[p[2]]
With(T, p, v) == [T EXCEPT ![p[1]] = IF Len(p) = 1 THEN v ELSE [@ EXCEPT !.val[p[2]] = v]]
Keys(T, x) == IF T[x].type \in Containers THEN DOMAIN T[x].val ELSE {}
Places(T) == {<<x>> : x \in Vars} \cup UNION {{<<x, k>> : k \in Keys(T, x)} : x \in Vars}

\* Values that are written in a program.
Written == {Null, Empty("ARRAY"), Empty("OBJECT")}
             \cup Numbers \cup [type : {v.type : v \in Numbers}, val : {0}]
             \cup [type : {"STRING"}, val : Texts \cup {NoText}]

\* An argument by value: written, copied from a place, or moved out of one.
Arguments == {[T |-> tree, v |-> v] : v \in Written \cup {At(tree, q) : q \in Places(tree)}}
               \cup {[T |-> With(tree, q, Null), v |-> At(tree, q)] : q \in Places(tree)}

\* One place is not inside the other.
Apart(p, q) == ~IsPrefix(p, q) /\ ~IsPrefix(q, p)
-----------------------------------------------------------------------------
Assign(p) == \E v \in Written \cup {At(tree, q) : q \in Places(tree)} : tree' = With(tree, p, v)
Move(p, q) == Apart(p, q) /\ tree' = With(With(tree, q, Null), p, At(tree, q))
Swap(p, q) == Apart(p, q) /\ tree' = With(With(tree, q, At(tree, p)), p, At(tree, q))

Push(p) == \E a \in Arguments :
             /\ p \in Places(a.T) /\ At(a.T, p).type = "ARRAY"
             /\ tree' = With(a.T, p, [At(a.T, p) EXCEPT !.val = Append(@, a.v)])
Pop(p) == /\ At(tree, p).type = "ARRAY" /\ At(tree, p).val # <<>>
          /\ tree' = With(tree, p, [At(tree, p) EXCEPT !.val = Front(@)])

\* A name that is there keeps its value.
Insert(p, n) == \E a \in Arguments :
                  /\ p \in Places(a.T) /\ At(a.T, p).type = "OBJECT"
                  /\ tree' = With(a.T, p, [At(a.T, p) EXCEPT !.val = @ @@ (n :> a.v)])
Erase(p, n) == /\ At(tree, p).type = "OBJECT"
               /\ tree' = With(tree, p, [At(tree, p) EXCEPT !.val = [k \in DOMAIN @ \ {n} |-> @[k]]])

Init == tree = [x \in Vars |-> Null]
Next == \E p \in Places(tree) :
          \/ Assign(p) \/ Push(p) \/ Pop(p)
          \/ \E q \in Places(tree) : Move(p, q) \/ Swap(p, q)
          \/ \E n \in Names : Insert(p, n) \/ Erase(p, n)
Spec == Init /\ [][Next]_tree
=============================================================================
