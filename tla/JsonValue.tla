----------------------------- MODULE JsonValue ------------------------------
(***************************************************************************)
(* pson::Value as it is (src/json/json_value.hpp): a tag and a union, in   *)
(* which strings, arrays and objects are pointers to nodes that the Value  *)
(* owns.  Variables and the nodes they own are copied, moved, swapped,     *)
(* assigned over and changed by the calls of the class, in any order.      *)
(* The elements of a vector and the members of a map are values inside     *)
(* their node.                                                             *)
(***************************************************************************)
EXTENDS SequencesExt, FiniteSets, TLC

CONSTANTS Vars, Names,
          Numbers,        \* bools and numbers: [type, val]
          Texts, NoText,  \* strings, and the empty one
          Refs, Free,     \* nodes of the heap, and a node not allocated
          Width           \* bound on the elements of a container

ASSUME JsonValueAssumption == Free \notin Texts \cup {NoText} /\ NoText \notin Texts

VARIABLES
  var,  \* each variable: [type, val], type_ and val_
  heap  \* each node: Free, the text, the sequence or the function of values
vars == <<var, heap>>

Null == [type |-> "NULL", val |-> 0]
Containers == {"ARRAY", "OBJECT"}
Owners == Containers \cup {"STRING"}
-----------------------------------------------------------------------------
\* The program's memory is the record s == [var, heap].
Memory == [var |-> var, heap |-> heap]
Become(s) == var' = s.var /\ heap' = s.heap
FreeRefs(s) == {r \in Refs : s.heap[r] = Free}

\* operator[] and at: the value at <<x>> or <<x, k>>.
At(s, p) == IF Len(p) = 1 THEN s.var[p[1]] ELSE s.heap[s.var[p[1]].val][p[2]]
Put(s, p, v) == IF Len(p) = 1 THEN [s EXCEPT !.var[p[1]] = v]
                ELSE [s EXCEPT !.heap[s.var[p[1]].val][p[2]] = v]
Keys(s, x) == IF s.var[x].type \in Containers THEN DOMAIN s.heap[s.var[x].val] ELSE {}
Places(s) == {<<x>> : x \in Vars} \cup UNION {{<<x, k>> : k \in Keys(s, x)} : x \in Vars}

\* is, as, empty and size; pop_back of an empty array and back() of one are
\* not defined.
Is(s, p, type) == At(s, p).type = type
Node(s, p) == s.heap[At(s, p).val]
Size(s, p) == IF At(s, p).type \in Containers THEN Cardinality(DOMAIN Node(s, p)) ELSE 0
Empty(s, p) == Is(s, p, "NULL") \/ Size(s, p) = 0
Apart(p, q) == ~IsPrefix(p, q) /\ ~IsPrefix(q, p)

\* new: a node of the heap, with what it holds; all free ones are alike.
New(s, type, node) ==
  LET r == CHOOSE r \in Refs : s.heap[r] = Free
  IN  [s |-> [s EXCEPT !.heap[r] = node], v |-> [type |-> type, val |-> r]]

\* The nodes a value owns, those of its elements too.
RECURSIVE Owned(_, _)
Owned(s, v) ==
  IF v.type \notin Owners THEN {}
  ELSE {v.val} \cup IF v.type = "STRING" THEN {}
                    ELSE UNION {Owned(s, s.heap[v.val][k]) : k \in DOMAIN s.heap[v.val]}
HasMemory(s, v) == Cardinality(Owned(s, v)) <= Cardinality(FreeRefs(s))

\* ~Value, and reset() but for the tag.
Destroyed(s, v) == [s EXCEPT !.heap = [r \in Refs |-> IF r \in Owned(s, v) THEN Free ELSE @[r]]]

\* init_base.
InitBase(s, type) ==
  CASE type = "STRING" -> New(s, type, NoText)
    [] type \in Containers -> New(s, type, <<>>)
    [] OTHER -> [s |-> s, v |-> [type |-> type, val |-> 0]]

\* copy_value, of v over o: the memory then, and what is stored at o.  Over a
\* value of another type only the new value is stored: what o owned stays
\* behind.  Over one of its type the node stays; a string and a map are
\* replaced, a vector with the capacity assigns element by element.
\* Mutation: the pointer is copied.
CopyPointer(s, o, v, grows) == [s |-> s, v |-> v]
Reused(v, old, new, grows) ==
  IF v.type = "ARRAY" /\ ~(grows /\ Len(new) > Len(old)) THEN DOMAIN old \cap DOMAIN new ELSE {}
RECURSIVE CopyValue(_, _, _, _)
CopyNode(s, o, v, grows) ==
  LET new == s.heap[v.val]
      old == IF o.type = v.type THEN s.heap[o.val] ELSE <<>>
      over == Reused(v, old, new, grows)
      cleared == FoldSet(LAMBDA k, t : Destroyed(t, old[k]), s, DOMAIN old \ over)
      copyOne(k, done) ==
        LET c == CopyValue(done.s, IF k \in over THEN old[k] ELSE Null, new[k], grows)
        IN  [s |-> c.s, node |-> done.node @@ (k :> c.v)]
  IN  FoldSet(copyOne, [s |-> cleared, node |-> <<>>], DOMAIN new)
CopyValue(s, o, v, grows) ==
  IF v.type \notin Owners THEN [s |-> s, v |-> v]
  ELSE LET all == IF v.type = "STRING" THEN [s |-> s, node |-> s.heap[v.val]]
                  ELSE CopyNode(s, o, v, grows)
       IN  IF o.type = v.type THEN [s |-> [all.s EXCEPT !.heap[o.val] = all.node], v |-> o]
           ELSE New(all.s, v.type, all.node)

\* The copy constructor.
Copied(s, v) == CopyValue(s, Null, v, FALSE)

\* Arguments by value: of a constructor from a number, a bool or a text,
\* copied, and moved out of a place, which is Null after it.
Literals(s) ==
  {InitBase(s, type) : type \in {v.type : v \in Numbers} \cup {"NULL"} \cup IF FreeRefs(s) = {} THEN {} ELSE Owners}
    \cup {[s |-> s, v |-> v] : v \in Numbers}
    \cup {New(s, "STRING", t) : t \in IF FreeRefs(s) = {} THEN {} ELSE Texts}
Copies(s) == {Copied(s, v) : v \in {w \in {At(s, q) : q \in Places(s)} : HasMemory(s, w)}}
Moves(s) == {[s |-> Put(s, q, Null), v |-> At(s, q)] : q \in Places(s)}
Arguments(s) == Literals(s) \cup Copies(s) \cup Moves(s)
-----------------------------------------------------------------------------
\* p = q.  A vector must not be assigned one of its elements' vectors, nor the
\* other way round.
AssignCopy(p, q, grows) ==
  LET o == At(Memory, p)
      v == At(Memory, q)
      c == CopyValue(Memory, o, v, grows)
  IN  /\ p # q /\ (Apart(p, q) \/ o.type # v.type) /\ HasMemory(Memory, v)
      /\ Become(Put(c.s, p, c.v))

\* A temporary moved into p: p = Value(n), reset_as, and the end of the life of
\* a variable that the next one takes the place of.
AssignTemporary(p) ==
  \E a \in Literals(Memory) : Become(Put(Destroyed(a.s, At(a.s, p)), p, a.v))

\* p = std::move(q): reset() and swap; of itself, p is Null then.
AssignMove(p, q) ==
  /\ Apart(p, q) \/ p = q
  /\ LET s == Put(Destroyed(Memory, At(Memory, p)), p, Null)
     IN  Become(Put(Put(s, q, Null), p, At(s, q)))
SwapValues(p, q) ==
  /\ Apart(p, q)
  /\ Become(Put(Put(Memory, q, At(Memory, p)), p, At(Memory, q)))

\* as<String>() = t.
AssignText(p, t) ==
  /\ Is(Memory, p, "STRING")
  /\ heap' = [heap EXCEPT ![At(Memory, p).val] = t]
  /\ UNCHANGED var

\* push_back and insert take their argument by value, and the containers move
\* it in.
Appended(s, p, v) == [s EXCEPT !.heap[At(s, p).val] = Append(@, v)]
PushBack(p) ==
  \E a \in Arguments(Memory) :
    /\ p \in Places(a.s)
    /\ Is(a.s, p, "ARRAY") /\ Size(a.s, p) < Width
    /\ Become(Appended(a.s, p, a.v))

PopBack(p) ==
  /\ Is(Memory, p, "ARRAY") /\ ~Empty(Memory, p)
  /\ Become([Destroyed(Memory, Last(Node(Memory, p))) EXCEPT !.heap[At(Memory, p).val] = Front(@)])

\* emplace: a name that is there keeps its value, and the argument is destroyed.
\* Mutation: the new value takes its place.
InsertOver(p, n) ==
  \E a \in Arguments(Memory) :
    /\ p \in Places(a.s)
    /\ Is(a.s, p, "OBJECT")
    /\ IF n \in DOMAIN Node(a.s, p)
       THEN Become([Destroyed(a.s, Node(a.s, p)[n]) EXCEPT !.heap[At(a.s, p).val][n] = a.v])
       ELSE Become([a.s EXCEPT !.heap[At(a.s, p).val] = @ @@ (n :> a.v)])
Emplaced(s, p, n, v) ==
  IF n \in DOMAIN Node(s, p) THEN Destroyed(s, v)
  ELSE [s EXCEPT !.heap[At(s, p).val] = @ @@ (n :> v)]
Insert(p, n) ==
  \E a \in Arguments(Memory) :
    /\ p \in Places(a.s)
    /\ Is(a.s, p, "OBJECT")
    /\ Become(Emplaced(a.s, p, n, a.v))

Erased(s, p, n) ==
  [Destroyed(s, Node(s, p)[n]) EXCEPT !.heap[At(s, p).val] = [k \in DOMAIN @ \ {n} |-> @[k]]]
Erase(p, n) ==
  /\ Is(Memory, p, "OBJECT") /\ n \in DOMAIN Node(Memory, p)
  /\ Become(Erased(Memory, p, n))

Init == /\ var = [x \in Vars |-> Null]
        /\ heap = [r \in Refs |-> Free]

Next == \E p \in Places(Memory) :
          \/ AssignTemporary(p) \/ PushBack(p) \/ PopBack(p)
          \/ \E t \in Texts : AssignText(p, t)
          \/ \E n \in Names : Insert(p, n) \/ Erase(p, n)
          \/ \E q \in Places(Memory) : \/ \E grows \in BOOLEAN : AssignCopy(p, q, grows)
                                       \/ AssignMove(p, q) \/ SwapValues(p, q)
Spec == Init /\ [][Next]_vars
-----------------------------------------------------------------------------
ContainerNodes == {r \in Refs : heap[r] \notin Texts \cup {NoText, Free}}

\* The values that point at node r: variables, and elements and members of
\* nodes, by where they are.
Holders(r) ==
  LET holds(v) == v.type \in Owners /\ v.val = r
  IN  {<<x>> : x \in {y \in Vars : holds(var[y])}}
        \cup UNION {{<<n, k>> : k \in {j \in DOMAIN heap[n] : holds(heap[n][j])}} : n \in ContainerNodes}

\* No node is deleted twice or used after it is deleted: a node has one owner
\* at most, and one that is owned is allocated (~Value, json_value.hpp:519).
OwnedOnce ==
  \A r \in Refs : Cardinality(Holders(r)) <= IF heap[r] = Free THEN 0 ELSE 1

\* No node is lost: each has an owner.
NothingLost == \A r \in Refs : heap[r] # Free => Holders(r) # {}

\* A Value is a value: what is done to one shows in no other, whatever nodes
\* they were copied, moved or swapped from.
RECURSIVE TreeOf(_)
TreeOf(v) ==
  IF v.type \notin Owners THEN v
  ELSE LET node == heap[v.val]
       IN  [type |-> v.type,
            val |-> IF v.type = "STRING" THEN node
                    ELSE FoldSet(LAMBDA k, all : all @@ (k :> TreeOf(node[k])), <<>>, DOMAIN node)]
Trees == INSTANCE JsonTree WITH tree <- [x \in Vars |-> TreeOf(var[x])]
ImplementsTrees == Trees!Spec
=============================================================================
