----------------------------- MODULE SchemaOps ------------------------------
(***************************************************************************)
(* Columns and schemas (src/catalog/column.hpp, schema.hpp): which values  *)
(* a column takes, schemas copied for the output of a SELECT, and schemas  *)
(* as JSON.  Names of columns are left out: a column is its position.      *)
(***************************************************************************)
EXTENDS Naturals, Sequences

Types == {"INT", "FLOAT", "VARCHAR", "CHAR"}
Columns == [type : Types, size : Nat]

\* The type of the values that a column has (Value's AttrType).
AttrType(type) == CASE type = "INT" -> "INTS" [] type = "FLOAT" -> "FLOATS"
                    [] type \in {"VARCHAR", "CHAR"} -> "STRING"

\* bind_insert's check: as many values as columns, each of the column's type.
Fits(vs, cols) == /\ Len(vs) = Len(cols)
                  /\ \A i \in DOMAIN vs : vs[i].type = AttrType(cols[i].type)

\* copy_schema: the columns at the positions idx.
CopySchema(cols, idx) == [i \in DOMAIN idx |-> cols[idx[i]]]

\* The JSON of a column has its type as the number of the enumerator.
Codes == [INT |-> 0, FLOAT |-> 1, VARCHAR |-> 2, CHAR |-> 3]
ToJson(cols) == [i \in DOMAIN cols |-> [type |-> Codes[cols[i].type], size |-> cols[i].size]]
FromJson(v) ==
  [i \in DOMAIN v |-> [type |-> CHOOSE t \in Types : Codes[t] = v[i].type, size |-> v[i].size]]
=============================================================================
