------------------------------ MODULE MCWasmHost ------------------------------
(* Instances of WasmHost for TLC: what a module's logic may do.  Reads of    *)
(* keys it wrote and of keys it did not, reads that depend on earlier ones,  *)
(* more reads than the budgets allow, a refusal after a write, an object     *)
(* named without being put.                                                  *)
EXTENDS WasmHost, TLC

CONSTANTS k1, k2, v, x, y, z

Do(op) == [op |-> op]
Put(k, w) == [op |-> "put", to |-> k, val |-> w]
Copy(from, to) == [op |-> "copy", from |-> from, to |-> to]
Frozen(from, to) == [op |-> "frozen", from |-> from, to |-> to]
AskInto(k) == [op |-> "ask", to |-> k]
PrefetchAll == [op |-> "prefetch", keys |-> Key]
PutObject(o) == [op |-> "put_object", obj |-> o]
LinkTo(o) == [op |-> "link", obj |-> o]

KeyPrograms ==
  { <<Put(k1, v), Copy(k1, k2)>>,
    <<Copy(k1, k2), Put(k1, None), Do("emit")>>,
    <<AskInto(k1), Frozen(k1, k2)>>,
    <<PrefetchAll, Copy(k2, k1)>>,
    <<Copy(k2, k1), Frozen(k1, k2), AskInto(k2)>>,
    <<Put(k2, v), Do("reject")>> }
ObjectPrograms ==
  { <<PutObject(x), Do("emit")>>, <<PutObject(y)>>, <<LinkTo(x)>>,
    <<LinkTo(x), LinkTo(y)>>, <<PutObject(y), LinkTo(x)>>, <<PutObject(z), LinkTo(y)>>, <<PutObject(x), Do("reject")>> }
MCPrograms == [k \in Kind |-> IF k = "odb" THEN ObjectPrograms ELSE KeyPrograms]
==============================================================================
