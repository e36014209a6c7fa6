----------------------------- MODULE NativeModule -----------------------------
(***************************************************************************)
(* What a module promises the host, whichever way it is run: operations    *)
(* read their block's earlier writes, fold into committed state all at     *)
(* once at commit_block, and leave no trace at abort_block (sdk lib.rs     *)
(* 788-805).  This is the NATIVE module of the sdk: pure logic over a      *)
(* StagedStore (staged_store.rs), run once per operation with its reads    *)
(* answered in place.  WasmHost.tla, which runs the same logic as a        *)
(* replayed wasm guest, is shown to implement it.                          *)
(*                                                                         *)
(* The module's logic is a program of ModuleCalls.                         *)
(***************************************************************************)
EXTENDS ModuleCalls

VARIABLES
  kind,       \* the backing of this module
  committed,  \* MerkleStore: slot -> datum
  task,       \* the program of the operation being run, None between two
  pending,    \* StagedStore.pending: slot -> datum, None a delete, Hole untouched
  objects,    \* published objects
  buffered,   \* objects put by this block
  intents,    \* messages this block's operations emitted
  answer      \* what the sibling module answers a query now

vars == <<kind, task, committed, pending, objects, buffered, intents, answer>>

Init ==
  /\ kind \in Kind
  /\ committed = [k \in Slot |-> None] /\ task = None
  /\ pending = NoWrites
  /\ objects = {} /\ buffered = {}
  /\ intents = 0 /\ answer \in Reply

------------------------------------------------------------------------------
(* StagedStore::get, over any overlay; get_committed; commit's batch.       *)
Get(over, k) == IF over[k] # Hole THEN over[k] ELSE committed[k]
GetCommitted(k) == committed[k]
Merged(over) == [k \in Slot |-> Get(over, k)]

(* One call, its read answered in place.  s: the operation's overlay,       *)
(* objects and intents, and whether it is still good.                       *)
Effect(s, c) ==
  IF ~s.ok THEN s ELSE
  CASE c.op = "put" -> [s EXCEPT !.over[c.to] = c.val]
    [] c.op = "copy" -> [s EXCEPT !.over[c.to] = Get(s.over, c.from)]
    [] c.op = "frozen" -> [s EXCEPT !.over[c.to] = GetCommitted(c.from)]
    [] c.op = "ask" -> [s EXCEPT !.over[c.to] = answer]
    [] c.op = "prefetch" -> s
    [] c.op = "emit" -> [s EXCEPT !.sent = @ + 1]
    [] c.op = "put_object" -> [s EXCEPT !.over[Refs] = c.obj, !.objs = @ \cup {c.obj}]
    [] c.op = "link" -> IF c.obj \in s.objs \cup objects
                        THEN [s EXCEPT !.over[Refs] = c.obj] ELSE [s EXCEPT !.ok = FALSE]
    [] c.op = "reject" -> [s EXCEPT !.ok = FALSE]

Run(prog) ==
  LET after[i \in 0..Len(prog)] ==
        IF i = 0 THEN [over |-> pending, objs |-> buffered, sent |-> 0, ok |-> TRUE]
        ELSE Effect(after[i - 1], prog[i])
  IN after[Len(prog)]

Begin ==
  /\ task = None /\ task' \in Programs[kind]
  /\ UNCHANGED <<kind, committed, pending, objects, buffered, intents, answer>>

(* An operation that succeeds stages its writes and emits its intents ...   *)
Execute ==
  /\ task # None /\ task' = None
  /\ LET r == Run(task) IN
     /\ r.ok
     /\ pending' = r.over /\ buffered' = r.objs
     /\ intents' = intents + r.sent
  /\ UNCHANGED <<kind, committed, objects, answer>>

(* ... one that is refused leaves nothing the block could keep.             *)
Refuse ==
  /\ task # None /\ task' = None
  /\ UNCHANGED <<kind, committed, pending, objects, buffered, intents, answer>>

(* Objects may be published ahead of the refs that name them ...            *)
PublishObjects ==
  /\ \E some \in SUBSET buffered : objects' = objects \cup some /\ buffered' = buffered \ some
  /\ UNCHANGED <<kind, task, committed, pending, intents, answer>>

(* ... never behind: commit_block is one batch, with every object in place. *)
CommitBlock ==
  /\ task = None /\ buffered = {}
  /\ committed' = Merged(pending)
  /\ pending' = NoWrites /\ intents' = 0
  /\ UNCHANGED <<kind, task, objects, buffered, answer>>

(* abort_block, and a crash: the block leaves nothing in the state.  Objects *)
(* it had begun to publish may stay behind: nothing names them.             *)
AbortBlock ==
  /\ \E stay \in SUBSET buffered : objects' = objects \cup stay
  /\ task' = None /\ pending' = NoWrites /\ buffered' = {} /\ intents' = 0
  /\ UNCHANGED <<kind, committed, answer>>

(* The sibling runs its own operations between this module's.               *)
Sibling ==
  /\ task = None /\ answer' \in Reply
  /\ UNCHANGED <<kind, task, committed, pending, objects, buffered, intents>>

Next == Begin \/ Execute \/ Refuse \/ PublishObjects \/ CommitBlock \/ AbortBlock \/ Sibling

Spec == Init /\ [][Next]_vars
==============================================================================
