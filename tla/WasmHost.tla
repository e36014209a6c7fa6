------------------------------- MODULE WasmHost -------------------------------
(***************************************************************************)
(* wasm-host: one WasmModule over a host-owned backing.  The guest keeps   *)
(* nothing between calls and cannot wait, so an operation is run in        *)
(* ROUNDS: a read the host can only answer asynchronously (the injected    *)
(* store, a sibling module) pauses the round, is resolved into a memo, and *)
(* the pure guest starts over from the same stage with the answer known    *)
(* (lib.rs:12-36).  Fuel, read counts and the bytes a guest hands the host *)
(* are metered across the rounds.  At the block boundary the overlay is    *)
(* published into the backing, objects before the refs that name them.     *)
(*                                                                         *)
(* The guest is module-sdk's shell around a native module: over a store it *)
(* keeps its own StagedStore for one call and flushes it at the end.       *)
(***************************************************************************)
EXTENDS ModuleCalls

CONSTANTS
  MaxFuel,        \* DEFAULT_FUEL, one per call
  MaxStoreReads,  \* MAX_STORE_READS
  MaxSibReads,    \* MAX_SIBLING_READS (one sibling: 0 or 1 matter)
  MaxObjReads,    \* MAX_OBJECT_READS
  MaxHostBytes,   \* MAX_HOST_BYTES, in entries, for what the guest writes
  MaxMemoBytes,   \* the same ceiling for the memo
  MaxHeight,      \* bound: block heights
  MaxIntents      \* bound: messages of a block when its last execute starts

ASSUME HostAssumption ==
  /\ MaxFuel \in Nat /\ MaxStoreReads \in Nat /\ MaxSibReads \in Nat
  /\ MaxObjReads \in Nat /\ MaxHostBytes \in Nat /\ MaxMemoBytes \in Nat
  /\ MaxHeight \in Nat /\ MaxIntents \in Nat
  /\ IsFiniteSet(Key)

VARIABLES
  kind,      \* StateBacking: "map", "store" or "odb"
  committed, \* its committed state; an odb's is the refs image alone
  objects,   \* odb: published objects
  dirty,     \* odb: objects received by stage_put, not published
  stamp,     \* odb: durable_commit_height, the envelope beside the refs
  staged,    \* WasmModule.staged
  puts,      \* WasmModule.staged_objects
  env,       \* block_env's height; None between blocks
  run,       \* the call in progress: its program and what its rounds carry
  phase,     \* where the host is: "new", "open", "failed", "publish", "adopt", "broken"
  height,    \* the host's block
  intents,   \* messages of the block, in the host's queue
  answer     \* what the sibling would answer now

memory == <<staged, puts, env, run>>
backing == <<committed, objects, dirty, stamp>>
vars == <<kind, committed, objects, dirty, stamp, staged, puts, env, run,
          phase, height, intents, answer>>

(* A publication that failed is an abort already: the host has still to     *)
(* call abort_block, or dies.                                               *)
Native == INSTANCE NativeModule WITH
  task <- IF run = None THEN None ELSE run.prog,
  pending <- IF phase = "broken" THEN NoWrites ELSE IF run = None THEN staged ELSE run.staged,
  buffered <- IF phase = "broken" THEN {} ELSE (IF run = None THEN puts ELSE run.puts) \cup dirty,
  intents <- IF phase = "broken" THEN 0 ELSE intents

Memo == [states : Overlay, sib : Reply \cup {Hole}, objs : SUBSET Obj]
NoMemo == [states |-> NoWrites, sib |-> Hole, objs |-> {}]

(* A paused read, by the keys it asks the store for; a sibling's, by none.  *)
Read == [states : SUBSET Slot]

(* A call in progress, between its rounds                                   *)
CallRun == [call : {"initialize", "execute", "acknowledge", "finalize"},
            prog : UNION {Programs[k] : k \in Kind}, sealed : BOOLEAN,
            staged : Overlay, puts : SUBSET Obj, memo : Memo, fuel : 0..MaxFuel,
            read : Read \cup {None}]

ASSUME NoneAssumption ==
  /\ None \notin Nat /\ None \notin Read /\ None \notin CallRun
  /\ \A k \in Kind : None \notin Programs[k]

StateReads(m) == Cardinality({k \in Slot : m.states[k] # Hole})
SibReads(m) == IF m.sib = Hole THEN 0 ELSE 1
MemoBytes(m) == StateReads(m) + SibReads(m) + Cardinality(m.objs)

(* staged_bytes, object_bytes: what a round starts charged for              *)
HeldBytes(over, objs) == Cardinality({k \in Slot : over[k] # Hole}) + Cardinality(objs)

Init ==
  /\ kind \in Kind
  /\ committed = [k \in Slot |-> None]
  /\ objects = {} /\ dirty = {} /\ stamp = None
  /\ staged = NoWrites /\ puts = {} /\ env = None
  /\ run = None
  /\ phase = "new" /\ height = 0 /\ intents = 0 /\ answer \in Reply

------------------------------------------------------------------------------
(* One round: HostData, the imports, and the guest's own overlay.           *)

(* HostData::charge                                                         *)
Charge(d, n) ==
  IF d.bytes + n > MaxHostBytes THEN [d EXCEPT !.st = "trap"] ELSE [d EXCEPT !.bytes = @ + n]

(* state_set: charged, then staged                                          *)
StateSet(d, k, v) ==
  LET c == Charge(d, 1) IN IF c.st = "trap" THEN c ELSE [c EXCEPT !.staged[k] = v]

(* StagedStore.stage inside a store-backed guest; straight to the host else *)
Stage(d, k, v) == IF kind = "store" THEN [d EXCEPT !.inner[k] = v] ELSE StateSet(d, k, v)

(* state_get_committed: the moved-in map, or the memo, or a pause (Hole)    *)
StateGetCommitted(d, k) == IF kind = "store" THEN d.memo.states[k] ELSE committed[k]

(* StagedStore.get over state_get: inner overlay, staged, committed         *)
StateGet(d, k) ==
  IF d.inner[k] # Hole THEN d.inner[k]
  ELSE IF d.staged[k] # Hole THEN d.staged[k] ELSE StateGetCommitted(d, k)

Pause(d, read) == [d EXCEPT !.st = "pause", !.read = read]
StageRead(d, from, v, to) ==
  IF v = Hole THEN Pause(d, [states |-> {from}]) ELSE Stage(d, to, v)

(* query_module: the memo; a sealed run has no resolver, its guest gives up *)
Ask(d, to) ==
  IF d.memo.sib # Hole THEN Stage(d, to, d.memo.sib)
  ELSE IF d.sealed THEN [d EXCEPT !.st = "reject"] ELSE Pause(d, [states |-> {}])

(* state_prefetch: charged per key; over budget traps before loading any    *)
Prefetch(d, keys) ==
  LET c == Charge(d, Cardinality(keys))
      missing == {k \in keys : d.memo.states[k] = Hole} IN
  IF c.st = "trap" \/ kind # "store" THEN c
  ELSE IF StateReads(d.memo) + Cardinality(missing) > MaxStoreReads THEN [c EXCEPT !.st = "trap"]
  ELSE IF missing = {} THEN c ELSE Pause(c, [states |-> missing])

(* object_put, then the new image under REFS_KEY                            *)
ObjectPut(d, o) ==
  LET c == Charge(d, 1) IN
  IF c.st = "trap" THEN c ELSE StateSet([c EXCEPT !.puts = @ \cup {o}], Refs, o)

(* object_stat: own puts, the memo, else the backing, counted and answered  *)
(* in the import; a guest that finds nothing refuses its operation          *)
Link(d, o) ==
  LET known == o \in d.puts \cup d.memo.objs
      over == Cardinality(d.memo.objs) >= MaxObjReads \/ MemoBytes(d.memo) >= MaxMemoBytes
      read == IF known THEN d ELSE [d EXCEPT !.memo.objs = @ \cup {o}] IN
  IF ~known /\ over THEN [d EXCEPT !.st = "trap"]
  ELSE IF o \in d.puts \cup objects THEN StateSet(read, Refs, o)
  ELSE [read EXCEPT !.st = "reject"]

OutOfFuel(d) == d.fuel = 0

(* One call of the guest: a unit of fuel, then the import.                  *)
Call(d, c) ==
  IF d.st # "run" THEN d
  ELSE IF OutOfFuel(d) THEN [d EXCEPT !.st = "trap"]
  ELSE LET e == [d EXCEPT !.fuel = @ - 1] IN
    CASE c.op = "put" -> Stage(e, c.to, c.val)
      [] c.op = "copy" -> StageRead(e, c.from, StateGet(e, c.from), c.to)
      [] c.op = "frozen" -> StageRead(e, c.from, StateGetCommitted(e, c.from), c.to)
      [] c.op = "ask" -> Ask(e, c.to)
      [] c.op = "prefetch" -> Prefetch(e, c.keys)
      [] c.op = "emit" -> [Charge(e, 1) EXCEPT !.sent = @ + 1]
      [] c.op = "put_object" -> ObjectPut(e, c.obj)
      [] c.op = "link" -> Link(e, c.obj)
      [] c.op = "reject" -> [e EXCEPT !.st = "reject"]

(* flush_operation: the guest's commit_batch, one state_set per write       *)
Merge(staging, inner) == [k \in Slot |-> IF inner[k] # Hole THEN inner[k] ELSE staging[k]]

Flush(d) ==
  LET c == Charge(d, Cardinality({k \in Slot : d.inner[k] # Hole})) IN
  IF d.st # "run" \/ kind # "store" THEN d
  ELSE IF c.st = "trap" THEN c ELSE [c EXCEPT !.staged = Merge(@, d.inner)]

StartBytesZero(r) == 0   \* mutant: meters the call, not the block
StartBytes(r) == HeldBytes(r.staged, r.puts)

StartAfresh(r) ==   \* mutant: a replay forgets what the call has spent and read
  [staged |-> r.staged, puts |-> r.puts, inner |-> NoWrites, memo |-> NoMemo,
   fuel |-> MaxFuel, bytes |-> StartBytes(r), sent |-> 0,
   sealed |-> r.sealed, st |-> "run", read |-> None]
StartOf(r) ==
  [staged |-> r.staged, puts |-> r.puts, inner |-> NoWrites, memo |-> r.memo,
   fuel |-> r.fuel, bytes |-> StartBytes(r), sent |-> 0,
   sealed |-> r.sealed, st |-> "run", read |-> None]

RoundFrom(r) ==
  LET after[i \in 0..Len(r.prog)] == IF i = 0 THEN StartOf(r) ELSE Call(after[i - 1], r.prog[i])
  IN Flush(after[Len(r.prog)])

------------------------------------------------------------------------------
(* Calls that carry a Ctx; the two lifecycle calls carry none (lifecycle_env) *)
Dispatched == {"execute", "acknowledge"}

BlockEnvExecute(call) ==   \* mutant: an acknowledge takes the lifecycle's envelope
  IF call = "execute" THEN height ELSE IF env = None THEN 0 ELSE env
BlockEnv(call) ==
  IF call \in Dispatched THEN height ELSE IF env = None THEN 0 ELSE env

(* run_mutation: the stage is TAKEN, every round starts from that copy.     *)
Start(call, prog) ==
  /\ run = None
  /\ env' = BlockEnv(call)
  /\ run' = [call |-> call, prog |-> prog, sealed |-> call \notin Dispatched,
             staged |-> staged, puts |-> puts, memo |-> NoMemo, fuel |-> MaxFuel,
             read |-> None]
  /\ staged' = NoWrites /\ puts' = {}
  /\ UNCHANGED <<kind, backing, phase, height, intents, answer>>

Execute(call, prog) ==
  /\ phase = "open" /\ height <= MaxHeight /\ intents <= MaxIntents
  /\ call \in Dispatched
  /\ Start(call, prog)
Initialize(prog) == phase = "new" /\ Start("initialize", prog)
Finalize(prog) == phase = "open" /\ env # None /\ Start("finalize", prog)

(* Every way a call ends without success gives the stage back as it was.    *)
RestoreNothing == UNCHANGED <<staged, puts>> /\ run' = None   \* mutant: the taken stage is lost
Restore == staged' = run.staged /\ puts' = run.puts /\ run' = None
Refuse ==
  /\ Restore
  /\ phase' = IF phase = "new" THEN "new" ELSE "failed"
  /\ UNCHANGED <<kind, backing, env, height, intents, answer>>

(* A guest round; a clean one keeps its stage and hands over its intents    *)
(* (only an execute may have any), a lifecycle call goes on to publish.     *)
Round ==
  /\ run # None /\ run.read = None
  /\ \E d \in {RoundFrom(run)} :
     \/ /\ d.st = "pause"
        /\ run' = [run EXCEPT !.memo = d.memo, !.fuel = d.fuel, !.read = d.read]
        /\ UNCHANGED <<kind, backing, staged, puts, env, phase, height, intents, answer>>
     \/ /\ \/ d.st \in {"trap", "reject"}
           \/ d.st = "run" /\ d.sent > 0 /\ run.call # "execute"
        /\ Refuse
     \/ /\ d.st = "run" /\ (d.sent > 0 => run.call = "execute")
        /\ staged' = d.staged /\ puts' = d.puts /\ run' = None
        /\ intents' = intents + d.sent
        /\ phase' = IF run.call \in Dispatched THEN phase ELSE "publish"
        /\ UNCHANGED <<kind, backing, env, height, answer>>

Answered(m, read) ==
  IF read.states = {} THEN [m EXCEPT !.sib = answer]
  ELSE [m EXCEPT !.states = [k \in Slot |-> IF k \in read.states THEN committed[k] ELSE @[k]]]

(* Between rounds: the paused read is answered into the memo, or refused.   *)
Resolve ==
  /\ run # None /\ run.read # None
  /\ LET m == Answered(run.memo, run.read) IN
     IF MemoBytes(m) > MaxMemoBytes \/ StateReads(m) > MaxStoreReads \/ SibReads(m) > MaxSibReads
     THEN Refuse
     ELSE /\ run' = [run EXCEPT !.memo = m, !.read = None]
          /\ UNCHANGED <<kind, backing, staged, puts, env, phase, height, intents, answer>>

(* the store or the sibling query fails                                     *)
ResolveError == run # None /\ run.read # None /\ Refuse

------------------------------------------------------------------------------
(* publish_state.  Map and Store: one batch, which a store may refuse.      *)
Opened == phase' = "open" /\ height' = height + 1 /\ intents' = 0

PublishBatch ==
  /\ phase = "publish" /\ kind # "odb"
  /\ env' = None
  /\ committed' = [k \in Slot |-> IF staged[k] # Hole THEN staged[k] ELSE committed[k]]
  /\ staged' = NoWrites /\ Opened
  /\ UNCHANGED <<kind, objects, dirty, stamp, puts, run, answer>>

PublishFails ==
  /\ \/ phase = "publish" /\ kind = "store"
     \/ phase = "adopt"
  /\ env' = None /\ phase' = "broken"
  /\ staged' = IF phase = "adopt" THEN [staged EXCEPT ![Refs] = Hole] ELSE staged
  /\ UNCHANGED <<kind, backing, puts, run, height, intents, answer>>

FlushedEarlier == dirty   \* mutant: publishes without this block's objects
Flushed == dirty \cup puts

(* Odb: the env and the objects are taken, then publish_block ...           *)
PublishBlock(ok) ==
  /\ phase = "publish" /\ kind = "odb"
  /\ puts' = {}
  /\ IF ok THEN /\ objects' = objects \cup Flushed
                /\ dirty' = {} /\ phase' = "adopt" /\ UNCHANGED env
           ELSE /\ dirty' = dirty \cup puts
                /\ \E part \in SUBSET dirty' : objects' = objects \cup part
                /\ phase' = "broken" /\ env' = None
  /\ UNCHANGED <<kind, committed, stamp, staged, run, height, intents, answer>>

(* ... and the refs image last, with the height the block ran at.           *)
AdoptRefs ==
  /\ phase = "adopt"
  /\ IF staged[Refs] = Hole THEN UNCHANGED <<committed, stamp>>
     ELSE committed' = [committed EXCEPT ![Refs] = staged[Refs]] /\ stamp' = env
  /\ staged' = NoWrites /\ env' = None /\ Opened
  /\ UNCHANGED <<kind, objects, dirty, puts, run, answer>>

(* abort_block, after a refused call or a commit that failed; the host may  *)
(* also give up a healthy block (another module's operation failed)         *)
AbortBlock ==
  /\ run = None /\ phase \in {"open", "failed", "broken"}
  /\ staged' = NoWrites /\ puts' = {} /\ env' = None /\ dirty' = {}
  /\ phase' = "open" /\ intents' = 0
  /\ UNCHANGED <<kind, committed, objects, stamp, run, height, answer>>

(* The process dies: what is in memory goes, the backing's disk stays.  A   *)
(* map is put back from the host's checkpoint, which is not modelled.       *)
Crash ==
  /\ kind # "map" /\ phase # "new"
  /\ staged' = NoWrites /\ puts' = {} /\ env' = None /\ dirty' = {} /\ run' = None
  /\ phase' = "open" /\ intents' = 0
  /\ UNCHANGED <<kind, committed, objects, stamp, height, answer>>

(* Between blocks: a code swap over the same backing (prepare_swap)         *)
Swap ==
  /\ run = None /\ phase = "open" /\ env = None
  /\ staged' = NoWrites /\ puts' = {} /\ env' = None
  /\ UNCHANGED <<kind, backing, run, phase, height, intents, answer>>

(* Another module's operation: only between this module's calls (execute    *)
(* is awaited inline by the host's dispatch loop)                           *)
Sibling ==
  /\ run = None
  /\ answer' \in Reply
  /\ UNCHANGED <<kind, backing, memory, phase, height, intents>>

Next ==
  \/ \E prog \in Programs[kind] :
       \/ \E call \in Dispatched : Execute(call, prog)
       \/ Initialize(prog) \/ Finalize(prog)
  \/ Round \/ Resolve \/ ResolveError
  \/ PublishBatch \/ PublishFails \/ AdoptRefs
  \/ \E ok \in BOOLEAN : PublishBlock(ok)
  \/ AbortBlock \/ Crash \/ Swap \/ Sibling

(* The driver is an inline loop over rounds, and the reads it awaits are     *)
(* the node's own: sdk lib.rs:729-731 admits only deterministic resources.   *)
Fairness == WF_vars(Round) /\ WF_vars(Resolve)

Spec == Init /\ [][Next]_vars /\ Fairness

------------------------------------------------------------------------------
(* Properties *)

(* Every variable keeps to the values the host can hold.                    *)
TypeOK ==
  /\ kind \in Kind /\ answer \in Reply
  /\ committed \in [Slot -> Datum]
  /\ objects \subseteq Obj /\ dirty \subseteq Obj
  /\ stamp \in Nat \cup {None} /\ env \in Nat \cup {None}
  /\ staged \in Overlay /\ puts \subseteq Obj
  /\ phase \in {"new", "open", "failed", "publish", "adopt", "broken"}
  /\ height \in Nat /\ intents \in Nat
  /\ run \in CallRun \cup {None}

(* Whatever was published, refused, aborted or lost with the process, the   *)
(* committed refs image only names objects the backing can serve, so a      *)
(* joiner, a query of a committed-only tenant or the next block never meets *)
(* a dangling name (lib.rs:1830-1838: objects first, refs last).            *)
RefsReadable == committed[Refs] \in objects \cup {None}

(* The bytes a guest hands the host bound the BLOCK, not one call: what the *)
(* overlay and the object accumulator hold never exceeds the ceiling        *)
(* (lib.rs:245-260), whichever calls, rounds and refusals led there.        *)
BlockBytesBounded ==
  HeldBytes(IF run = None THEN staged ELSE run.staged,
            IF run = None THEN puts ELSE run.puts) <= MaxHostBytes

(* The refs image moves together with the height of the block that ran, and *)
(* never without it: recovery accepts a disk ahead of the journal only at   *)
(* exactly that height (sdk lib.rs:833-847).                                *)
HeightNamesRefs == [][committed'[Refs] # committed[Refs] => stamp' = height]_vars

(* Rounds, memo, budgets and the publication order implement the module the *)
(* sdk promises: each accepted call has the effect of running the logic     *)
(* once, a block lands whole or not at all.                                 *)
ImplementsNative == Native!Spec

(* No call replays for ever: every one ends, accepted or refused.           *)
CallEnds == run # None ~> run = None
==============================================================================
