---------------------------- MODULE JobDataProofs ----------------------------
(***************************************************************************)
(* Theorems about JobData: types, that the children of a job are given     *)
(* outputs of one of its runs, and what reaches the containers, for every  *)
(* number of children, runs and reads, all templates, images and outputs.  *)
(*                                                                         *)
(* The outputs in the parent's row may change at any time.  What does not  *)
(* change is what the handler was called with (given): IInv says that it   *)
(* is of one run, that the rows of the children are made from it and       *)
(* nothing else, that none is made before it is known, and that it has     *)
(* what lasted in the row, if that can be read at all.  An environment     *)
(* is a fold over the inputs; what it holds at the end is proved by        *)
(* induction on their number, as the absence of a least counterexample.    *)
(***************************************************************************)
EXTENDS JobData, FiniteSetTheorems, FunctionTheorems, TLAPS

-----------------------------------------------------------------------------
(* Resolving inputs.                                                       *)

\* A resolved input that is an output is one of the outputs given.
LEMMA ResolvedOutputs ==
    ASSUME NEW mapping, NEW from, NEW i \in DOMAIN ResolveInputs(mapping, from),
           ResolveInputs(mapping, from)[i].from = "output"
    PROVE  /\ from # None
           /\ \E key \in DOMAIN from : ResolveInputs(mapping, from)[i] = from[key]
<1> DEFINE v == ResolveInputs(mapping, from)[i]
<1>1. i \in DOMAIN mapping /\ Lookup(mapping[i], from) # {}
  BY DEF ResolveInputs
<1>2. v = CHOOSE w \in Lookup(mapping[i], from) : TRUE
  BY <1>1 DEF ResolveInputs
<1>3. v \in Lookup(mapping[i], from)
  BY <1>1, <1>2
<1>4. \A key : Value("payload", key, 0).from # "output" /\ Value("constant", key, 0).from # "output"
  BY DEF Value
<1>5. mapping[i].source = "parent" /\ from # None /\ mapping[i].key \in DOMAIN from
      /\ v = from[mapping[i].key]
  <2>1. CASE mapping[i].source = "parent" /\ from # None /\ mapping[i].key \in DOMAIN from
    <3>1. Lookup(mapping[i], from) = {from[mapping[i].key]}
      BY <2>1 DEF Lookup
    <3> QED  BY <1>3, <2>1, <3>1
  <2>2. CASE ~(mapping[i].source = "parent" /\ from # None /\ mapping[i].key \in DOMAIN from)
    <3>1. \/ v = Value("payload", mapping[i].key, 0)
          \/ v = Value("constant", mapping[i].key, 0)
      BY <1>3, <2>2 DEF Lookup
    <3> QED  BY <1>4, <3>1
  <2> QED  BY <2>1, <2>2
<1> QED  BY <1>5

\* Resolved inputs are named as in the node's mapping.
LEMMA ResolvedNames ==
    ASSUME NEW node, NEW from
    PROVE  DOMAIN ResolveInputs(InputMapping(node), from) \subseteq DOMAIN node.mapping
BY DEF ResolveInputs, InputMapping

-----------------------------------------------------------------------------
(* Laying inputs over an environment.                                      *)

\* A non-empty set of numbers has a least: what the inductions below rest on.
LEMMA LeastNumber ==
    ASSUME NEW T \in SUBSET Nat, T # {}
    PROVE  \E n \in T : \A m \in T : n <= m
<1>1. PICK n \in T : \A m \in T : <<m, n>> \notin OpToRel(<, Nat)
  BY NatLessThanWellFounded, WFMin
<1>2. \A m \in T : ~(m < n)
  BY <1>1 DEF OpToRel
<1> HIDE <1>1
<1> QED  BY <1>2

\* The environment that the k-th input of an order adds.
OneInput(inputs, order, k) == [n \in {Upper[order[k]]} |-> inputs[order[k]]]

\* env holds the environments before and after each of the first m inputs.
Laid(env, base, inputs, order, m) ==
    env = [k \in 0..m |-> IF k = 0 THEN base
                          ELSE Extend(env[k - 1], OneInput(inputs, order, k))]

\* There are such environments: by induction on the number of inputs.
LEMMA LaidExists ==
    ASSUME NEW base, NEW inputs, NEW order, NEW m \in Nat
    PROVE  \E env : Laid(env, base, inputs, order, m)
<1> DEFINE T == {k \in Nat : ~\E env : Laid(env, base, inputs, order, k)}
<1> SUFFICES ASSUME T # {}  PROVE FALSE
  OBVIOUS
<1>1. PICK k \in T : \A j \in T : k <= j
  BY LeastNumber
<1>2. k # 0
  <2> DEFINE env == [i \in 0..0 |-> base]
  <2>1. Laid(env, base, inputs, order, 0)
    BY DEF Laid
  <2> QED  BY <2>1
<1>3. k - 1 \in Nat /\ k - 1 \notin T
  BY <1>1, <1>2
<1>4. PICK e : Laid(e, base, inputs, order, k - 1)
  BY <1>3
<1> DEFINE Next1(f, i) == IF i = 0 THEN base ELSE Extend(f[i - 1], OneInput(inputs, order, i))
           env == [i \in 0..k |-> IF i = k THEN Extend(e[k - 1], OneInput(inputs, order, k)) ELSE e[i]]
<1>5. \A i \in 0..(k - 1) : e[i] = Next1(e, i)
  BY <1>4 DEF Laid
<1>6. \A i \in 0..k : env[i] = Next1(env, i)
  <2> SUFFICES ASSUME NEW i \in 0..k  PROVE env[i] = Next1(env, i)
    OBVIOUS
  <2>1. CASE i = k
    <3>1. env[i - 1] = e[i - 1]
      BY <1>2, <2>1
    <3> QED  BY <1>2, <2>1, <3>1
  <2>2. CASE i # k /\ i # 0
    <3>1. i \in 0..(k - 1) /\ i - 1 \in 0..k /\ i - 1 # k
      BY <2>2
    <3>2. env[i] = e[i] /\ env[i - 1] = e[i - 1]
      BY <3>1
    <3> QED  BY <1>5, <2>2, <3>1, <3>2
  <2>3. CASE i # k /\ i = 0
    <3>1. 0 \in 0..k /\ 0 # k /\ 0 \in 0..(k - 1)
      BY <1>2
    <3>2. env[0] = e[0] /\ e[0] = base
      BY <1>5, <3>1
    <3> QED  BY <2>3, <3>2
  <2> QED  BY <2>1, <2>2, <2>3
<1>7. Laid(env, base, inputs, order, k)
  <2>1. env = [i \in 0..k |-> env[i]]
    OBVIOUS
  <2> HIDE DEF env
  <2> QED  BY <1>6, <2>1 DEF Laid
<1> QED  BY <1>7

\* The last of them is what Overlay stands for.
LEMMA OverlayIsLaid ==
    ASSUME NEW base, NEW inputs, NEW order, Len(order) \in Nat
    PROVE  \E env : /\ Laid(env, base, inputs, order, Len(order))
                    /\ Overlay(base, inputs, order) = env[Len(order)]
<1> DEFINE env ==
        CHOOSE e : e = [k \in 0..Len(order) |->
                           IF k = 0 THEN base
                           ELSE Extend(e[k - 1], [n \in {Upper[order[k]]} |-> inputs[order[k]]])]
<1>1. \E e : Laid(e, base, inputs, order, Len(order))
  BY LaidExists
<1>2. Laid(env, base, inputs, order, Len(order))
  BY <1>1 DEF Laid, OneInput
<1>3. Overlay(base, inputs, order) = env[Len(order)]
  BY DEF Overlay
<1> QED  BY <1>2, <1>3

\* The names an environment has after k inputs, and where the value of each is
\* from: one of these inputs, or else what it was laid over.
After(env, base, inputs, order, k) ==
    /\ DOMAIN env = DOMAIN base \cup {Upper[order[i]] : i \in 1..k}
    /\ \A n \in DOMAIN env :
           \/ \E i \in 1..k : Upper[order[i]] = n /\ env[n] = inputs[order[i]]
           \/ (\A i \in 1..k : Upper[order[i]] # n) /\ n \in DOMAIN base /\ env[n] = base[n]

\* One input more.
LEMMA AfterOne ==
    ASSUME NEW env, NEW base, NEW inputs, NEW order, NEW k \in Nat, k # 0,
           After(env, base, inputs, order, k - 1)
    PROVE  After(Extend(env, OneInput(inputs, order, k)), base, inputs, order, k)
<1> DEFINE next == Extend(env, OneInput(inputs, order, k))
           new == Upper[order[k]]
<1>1. DOMAIN OneInput(inputs, order, k) = {new} /\ OneInput(inputs, order, k)[new] = inputs[order[k]]
  BY DEF OneInput
<1>2. /\ DOMAIN next = DOMAIN env \cup {new}
      /\ next[new] = inputs[order[k]]
      /\ \A n \in DOMAIN env \ {new} : next[n] = env[n]
  BY <1>1 DEF Extend
<1>3. 1..k = (1..(k - 1)) \cup {k}
  OBVIOUS
<1> HIDE DEF next
<1>4. DOMAIN next = DOMAIN base \cup {Upper[order[i]] : i \in 1..k}
  BY <1>2, <1>3 DEF After
<1>5. ASSUME NEW n \in DOMAIN next
      PROVE  \/ \E i \in 1..k : Upper[order[i]] = n /\ next[n] = inputs[order[i]]
             \/ (\A i \in 1..k : Upper[order[i]] # n) /\ n \in DOMAIN base /\ next[n] = base[n]
  <2>1. CASE n = new
    BY <1>2, <1>3, <2>1
  <2>2. CASE n # new
    BY <1>2, <1>3, <2>2 DEF After
  <2> QED  BY <2>1, <2>2
<1>6. After(next, base, inputs, order, k)
  BY <1>4, <1>5 DEF After
<1> QED  BY <1>6 DEF next

\* After all of them: by induction on their number.
LEMMA AfterAll ==
    ASSUME NEW env, NEW base, NEW inputs, NEW order, NEW m \in Nat,
           Laid(env, base, inputs, order, m)
    PROVE  After(env[m], base, inputs, order, m)
<1> DEFINE T == {k \in 0..m : ~After(env[k], base, inputs, order, k)}
<1> SUFFICES ASSUME T # {}  PROVE FALSE
  OBVIOUS
<1>t. T \in SUBSET Nat
  OBVIOUS
<1>1. PICK k \in T : \A j \in T : k <= j
  BY <1>t, LeastNumber
<1>2. \A i \in 0..m : env[i] = IF i = 0 THEN base
                               ELSE Extend(env[i - 1], OneInput(inputs, order, i))
  BY DEF Laid
<1>3. k # 0
  <2>1. env[0] = base
    BY <1>2
  <2>2. After(base, base, inputs, order, 0)
    BY DEF After
  <2> QED  BY <2>1, <2>2
<1>4. k - 1 \in 0..m /\ k - 1 \notin T
  BY <1>1, <1>3
<1>5. After(env[k - 1], base, inputs, order, k - 1)
  BY <1>4
<1>6. env[k] = Extend(env[k - 1], OneInput(inputs, order, k))
  BY <1>2, <1>3
<1>7. After(env[k], base, inputs, order, k)
  BY <1>3, <1>5, <1>6, AfterOne
<1> QED  BY <1>7

\* An order of a finite set names each of its elements.
LEMMA OrderIsOnto ==
    ASSUME NEW S, IsFiniteSet(S), NEW order \in SetToSeqs(S)
    PROVE  /\ Len(order) = Cardinality(S) /\ Len(order) \in Nat
           /\ S = {order[k] : k \in 1..Len(order)}
<1>1. Cardinality(S) \in Nat
  BY FS_CardinalityType
<1>2. /\ order \in [1..Cardinality(S) -> S]
      /\ \A i, j \in 1..Cardinality(S) : i # j => order[i] # order[j]
  BY DEF SetToSeqs
<1>3. Len(order) = Cardinality(S)
  BY <1>1, <1>2
<1>4. order \in Injection(1..Cardinality(S), S)
  BY <1>2, Fun_IsInj
<1>5. Cardinality(1..Cardinality(S)) = Cardinality(S)
  BY <1>1, FS_Interval
<1>6. order \in Surjection(1..Cardinality(S), S)
  BY <1>4, <1>5, FS_Injection
<1>7. \A x \in S : \E k \in 1..Cardinality(S) : order[k] = x
  BY <1>6 DEF Surjection
<1> QED  BY <1>1, <1>2, <1>3, <1>7

\* env has the names of base and of the inputs, an input's value where there is an
\* input, and else the value of base.
LaidOver(env, base, inputs) ==
    /\ DOMAIN env = DOMAIN base \cup {Upper[i] : i \in DOMAIN inputs}
    /\ \A n \in DOMAIN env :
           IF Named(inputs, n) # {} THEN env[n] \in Named(inputs, n)
           ELSE n \in DOMAIN base /\ env[n] = base[n]

\* So it is in whatever order finitely many inputs are laid over an environment.
LEMMA OverlayFacts ==
    ASSUME NEW base, NEW inputs, IsFiniteSet(DOMAIN inputs),
           NEW order \in SetToSeqs(DOMAIN inputs)
    PROVE  LaidOver(Overlay(base, inputs, order), base, inputs)
<1> SUFFICES ASSUME NEW env, env = Overlay(base, inputs, order)
             PROVE  LaidOver(env, base, inputs)
  OBVIOUS
<1> DEFINE m == Len(order)
<1>1. m \in Nat /\ DOMAIN inputs = {order[k] : k \in 1..m}
  BY OrderIsOnto
<1>2. PICK e : Laid(e, base, inputs, order, m) /\ env = e[m]
  BY <1>1, OverlayIsLaid
<1>3. After(env, base, inputs, order, m)
  BY <1>1, <1>2, AfterAll
<1> HIDE DEF m
<1>4. DOMAIN env = DOMAIN base \cup {Upper[i] : i \in DOMAIN inputs}
  BY <1>1, <1>3 DEF After
<1>5. ASSUME NEW n \in DOMAIN env
      PROVE  IF Named(inputs, n) # {} THEN env[n] \in Named(inputs, n)
             ELSE n \in DOMAIN base /\ env[n] = base[n]
  <2>1. CASE \E i \in 1..m : Upper[order[i]] = n /\ env[n] = inputs[order[i]]
    <3>1. env[n] \in Named(inputs, n)
      BY <1>1, <2>1 DEF Named
    <3> QED  BY <3>1
  <2>2. CASE (\A i \in 1..m : Upper[order[i]] # n) /\ n \in DOMAIN base /\ env[n] = base[n]
    <3>1. Named(inputs, n) = {}
      BY <1>1, <2>2 DEF Named
    <3> QED  BY <2>2, <3>1
  <2> QED  BY <1>3, <2>1, <2>2 DEF After
<1> QED  BY <1>4, <1>5 DEF LaidOver

-----------------------------------------------------------------------------
(* What the sidecars send.                                                 *)

\* Each value says of which output and of which run it is.
LEMMA PostFacts ==
    ASSUME NEW runs, NEW p \in Posts(runs)
    PROVE  /\ p.run \in runs /\ DOMAIN p.data \in Outs
           /\ \A key \in DOMAIN p.data : p.data[key] = Value("output", key, p.run)
<1>1. PICK k \in runs, keys \in Outs : p = [run |-> k, data |-> Object("output", keys, k)]
  BY DEF Posts
<1>2. p.run = k /\ p.data = Object("output", keys, k)
  BY <1>1
<1> QED  BY <1>2 DEF Object

\* Later runs add to what may be sent; and NULL is none of it.
LEMMA MorePosts == ASSUME NEW m \in Nat, NEW n \in Nat, m <= n
                   PROVE  Posts(1..m) \subseteq Posts(1..n)
BY DEF Posts

LEMMA SomePosts == ASSUME TypeOK
                   PROVE  \A p \in Posts(1..run) : p # None /\ p.data # None
<1>1. run \in Nat /\ MaxRuns \in Nat /\ run <= MaxRuns
  BY JobDataAssumption DEF TypeOK
<1> QED  BY <1>1, MorePosts, JobDataAssumption DEF Runs

\* What the handler was given are outputs of one run.
LEMMA GivenFacts ==
    ASSUME TypeOK, given # None
    PROVE  \E k \in Runs : \A key \in DOMAIN given : given[key] = Value("output", key, k)
<1>1. PICK p \in Posts(1..run) : given = p.data
  BY DEF TypeOK
<1>2. p.run \in 1..run /\ \A key \in DOMAIN given : given[key] = Value("output", key, p.run)
  BY <1>1, PostFacts
<1>3. p.run \in Runs
  BY <1>2, JobDataAssumption DEF TypeOK, Runs
<1> QED  BY <1>2, <1>3

-----------------------------------------------------------------------------
(* The invariant.                                                          *)

LEMMA InitInvariant == Init => IInv
<1> SUFFICES ASSUME Init  PROVE IInv
  OBVIOUS
<1>1. TypeOK
  <2>1. run \in 0..MaxRuns /\ polls \in 0..Polls /\ decoded \subseteq JsonColumns
    BY JobDataAssumption DEF Init
  <2>2. posts \subseteq Posts(1..run)
    BY DEF Init
  <2>3. \A c \in Nodes : rows[c] = None /\ node_inputs[c] = None /\ containers[c] = None
    BY DEF Init
  <2> QED  BY <2>1, <2>2, <2>3 DEF Init, TypeOK
<1>2. DomainInv
  BY DEF Init, DomainInv
<1>3. OrderInv /\ LastingInv /\ RowInv
  BY DEF Init, OrderInv, LastingInv, RowInv, Unqueued, Unmarked
<1>4. ContainerInv
  BY DEF Init, ContainerInv, EnvPrecedence
<1> QED  BY <1>1, <1>2, <1>3, <1>4 DEF IInv

\* A container stays as it was made, and so does the row it was made from.
LEMMA ContainersKept ==
    ASSUME ContainerInv, UNCHANGED <<containers, decoded>>,
           \A c \in Nodes : rows[c] # None => rows'[c] = rows[c]
    PROVE  ContainerInv'
BY DEF ContainerInv, EnvPrecedence, Unqueued, JobEnv, JobInputs, Column

\* A step that neither touches the children nor finds outputs, and keeps what the
\* sidecars sent of one run each.
LEMMA ParentStep ==
    ASSUME IInv, TypeOK', LastingInv',
           UNCHANGED <<database, child_vars>>, given' = given,
           phase' # "pending" => run' \in Runs,
           phase' \in {"pending", "running", "emitted", "waiting"} =>
               phase \in {"pending", "running", "emitted", "waiting"}
    PROVE  IInv'
<1>1. DomainInv'
  BY DEF IInv, DomainInv, child_vars
<1>2. OrderInv'
  BY DEF IInv, OrderInv, child_vars, Unqueued
<1>3. RowInv'
  BY DEF IInv, RowInv, child_vars, Unqueued, Unmarked
<1>4. ContainerInv'
  BY ContainersKept DEF IInv, database, child_vars
<1> QED  BY <1>1, <1>2, <1>3, <1>4 DEF IInv

LEMMA StartRunStep == ASSUME IInv, StartRun  PROVE IInv'
<1> USE DEF IInv, StartRun, child_vars, database
<1>1. TypeOK'
  <2>1. run \in Nat /\ run' \in 0..MaxRuns
    BY JobDataAssumption DEF TypeOK
  <2>2. Posts(1..run) \subseteq Posts(1..run')
    BY <2>1, MorePosts
  <2>3. given' \in {p.data : p \in Posts(1..run')} \cup {None}
    BY <2>2 DEF TypeOK
  <2> QED  BY <2>1, <2>2, <2>3 DEF TypeOK
<1>2. LastingInv'
  BY DEF LastingInv
<1>3. phase' # "pending" => run' \in Runs
  BY JobDataAssumption DEF OrderInv, Runs, TypeOK
<1> QED  BY <1>1, <1>2, <1>3, ParentStep

LEMMA EmitStep == ASSUME IInv, Emit  PROVE IInv'
<1> USE DEF IInv, child_vars, database
<1>1. PICK p \in Posts({run}) : posts' = posts \cup {p}
  BY DEF Emit
<1>2. run \in 1..run
  BY JobDataAssumption DEF Emit, OrderInv, Runs
<1>3. p \in Posts(1..run)
  BY <1>1, <1>2 DEF Posts
<1>4. TypeOK'
  BY <1>1, <1>3 DEF TypeOK, Emit
<1>5. phase' # "pending" => run' \in Runs
  BY DEF OrderInv, Emit
<1>6. LastingInv'
  BY DEF LastingInv, Emit
<1> QED  BY <1>4, <1>5, <1>6, ParentStep DEF Emit

LEMMA DeliverStep == ASSUME IInv, Deliver  PROVE IInv'
<1> USE DEF IInv, child_vars, database
<1>1. PICK p \in posts :
          /\ outputs' = p /\ posts' = posts \ {p}
          /\ lasting' = IF phase = "waiting" THEN lasting \cap DOMAIN p.data ELSE lasting
  BY DEF Deliver
<1>2. TypeOK'
  BY <1>1 DEF Deliver, TypeOK
<1>3. p # None
  BY <1>1, SomePosts DEF TypeOK
<1>4. LastingInv'
  BY <1>1, <1>3 DEF Deliver, LastingInv
<1>5. phase' # "pending" => run' \in Runs
  BY DEF Deliver, OrderInv, Runs
<1> QED  BY <1>2, <1>4, <1>5, ParentStep DEF Deliver

LEMMA RunFailsStep == ASSUME IInv, RunFails  PROVE IInv'
<1> USE DEF IInv, RunFails, child_vars, database
<1>1. TypeOK'
  BY DEF TypeOK
<1>2. LastingInv'
  BY JobDataAssumption DEF LastingInv
<1>3. phase' # "pending" => run' \in Runs
  BY DEF OrderInv, Runs
<1> QED  BY <1>1, <1>2, <1>3, ParentStep

LEMMA RunSucceedsStep == ASSUME IInv, RunSucceeds  PROVE IInv'
<1> USE DEF IInv, RunSucceeds, child_vars, database
<1>1. TypeOK'
  <2>1. outputs # None => DOMAIN outputs.data \in Outs
    BY PostFacts DEF TypeOK
  <2>2. lasting' \subseteq UNION Outs /\ polls' \in 0..Polls
    BY <2>1, JobDataAssumption
  <2> QED  BY <2>2 DEF TypeOK
<1>2. LastingInv'
  BY JobDataAssumption DEF LastingInv
<1>3. phase' # "pending" => run' \in Runs
  BY DEF OrderInv, Runs
<1> QED  BY <1>1, <1>2, <1>3, ParentStep

LEMMA ReadStep == ASSUME IInv, Read  PROVE IInv'
<1> USE DEF IInv, Read, child_vars, database
<1>1. CASE WaitForOutputs /\ HasOutputs
  <2>1. given' = outputs.data /\ phase' = "handler" /\ polls' = polls
    BY <1>1 DEF WaitForOutputs
  <2>2. "outputs" \in decoded /\ outputs # None /\ DOMAIN outputs.data # {}
    BY <1>1 DEF HasOutputs, Column, Empty, Object
  <2>3. outputs \in Posts(1..run) /\ given' # None
    BY <2>1, <2>2, SomePosts DEF TypeOK
  <2>4. TypeOK'
    BY <2>1, <2>2, <2>3 DEF TypeOK
  <2>5. OrderInv' /\ RowInv' /\ DomainInv'
    BY <2>1 DEF OrderInv, RowInv, DomainInv, Unqueued, Unmarked
  <2>6. ContainerInv'
    BY ContainersKept
  <2>7. LastingInv'
    BY <2>1, <2>2, <2>3 DEF LastingInv
  <2> QED  BY <2>4, <2>5, <2>6, <2>7
<1>2. CASE Turn /\ UNCHANGED <<phase, given>> /\ (misread' = TRUE \/ ~HasOutputs)
  <2> USE <1>2
  <2>1. TypeOK'
    <3>1. polls' \in 0..Polls
      BY JobDataAssumption DEF TypeOK, Turn
    <3> QED  BY <3>1 DEF TypeOK
  <2>2. phase' # "pending" => run' \in Runs
    BY DEF OrderInv
  <2>3. LastingInv'
    BY DEF LastingInv, HasOutputs, Column
  <2> QED  BY <2>1, <2>2, <2>3, ParentStep
<1> QED  BY <1>1, <1>2 DEF WaitForOutputs

LEMMA WaitEndsStep == ASSUME IInv, WaitEnds  PROVE IInv'
<1> USE DEF IInv, WaitEnds, child_vars, database
<1>1. TypeOK'
  BY DEF TypeOK
<1>2. LastingInv'
  BY DEF LastingInv
<1>3. OrderInv' /\ RowInv' /\ DomainInv'
  BY DEF OrderInv, RowInv, DomainInv, Unqueued, Unmarked
<1>4. ContainerInv'
  BY ContainersKept
<1> QED  BY <1>1, <1>2, <1>3, <1>4

LEMMA HandlerEndsStep == ASSUME IInv, HandlerEnds  PROVE IInv'
<1> USE DEF IInv, HandlerEnds, child_vars, database
<1>1. TypeOK'
  BY DEF TypeOK
<1>2. LastingInv'
  BY DEF LastingInv
<1>3. phase' # "pending" => run' \in Runs
  BY DEF OrderInv, Runs
<1> QED  BY <1>1, <1>2, <1>3, ParentStep

\* The rows of the batch are made from what was given; the others stay.
LEMMA EnqueueStep == ASSUME IInv, Enqueue  PROVE IInv'
<1> USE DEF IInv, parent_vars, database
<1> PICK node \in [Batch -> UNION {Templates[c] : c \in Batch}] :
        /\ \A c \in Batch : node[c] \in Templates[c]
        /\ rows' = [c \in Nodes |->
               IF c \in Batch
               THEN [node |-> node[c], inputs |-> ResolveInputs(InputMapping(node[c]), given)]
               ELSE rows[c]]
  BY DEF Enqueue
<1> DEFINE Row(c) == [node |-> node[c], inputs |-> ResolveInputs(InputMapping(node[c]), given)]
<1>1. \A c \in Nodes : rows'[c] = IF c \in Batch THEN Row(c) ELSE rows[c]
  OBVIOUS
<1>2. \A c \in Batch : /\ Row(c).node = node[c]
                       /\ Row(c).inputs = ResolveInputs(InputMapping(node[c]), given)
  OBVIOUS
<1>3. Batch \subseteq {c \in Nodes : Unqueued(c)}
  BY DEF Batch, FirstWith, Nodes
<1>4. TypeOK'
  <2>1. \A c \in Nodes : rows'[c] # None => rows'[c].node \in Templates[c]
    BY <1>1, <1>2 DEF TypeOK
  <2> QED  BY <2>1 DEF TypeOK, Enqueue
<1>5. DomainInv'
  BY DEF DomainInv, Enqueue
<1>6. OrderInv' /\ LastingInv'
  BY DEF OrderInv, LastingInv, Enqueue
<1>7. RowInv'
  <2> SUFFICES ASSUME NEW c \in Nodes
               PROVE  /\ ~Unqueued(c)' =>
                          rows'[c].inputs = ResolveInputs(InputMapping(rows'[c].node), given)
                      /\ ~Unmarked(c) => ~Unqueued(c)' /\ node_inputs[c] = rows'[c].inputs
    BY DEF RowInv, Enqueue, Unmarked
  <2>1. CASE c \in Batch
    BY <1>1, <1>2, <1>3, <2>1 DEF RowInv
  <2>2. CASE c \notin Batch
    BY <1>1, <2>2 DEF RowInv, Unqueued, Unmarked
  <2> QED  BY <2>1, <2>2
<1>8. ContainerInv'
  BY <1>1, <1>3, ContainersKept DEF Unqueued, Enqueue
<1> QED  BY <1>4, <1>5, <1>6, <1>7, <1>8

\* The node execution is given the inputs of the row.
LEMMA MarkReadyStep == ASSUME IInv, MarkReady  PROVE IInv'
<1> USE DEF IInv, parent_vars, database
<1> PICK c \in FirstWith(Unmarked) :
        /\ ~Unqueued(c)
        /\ node_inputs' = [node_inputs EXCEPT ![c] =
               ResolveInputs(InputMapping(rows[c].node), given)]
  BY DEF MarkReady
<1>1. c \in Nodes
  BY DEF FirstWith, Nodes
<1>2. /\ node_inputs'[c] = rows[c].inputs
      /\ \A d \in Nodes \ {c} : node_inputs'[d] = node_inputs[d]
  BY <1>1 DEF DomainInv, RowInv
<1>3. DOMAIN node_inputs'[c] \subseteq DOMAIN Upper
  <2>1. DOMAIN node_inputs'[c] \subseteq DOMAIN rows[c].node.mapping
    BY <1>1, ResolvedNames DEF DomainInv
  <2>2. rows[c].node \in Templates[c]
    BY <1>1 DEF TypeOK, Unqueued
  <2> QED  BY <1>1, <2>1, <2>2, JobDataAssumption
<1>4. TypeOK'
  <2>1. \A d \in Nodes : node_inputs'[d] # None => DOMAIN node_inputs'[d] \subseteq DOMAIN Upper
    BY <1>2, <1>3 DEF TypeOK
  <2> QED  BY <2>1 DEF TypeOK, MarkReady
<1>5. DomainInv'
  BY DEF DomainInv, MarkReady
<1>6. OrderInv' /\ LastingInv'
  BY DEF OrderInv, LastingInv, Unqueued, MarkReady
<1>7. RowInv'
  BY <1>1, <1>2 DEF RowInv, Unqueued, Unmarked, MarkReady
<1>8. ContainerInv'
  BY ContainersKept DEF MarkReady
<1> QED  BY <1>4, <1>5, <1>6, <1>7, <1>8

\* In base JOB_ID and TOPIC come before the job's values, and these before the
\* image's.
IsBase(base, job, image) ==
    /\ DOMAIN base = {"JOB_ID", "TOPIC"} \cup DOMAIN job \cup DOMAIN image
    /\ \A n \in DOMAIN base :
           IF n \in {"JOB_ID", "TOPIC"} THEN base[n] = Value("executor", n, 0)
           ELSE IF n \in DOMAIN job THEN base[n] = job[n]
           ELSE base[n] = image[n]

\* What the inputs are laid over is such a base.
LEMMA BaseFacts ==
    ASSUME NEW job, NEW image
    PROVE  IsBase(Extend(Extend(image, job), Own), job, image)
<1>1. /\ DOMAIN Own = {"JOB_ID", "TOPIC"}
      /\ \A n \in {"JOB_ID", "TOPIC"} : Own[n] = Value("executor", n, 0)
  BY DEF Own, Object
<1> QED  BY <1>1 DEF Extend, IsBase

\* A child's container has the environment it must have.
LEMMA EnvironmentFacts ==
    ASSUME NEW row, IsFiniteSet(DOMAIN JobInputs(row)), NEW image,
           NEW order \in SetToSeqs(DOMAIN JobInputs(row))
    PROVE  Promised(Environment(row, image, order), JobInputs(row), JobEnv(row), image.env)
<1> DEFINE base == Extend(Extend(image.env, JobEnv(row)), Own)
           env == Overlay(base, JobInputs(row), order)
<1>1. IsBase(base, JobEnv(row), image.env)
  BY BaseFacts
<1>2. LaidOver(env, base, JobInputs(row))
  BY OverlayFacts
<1>3. env = Environment(row, image, order)
  BY DEF Environment
<1> HIDE DEF base, env
<1>4. Promised(env, JobInputs(row), JobEnv(row), image.env)
  BY <1>1, <1>2 DEF IsBase, LaidOver, Promised
<1> QED  BY <1>3, <1>4

LEMMA ExecuteStep == ASSUME IInv, NEW c \in Nodes, Execute(c)  PROVE IInv'
<1> USE DEF IInv, parent_vars, database
<1> PICK image \in Images[c], order \in SetToSeqs(DOMAIN JobInputs(rows[c])) :
        containers' = [containers EXCEPT ![c] =
            [image |-> image, env |-> Environment(rows[c], image, order)]]
  BY DEF Execute
<1>1. /\ containers'[c].image = image
      /\ containers'[c].env = Environment(rows[c], image, order)
      /\ \A d \in Nodes \ {c} : containers'[d] = containers[d]
      /\ DOMAIN containers' = Nodes
  BY DEF DomainInv
<1>2. TypeOK'
  <2>1. \A d \in Nodes : containers'[d] # None => containers'[d].image \in Images[d]
    BY <1>1 DEF TypeOK
  <2> QED  BY <2>1 DEF TypeOK, Execute
<1>3. DomainInv'
  BY <1>1 DEF DomainInv, Execute
<1>4. OrderInv' /\ LastingInv' /\ RowInv'
  BY DEF OrderInv, LastingInv, RowInv, Unqueued, Unmarked, Execute
<1>5. rows' = rows /\ decoded' = decoded /\ rows[c] # None
  BY DEF Execute, Unqueued
<1>6. IsFiniteSet(DOMAIN JobInputs(rows[c]))
  <2>1. rows[c].node \in Templates[c] /\ IsFiniteSet(DOMAIN rows[c].node.mapping)
    BY <1>5, JobDataAssumption DEF TypeOK
  <2>2. DOMAIN JobInputs(rows[c]) \subseteq DOMAIN rows[c].node.mapping
    BY <1>5, ResolvedNames DEF RowInv, Unqueued, JobInputs, Column, Empty, Object
  <2> QED  BY <2>1, <2>2, FS_Subset
<1>7. ContainerInv'
  <2> HIDE DEF IInv
  <2>1. ASSUME NEW d \in Nodes, containers'[d] # None
        PROVE  /\ Promised(containers'[d].env, JobInputs(rows[d]), JobEnv(rows[d]),
                           containers'[d].image.env)
               /\ rows[d] # None
    <3>1. CASE d = c
      BY <1>1, <1>5, <1>6, <3>1, EnvironmentFacts
    <3>2. CASE d # c
      BY <1>1, <2>1, <3>2 DEF IInv, ContainerInv, EnvPrecedence, Unqueued
    <3> QED  BY <3>1, <3>2
  <2>2. \A d \in Nodes : JobInputs(rows[d])' = JobInputs(rows[d]) /\ JobEnv(rows[d])' = JobEnv(rows[d])
    BY <1>5 DEF JobInputs, JobEnv, Column
  <2> QED  BY <1>5, <2>1, <2>2 DEF ContainerInv, EnvPrecedence, Unqueued
<1> QED  BY <1>2, <1>3, <1>4, <1>7

LEMMA NextInvariant == IInv /\ [Next]_vars => IInv'
<1> SUFFICES ASSUME IInv, [Next]_vars  PROVE IInv'
  OBVIOUS
<1>1. CASE UNCHANGED vars
  BY <1>1, ContainersKept DEF vars, database, parent_vars, child_vars, IInv, TypeOK,
              DomainInv, OrderInv, LastingInv, RowInv, Unqueued, Unmarked
<1>2. CASE StartRun \/ Emit \/ Deliver \/ RunFails \/ RunSucceeds
  BY <1>2, StartRunStep, EmitStep, DeliverStep, RunFailsStep, RunSucceedsStep
<1>3. CASE Task
  BY <1>3, ReadStep, WaitEndsStep, EnqueueStep, MarkReadyStep, HandlerEndsStep DEF Task
<1>4. CASE \E c \in Nodes : Execute(c)
  BY <1>4, ExecuteStep
<1> QED  BY <1>1, <1>2, <1>3, <1>4 DEF Next

\* IInv holds throughout, for any children, templates, images, runs and reads.
THEOREM JobDataInvariance == Spec => []IInv
BY InitInvariant, NextInvariant, PTL DEF Spec

\* Every variable of JobData keeps its type; nothing empty is ever handed to a
\* handler as outputs.
THEOREM JobDataTypeCorrect == Spec => []TypeOK
<1>1. IInv => TypeOK
  BY DEF IInv
<1> QED  BY <1>1, JobDataInvariance, PTL

-----------------------------------------------------------------------------
(* One source.                                                             *)

\* All inherited values are among those given, and they are of one run.
LEMMA OneSourceInvariant == IInv => OneSource
<1> SUFFICES ASSUME IInv  PROVE OneSource
  OBVIOUS
<1> USE DEF IInv
<1>1. ASSUME NEW c \in Nodes, rows[c] # None, NEW i \in DOMAIN rows[c].inputs,
             rows[c].inputs[i].from = "output"
      PROVE  given # None /\ \E key \in DOMAIN given : rows[c].inputs[i] = given[key]
  <2>1. rows[c].inputs = ResolveInputs(InputMapping(rows[c].node), given)
    BY <1>1 DEF RowInv, Unqueued
  <2> QED  BY <1>1, <2>1, ResolvedOutputs
<1>2. ASSUME NEW c \in Nodes, rows[c] # None, NEW i \in DOMAIN rows[c].inputs,
             NEW d \in Nodes, rows[d] # None, NEW k \in DOMAIN rows[d].inputs,
             rows[c].inputs[i].from = "output", rows[d].inputs[k].from = "output"
      PROVE  rows[c].inputs[i].run = rows[d].inputs[k].run
  <2>1. given # None
    BY <1>1, <1>2
  <2>2. PICK m \in Runs : \A key \in DOMAIN given : given[key] = Value("output", key, m)
    BY <2>1, GivenFacts
  <2>3. \A key \in DOMAIN given : given[key].run = m
    BY <2>2 DEF Value
  <2> QED  BY <1>1, <1>2, <2>3
<1>3. \A c \in Nodes : node_inputs[c] # None => node_inputs[c] = rows[c].inputs
  BY DEF RowInv, Unmarked
<1> QED  BY <1>2, <1>3 DEF OneSource

\* Whatever the sidecars deliver while a handler is at work, the children of a
\* job are given outputs of one and the same run, and their node executions
\* record what the jobs were given.
THEOREM OneSourceHolds == Spec => []OneSource
BY OneSourceInvariant, JobDataInvariance, PTL

-----------------------------------------------------------------------------
(* The environment of the containers.                                      *)

\* Whatever inputs, jobs and images are called, and in whatever order the inputs
\* are laid over the rest, a container's environment has every name and for each
\* the value of the first source in the order inputs, executor, job, image.
THEOREM EnvPrecedenceHolds == Spec => []EnvPrecedence
<1>1. IInv => EnvPrecedence
  BY DEF IInv, ContainerInv
<1> QED  BY <1>1, JobDataInvariance, PTL

-----------------------------------------------------------------------------
(* From the parent's row to the containers.                                *)

\* An input mapped from an output that was given is among the resolved inputs,
\* with that output's value.
LEMMA ResolvedFromOutput ==
    ASSUME NEW node, NEW i \in DOMAIN node.mapping, node.mapping[i].source = "parent",
           given # None, node.mapping[i].key \in DOMAIN given
    PROVE  /\ i \in DOMAIN ResolveInputs(InputMapping(node), given)
           /\ ResolveInputs(InputMapping(node), given)[i] = given[node.mapping[i].key]
<1>1. i \in DOMAIN InputMapping(node) /\ InputMapping(node)[i] = node.mapping[i]
  BY DEF InputMapping
<1>2. Lookup(node.mapping[i], given) = {given[node.mapping[i].key]}
  BY DEF Lookup
<1> DEFINE resolved == ResolveInputs(InputMapping(node), given)
<1>3. i \in DOMAIN resolved /\ resolved[i] = CHOOSE v \in Lookup(node.mapping[i], given) : TRUE
  BY <1>1, <1>2 DEF ResolveInputs
<1> HIDE DEF resolved
<1>4. resolved[i] = given[node.mapping[i].key]
  BY <1>2, <1>3
<1> QED  BY <1>3, <1>4 DEF resolved

\* Where the columns are text, the only input of a name has the value of its output.
LEMMA TextReaches ==
    ASSUME IInv, {"inputs", "outputs"} \subseteq decoded, ~misread,
           NEW c \in Nodes, containers[c] # None,
           NEW i \in DOMAIN rows[c].node.mapping,
           rows[c].node.mapping[i].source = "parent",
           rows[c].node.mapping[i].key \in lasting,
           \A k \in DOMAIN rows[c].node.mapping \ {i} : Upper[k] # Upper[i]
    PROVE  \E k \in Runs :
               containers[c].env[Upper[i]] = Value("output", rows[c].node.mapping[i].key, k)
<1> DEFINE env == containers[c].env
           inputs == JobInputs(rows[c])
           key == rows[c].node.mapping[i].key
<1> USE DEF IInv
<1>1. ~Unqueued(c)
  BY DEF ContainerInv
<1>2. phase \in {"handler", "done", "error"}
  BY <1>1 DEF OrderInv, TypeOK
<1>3. given # None /\ key \in DOMAIN given
  BY <1>2 DEF LastingInv
<1>4. PICK k \in Runs : given[key] = Value("output", key, k)
  BY <1>3, GivenFacts
<1>5. inputs = ResolveInputs(InputMapping(rows[c].node), given)
  BY <1>1 DEF RowInv, JobInputs, Column
<1>6. i \in DOMAIN inputs /\ inputs[i] = given[key]
  BY <1>3, <1>5, ResolvedFromOutput
<1>7. DOMAIN inputs \subseteq DOMAIN rows[c].node.mapping
  BY <1>5, ResolvedNames
<1>8. Promised(env, inputs, JobEnv(rows[c]), containers[c].image.env)
  BY DEF ContainerInv, EnvPrecedence
<1> HIDE DEF env, inputs, key, IInv
<1>9. Named(inputs, Upper[i]) = {inputs[i]}
  BY <1>6, <1>7 DEF Named
<1>10. Upper[i] \in DOMAIN env
  BY <1>6, <1>8 DEF Promised
<1>11. env[Upper[i]] = inputs[i]
  BY <1>8, <1>9, <1>10 DEF Promised
<1> QED  BY <1>4, <1>6, <1>11 DEF env, key

\* Where one of the columns is jsonb, no input of a job is an output: none was
\* given to the handler, or none is read from the row.
LEMMA JsonbInputs ==
    ASSUME IInv, ~({"inputs", "outputs"} \subseteq decoded), NEW c \in Nodes,
           ~Unqueued(c), NEW i \in DOMAIN JobInputs(rows[c])
    PROVE  JobInputs(rows[c])[i].from # "output"
<1>1. "inputs" \in decoded
  BY DEF JobInputs, Column, Empty, Object
<1>2. given = None
  BY <1>1 DEF IInv, LastingInv
<1>3. JobInputs(rows[c]) = ResolveInputs(InputMapping(rows[c].node), None)
  BY <1>1, <1>2 DEF IInv, RowInv, JobInputs, Column
<1> QED  BY <1>3, ResolvedOutputs

\* And so no value in a container is one.
LEMMA JsonbStops ==
    ASSUME IInv, ~({"inputs", "outputs"} \subseteq decoded),
           NEW c \in Nodes, containers[c] # None, NEW n \in DOMAIN containers[c].env
    PROVE  containers[c].env[n].from # "output"
<1> DEFINE env == containers[c].env
           inputs == JobInputs(rows[c])
           job_env == JobEnv(rows[c])
           image_env == containers[c].image.env
<1>v. \A from, m : Value(from, m, 0).from = from
  BY DEF Value
<1>1. ~Unqueued(c) /\ Promised(env, inputs, job_env, image_env)
  BY DEF IInv, ContainerInv, EnvPrecedence
<1>2. \A i \in DOMAIN inputs : inputs[i].from # "output"
  BY <1>1, JsonbInputs
<1>3. \A m \in DOMAIN job_env : job_env[m].from # "output"
  <2>1. rows[c].node \in Templates[c]
    BY <1>1 DEF IInv, TypeOK, Unqueued
  <2>2. rows[c].node.env = Object("job", DOMAIN rows[c].node.env, 0)
    BY <2>1, JobDataAssumption
  <2>3. \A m \in DOMAIN rows[c].node.env : rows[c].node.env[m] = Value("job", m, 0)
    BY <2>2 DEF Object
  <2>4. \A m \in DOMAIN rows[c].node.env : rows[c].node.env[m].from # "output"
    BY <2>3, <1>v
  <2>5. job_env = rows[c].node.env \/ DOMAIN job_env = {}
    BY DEF JobEnv, Column, Empty, Object
  <2> HIDE DEF job_env
  <2> QED  BY <2>4, <2>5
<1>4. \A m \in DOMAIN image_env : image_env[m].from # "output"
  <2>1. containers[c].image \in Images[c]
    BY DEF IInv, TypeOK
  <2>2. image_env = Object("image", DOMAIN image_env, 0)
    BY <2>1, JobDataAssumption
  <2>3. \A m \in DOMAIN image_env : image_env[m] = Value("image", m, 0)
    BY <2>2 DEF Object
  <2> QED  BY <2>3, <1>v
<1> HIDE DEF env, inputs, job_env, image_env
<1>5. n \in DOMAIN env => env[n].from # "output"
  BY <1>v, <1>1, <1>2, <1>3, <1>4 DEF Promised, Named
<1> QED  BY <1>5 DEF env

\* If the columns are of type text, an output that lasted in the row of its job is
\* in the container of every child that maps an input from it; if one of them is
\* of type jsonb, no output ever is in any.
THEOREM OutputsReachContainersHolds == Spec => []OutputsReachContainers
<1>1. IInv => OutputsReachContainers
  BY TextReaches, JsonbStops DEF OutputsReachContainers
<1> QED  BY <1>1, JobDataInvariance, PTL

=============================================================================
