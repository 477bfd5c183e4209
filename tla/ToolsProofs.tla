---------------------------- MODULE ToolsProofs ----------------------------
(***************************************************************************)
(* Theorems about the two tools that run beside COPY: openzl_train, for    *)
(* any samples, parameters, candidates and statements, and the packing     *)
(* script, for any files, any size of the pool and any number of runs and  *)
(* crashes.                                                                *)
(***************************************************************************)
EXTENDS Train, DuckLakePack, FiniteSetTheorems, SequenceTheorems, TLAPS

-----------------------------------------------------------------------------
(* openzl_train: the sum in the selection.                                 *)
(* It is defined by recursion over the sizes.  That the recursion has one  *)
(* solution for those looked at so far is part of the invariant: each file *)
(* carries it one step further.                                            *)

SumSteps(s, t, g) ==
    g = [n \in 0 .. Len(s) |->
            IF n = 0 THEN 0 ELSE g[n - 1] + (IF n \in t THEN s[n] ELSE 0)]

Adds(s, t) == \E f : \A g : SumSteps(s, t, g) <=> g = f

\* The solution's last value is the sum.
LEMMA SumLast ==
    ASSUME NEW s, NEW t, NEW f, \A g : SumSteps(s, t, g) <=> g = f
    PROVE  Adds(s, t) /\ SumOf(s, t) = f[Len(s)]
<1>1. f = CHOOSE g : SumSteps(s, t, g)
  OBVIOUS
<1>2. SumOf(s, t) = (CHOOSE g : SumSteps(s, t, g))[Len(s)]
  BY SMT DEF SumOf, SumSteps
<1>3. Adds(s, t)
  BY DEF Adds
<1> QED  BY <1>1, <1>2, <1>3

\* What a solution is at each index.
LEMMA SumStepsAre ==
    ASSUME NEW s, NEW t, NEW g, SumSteps(s, t, g)
    PROVE  /\ DOMAIN g = 0 .. Len(s)
           /\ g = [n \in 0 .. Len(s) |-> g[n]]
           /\ \A n \in 0 .. Len(s) :
                 g[n] = IF n = 0 THEN 0 ELSE g[n - 1] + (IF n \in t THEN s[n] ELSE 0)
<1> DEFINE e == [n \in 0 .. Len(s) |->
                    IF n = 0 THEN 0 ELSE g[n - 1] + (IF n \in t THEN s[n] ELSE 0)]
<1>1. g = e
  BY DEF SumSteps
<1>2. /\ DOMAIN e = 0 .. Len(s)
      /\ e = [n \in 0 .. Len(s) |-> e[n]]
      /\ \A n \in 0 .. Len(s) :
            e[n] = IF n = 0 THEN 0 ELSE g[n - 1] + (IF n \in t THEN s[n] ELSE 0)
  OBVIOUS
<1> HIDE DEF e
<1> QED  BY <1>1, <1>2

\* Nothing adds up to nothing.
LEMMA SumOfNone ==
    ASSUME NEW s, Len(s) = 0, NEW t
    PROVE  Adds(s, t) /\ SumOf(s, t) = 0
<1> DEFINE f == [n \in {0} |-> 0]
<1>1. 0 .. Len(s) = {0}
  OBVIOUS
<1>2. ASSUME NEW g PROVE SumSteps(s, t, g) <=> g = f
  <2>1. [n \in 0 .. Len(s) |->
            IF n = 0 THEN 0 ELSE g[n - 1] + (IF n \in t THEN s[n] ELSE 0)] = f
    BY <1>1
  <2> HIDE DEF f
  <2> QED  BY <2>1 DEF SumSteps
<1>3. f[Len(s)] = 0
  OBVIOUS
<1> HIDE DEF f
<1>4. Adds(s, t) /\ SumOf(s, t) = f[Len(s)]
  <2>1. \A g : SumSteps(s, t, g) <=> g = f
    BY <1>2
  <2> QED  BY <2>1, SumLast
<1> QED  BY <1>3, <1>4

\* One more size, taken or not.
LEMMA SumOfAppend ==
    ASSUME NEW s \in Seq(Nat), NEW t \in SUBSET (1 .. Len(s)), Adds(s, t),
           SumOf(s, t) \in Nat, NEW z \in Nat,
           NEW u, \A n \in 1 .. Len(s) : n \in u <=> n \in t
    PROVE  /\ Adds(Append(s, z), u)
           /\ SumOf(Append(s, z), u) =
                 SumOf(s, t) + (IF Len(s) + 1 \in u THEN z ELSE 0)
<1> DEFINE r == Append(s, z)
           m == Len(s) + 1
           x == IF m \in u THEN z ELSE 0
<1>1. /\ Len(r) = m /\ r[m] = z /\ Len(s) \in Nat /\ m \in Nat /\ m # 0 /\ m - 1 = Len(s)
      /\ \A n \in 1 .. Len(s) : r[n] = s[n] /\ (n \in u <=> n \in t)
  BY AppendProperties, LenProperties
<1>2. /\ 0 .. m = 0 .. Len(s) \cup {m}
      /\ \A n \in 0 .. Len(s) : n # m /\ (n # 0 => n - 1 \in 0 .. Len(s))
  BY <1>1
<1>3. PICK f : \A g : SumSteps(s, t, g) <=> g = f
  BY DEF Adds
<1>4. SumSteps(s, t, f) /\ SumOf(s, t) = f[Len(s)]
  BY <1>3, SumLast
<1>5. /\ \A n \in 0 .. Len(s) :
            f[n] = IF n = 0 THEN 0 ELSE f[n - 1] + (IF n \in t THEN s[n] ELSE 0)
  BY <1>4, SumStepsAre
<1> DEFINE h == [n \in 0 .. m |-> IF n = m THEN f[Len(s)] + x ELSE f[n]]
<1>6. h[m] = f[Len(s)] + x /\ \A n \in 0 .. Len(s) : h[n] = f[n]
  BY <1>1, <1>2
<1>7. h = [n \in 0 .. m |-> h[n]]
  OBVIOUS
<1>a. m \in 0 .. m /\ Len(s) \in 0 .. Len(s)
  BY <1>1
<1> HIDE DEF h, r, m
<1>8. \A n \in 0 .. m :
         h[n] = IF n = 0 THEN 0 ELSE h[n - 1] + (IF n \in u THEN r[n] ELSE 0)
  <2>1. ASSUME NEW n \in 0 .. Len(s)
        PROVE  h[n] = IF n = 0 THEN 0 ELSE h[n - 1] + (IF n \in u THEN r[n] ELSE 0)
    <3>1. CASE n = 0
      BY <1>1, <1>5, <1>6, <3>1
    <3>2. CASE n # 0
      <4>1. n \in 1 .. Len(s) /\ n - 1 \in 0 .. Len(s)
        BY <1>1, <3>2
      <4> QED  BY <1>1, <1>5, <1>6, <3>2, <4>1
    <3> QED  BY <3>1, <3>2
  <2>2. h[m] = h[m - 1] + (IF m \in u THEN r[m] ELSE 0)
    <3>1. h[m - 1] = f[Len(s)] /\ r[m] = z
      BY <1>1, <1>6, <1>a
    <3> QED  BY <1>6, <3>1
  <2> QED  BY <1>1, <1>2, <2>1, <2>2
<1>9. SumSteps(r, u, h)
  BY <1>1, <1>7, <1>8 DEF SumSteps
<1>10. ASSUME NEW g, SumSteps(r, u, g) PROVE g = h
  <2> DEFINE k == [n \in 0 .. Len(s) |-> g[n]]
  <2>1. /\ g = [n \in 0 .. m |-> g[n]]
        /\ \A n \in 0 .. m :
              g[n] = IF n = 0 THEN 0 ELSE g[n - 1] + (IF n \in u THEN r[n] ELSE 0)
    <3>1. /\ g = [n \in 0 .. Len(r) |-> g[n]]
          /\ \A n \in 0 .. Len(r) :
                g[n] = IF n = 0 THEN 0 ELSE g[n - 1] + (IF n \in u THEN r[n] ELSE 0)
      BY <1>10, SumStepsAre
    <3>2. Len(r) = m
      BY <1>1
    <3> QED  BY <3>1, <3>2
  <2>2. \A n \in 0 .. Len(s) : k[n] = g[n]
    OBVIOUS
  <2>3. k = [n \in 0 .. Len(s) |-> k[n]]
    OBVIOUS
  <2> HIDE DEF k
  <2>4. ASSUME NEW n \in 0 .. Len(s)
        PROVE  k[n] = IF n = 0 THEN 0 ELSE k[n - 1] + (IF n \in t THEN s[n] ELSE 0)
    <3>1. CASE n = 0
      BY <1>2, <2>1, <2>2, <3>1
    <3>2. CASE n # 0
      <4>1. n \in 1 .. Len(s) /\ n - 1 \in 0 .. Len(s) /\ n \in 0 .. m
        BY <1>1, <3>2
      <4> QED  BY <1>1, <2>1, <2>2, <3>2, <4>1
    <3> QED  BY <3>1, <3>2
  <2>5. k = f
    BY <1>3, <2>3, <2>4 DEF SumSteps
  <2>6. \A n \in 0 .. Len(s) : g[n] = h[n]
    BY <1>6, <2>2, <2>5
  <2>7. g[m] = h[m]
    <3>1. g[m] = g[m - 1] + (IF m \in u THEN r[m] ELSE 0)
      BY <1>1, <1>a, <2>1
    <3>2. g[m - 1] = f[Len(s)] /\ r[m] = z
      BY <1>1, <1>6, <1>a, <2>6
    <3> QED  BY <1>6, <3>1, <3>2
  <2>8. \A n \in 0 .. m : g[n] = h[n]
    BY <1>2, <2>6, <2>7
  <2>9. g = [n \in 0 .. m |-> g[n]]
    BY <2>1
  <2> QED  BY <1>7, <2>8, <2>9
<1>11. \A g : SumSteps(r, u, g) <=> g = h
  BY <1>9, <1>10
<1>12. Adds(r, u) /\ SumOf(r, u) = h[m]
  <2>1. Adds(r, u) /\ SumOf(r, u) = h[Len(r)]
    BY <1>11, SumLast
  <2> QED  BY <1>1, <2>1
<1>13. SumOf(r, u) = SumOf(s, t) + x
  BY <1>4, <1>6, <1>12
<1> QED  BY <1>12, <1>13 DEF r, m

-----------------------------------------------------------------------------
(* openzl_train: the invariant.                                            *)

Held == [Outputs -> Bytes \cup {Part, NoFile}]

\* What a statement works with; none has run before the first.
BindInv ==
    /\ size \in [Samples -> Sizes \cup {NoFile}]
    /\ files \in Held /\ before \in Held
    /\ run \in 0 .. MaxStatements /\ opts \in Options
    /\ pc # "idle" => run > 0
    /\ pc \in {"idle", "select", "read", "search", "write", "open", "fill",
               "returned", "threw"}

Eligible == { k \in DOMAIN sized : sized[k] <= max_file }

\* Until a limit ends it, the selection has taken every file that is not too
\* large, and what it has taken keeps the limits.
SelectInv ==
    /\ sized \in Seq(Sizes \cup {SizeMax}) /\ selected \subseteq DOMAIN sized
    /\ pc \notin {"select", "read"} => sized = << >> /\ selected = {}
    /\ Adds(sized, selected) /\ total \in Nat
    /\ pc = "select" =>
          /\ Len(sized) <= Len(sample_paths)
          /\ selected = Eligible
          /\ opts.num_samples > 0 => Cardinality(selected) <= opts.num_samples
          /\ total <= max_total \/ Cardinality(selected) = 1
    /\ SelectionIsMaximalPrefix

\* The rows of candidates, and what an execution returns of them.
OutputRows ==
    [path : Outputs \cup {NULL}, compressor_bytes : Bytes, measured : Bytes \cup {NULL}]

Rows ==
    [candidate_index : 0 .. MaxCandidates - 1, output_path : Outputs \cup {NULL},
     compressor_bytes : Bytes, measured : Bytes \cup {NULL}]

\* The row of candidate k of this statement, counted from one.
RowOf(k) ==
    [path |-> IF opts.output THEN Path(k - 1) ELSE NULL,
     compressor_bytes |-> << run, k - 1 >>,
     measured |-> IF do_benchmark THEN << run, k - 1 >> ELSE NULL]

OutputsInv ==
    /\ outputs \in Seq(OutputRows) /\ Len(outputs) <= MaxCandidates
    /\ \A k \in 1 .. Len(outputs) : outputs[k] = RowOf(k)
    /\ pc \notin {"write", "open", "fill", "returned"} => outputs = << >>
    /\ pc \in {"open", "fill"} => Len(outputs) > 0 /\ opts.output
    /\ opts.pareto_frontier \/ Len(outputs) <= 1

\* A candidate has its bytes until they are moved into its row.
CandidatesInv ==
    /\ candidates \in Seq(Bytes \cup {Moved})
    /\ pc \notin {"write", "open", "fill"} => candidates = << >>
    /\ pc \in {"write", "open", "fill"} =>
          /\ Len(candidates) <= MaxCandidates /\ Len(outputs) <= Len(candidates)
          /\ \A i \in Len(outputs) + 1 .. Len(candidates) : candidates[i] = << run, i - 1 >>
          /\ opts.pareto_frontier \/ Len(candidates) = 1

EmittedInv ==
    /\ emitted \in Seq(Rows) /\ Len(emitted) <= Len(outputs)
    /\ \A k \in 1 .. Len(emitted) : emitted[k] = Row(k)
    /\ pc # "returned" => emitted = << >>

TrainInv == BindInv /\ SelectInv /\ OutputsInv /\ CandidatesInv /\ EmittedInv

\* Which files are new at each place of a statement.
FilesInv ==
    /\ pc \in {"select", "read", "search"} => files = Written(0)
    /\ pc \in {"write", "returned"} => files = Written(Len(outputs))
    /\ pc = "open" => files = Written(Len(outputs) - 1)
    /\ pc = "fill" =>
          files = [Written(Len(outputs) - 1) EXCEPT ![Path(Len(outputs) - 1)] = Part]
    /\ FilesFollowCandidates

-----------------------------------------------------------------------------
(* openzl_train: the selection.                                            *)

\* The limits of the parameters.
LEMMA LimitsAreNumbers ==
    ASSUME opts \in Options
    PROVE  /\ opts.num_samples \in Nat /\ max_file \in Nat /\ max_total \in Nat
           /\ opts.pareto_frontier \in BOOLEAN /\ opts.output \in BOOLEAN
<1>1. /\ opts.num_samples \in Nat /\ opts.max_file_size_mb \in Nat
      /\ opts.max_total_size_mb \in Nat
      /\ opts.pareto_frontier \in BOOLEAN /\ opts.output \in BOOLEAN
  BY TrainAssumption DEF TrainOptions
<1> QED  BY <1>1 DEF max_file, max_total, Limit

\* Steps that are over with the selection.
LEMMA SelectionOver ==
    ASSUME sized' = << >>, selected' = {}, pc' \notin {"select", "read"}
    PROVE  SelectInv'
<1>1. /\ sized' \in Seq(Sizes \cup {SizeMax}) /\ selected' \subseteq DOMAIN sized'
      /\ Adds(sized', selected')
  <2>1. Len(sized') = 0 /\ DOMAIN sized' = {}
    OBVIOUS
  <2>2. sized' \in Seq(Sizes \cup {SizeMax})
    OBVIOUS
  <2> QED  BY <2>1, <2>2, SumOfNone
<1>2. total' \in Nat
  <2>1. Len(sized') = 0
    OBVIOUS
  <2>2. SumOf(sized', selected') = 0
    BY <2>1, SumOfNone
  <2> QED  BY <2>2 DEF total
<1> QED  BY <1>1, <1>2 DEF SelectInv, SelectionIsMaximalPrefix

\* Steps that leave it alone.
LEMMA SelectionKept ==
    ASSUME SelectInv, UNCHANGED << sized, selected, opts, pc >>
    PROVE  SelectInv'
BY DEF SelectInv, SelectionIsMaximalPrefix, total, max_file, max_total, Limit, Eligible

LEMMA BindSelects ==
    ASSUME BindInv, SelectInv, NEW o \in Options, OpenzlTrainBind(o)
    PROVE  SelectInv'
<1>1. sized' = << >> /\ selected' = {} /\ opts' \in Options /\ pc' \in {"select", "threw"}
  BY DEF OpenzlTrainBind, selectVars, SelectInv
<1>2. /\ sized' \in Seq(Sizes \cup {SizeMax}) /\ selected' \subseteq DOMAIN sized'
      /\ Len(sized') = 0 /\ DOMAIN sized' = {} /\ Cardinality(selected') = 0
  <2>1. sized' \in Seq(Sizes \cup {SizeMax})
    BY <1>1
  <2> QED  BY <1>1, <2>1, FS_EmptySet
<1>3. Adds(sized', selected') /\ SumOf(sized', selected') = 0
  BY <1>2, SumOfNone
<1>4. total' = 0 /\ max_total' \in Nat /\ opts'.num_samples \in Nat
  <2>1. /\ opts'.num_samples \in Nat /\ opts'.max_total_size_mb \in Nat
    BY <1>1, TrainAssumption DEF TrainOptions
  <2> QED  BY <1>3, <2>1 DEF total, max_total, Limit
<1>5. Len(sample_paths) \in Nat
  BY TrainAssumption
<1> QED
  BY <1>1, <1>2, <1>3, <1>4, <1>5 DEF SelectInv, Eligible, SelectionIsMaximalPrefix

\* There are finitely many files taken.
LEMMA SelectedAreFinite ==
    ASSUME SelectInv
    PROVE  /\ Len(sized) \in Nat /\ DOMAIN sized = 1 .. Len(sized)
           /\ selected \in SUBSET (1 .. Len(sized))
           /\ IsFiniteSet(selected) /\ Cardinality(selected) \in Nat
<1>1. sized \in Seq(Sizes \cup {SizeMax}) /\ selected \subseteq DOMAIN sized
  BY DEF SelectInv
<1>2. Len(sized) \in Nat /\ DOMAIN sized = 1 .. Len(sized)
  BY <1>1
<1>3. IsFiniteSet(1 .. Len(sized))
  BY <1>2, FS_Interval
<1> QED  BY <1>1, <1>2, <1>3, FS_Subset, FS_CardinalityType

\* One file is looked at: it is too large, the first beyond the total, or taken.
LEMMA SelectSelects ==
    ASSUME BindInv, SelectInv, SelectSamplePath
    PROVE  SelectInv'
<1> DEFINE z == FileSize(sample_paths[position])
           m == Len(sized) + 1
<1>1. /\ pc = "select" /\ ~ AtEnd /\ position = m /\ sized' = Append(sized, z)
      /\ opts' = opts
  BY DEF SelectSamplePath, position, boundVars
<1>2. /\ Len(sized) \in Nat /\ m \in 1 .. Len(sample_paths)
      /\ opts.num_samples > 0 => Cardinality(selected) < opts.num_samples
  <2>1. Len(sized) \in Nat /\ Len(sample_paths) \in Nat
    BY TrainAssumption DEF SelectInv
  <2>2. opts.num_samples \in Nat /\ Cardinality(selected) \in Nat
    BY SelectedAreFinite, LimitsAreNumbers DEF BindInv
  <2> QED  BY <1>1, <2>1, <2>2 DEF AtEnd
<1>3. z \in Sizes \cup {SizeMax} /\ z \in Nat
  <2> DEFINE f == sample_paths[m]
  <2>1. f \in Samples
    BY <1>2, TrainAssumption
  <2>2. z = FileSize(f)
    BY <1>1
  <2> HIDE DEF f, z
  <2>3. size[f] \in Sizes \cup {NoFile}
    BY <2>1 DEF BindInv
  <2>4. z \in Sizes \cup {SizeMax}
    BY <2>2, <2>3 DEF FileSize
  <2>5. Sizes \cup {SizeMax} \subseteq Nat
    BY TrainAssumption
  <2> QED  BY <2>4, <2>5
<1>b. /\ sized \in Seq(Nat) /\ selected \in SUBSET (1 .. Len(sized))
      /\ Adds(sized, selected) /\ SumOf(sized, selected) \in Nat
  <2>1. Sizes \cup {SizeMax} \subseteq Nat
    BY TrainAssumption
  <2>2. sized \in Seq(Nat)
    BY <2>1 DEF SelectInv
  <2> QED  BY <2>2, SelectedAreFinite DEF SelectInv, total
<1>4. /\ selected \in SUBSET (1 .. Len(sized)) /\ selected = Eligible
      /\ SumOf(sized, selected) \in Nat
  BY <1>1, <1>b DEF SelectInv
<1>5. /\ max_file \in Nat /\ max_total \in Nat /\ opts.num_samples \in Nat
      /\ max_file' = max_file /\ max_total' = max_total
  BY <1>1, LimitsAreNumbers DEF BindInv, max_file, max_total, Limit
<1> HIDE DEF z
<1>6. /\ sized' \in Seq(Sizes \cup {SizeMax}) /\ Len(sized') = m /\ DOMAIN sized' = 1 .. m
      /\ sized'[m] = z /\ \A k \in 1 .. Len(sized) : sized'[k] = sized[k]
  <2>1. sized \in Seq(Sizes \cup {SizeMax})
    BY DEF SelectInv
  <2> QED  BY <1>1, <1>3, <2>1, AppendProperties
<1>7. Eligible' = Eligible \cup (IF z <= max_file THEN {m} ELSE {})
  BY <1>2, <1>b, <1>4, <1>5, <1>6 DEF Eligible
<1>8. m \notin selected
  BY <1>2, <1>4
<1>9. IsFiniteSet(selected) /\ Cardinality(selected) \in Nat
  BY SelectedAreFinite
<1>10. /\ opts.num_samples > 0 => Cardinality(selected) <= opts.num_samples
       /\ total <= max_total \/ Cardinality(selected) = 1
  BY <1>1 DEF SelectInv
<1>c. ASSUME NEW u, \A n \in 1 .. Len(sized) : n \in u <=> n \in selected
      PROVE  /\ Adds(Append(sized, z), u)
             /\ SumOf(Append(sized, z), u) =
                   SumOf(sized, selected) + (IF Len(sized) + 1 \in u THEN z ELSE 0)
  <2>1. ASSUME NEW s \in Seq(Nat), NEW t \in SUBSET (1 .. Len(s)), Adds(s, t),
               SumOf(s, t) \in Nat, NEW y \in Nat,
               \A n \in 1 .. Len(s) : n \in u <=> n \in t
        PROVE  /\ Adds(Append(s, y), u)
               /\ SumOf(Append(s, y), u) =
                     SumOf(s, t) + (IF Len(s) + 1 \in u THEN y ELSE 0)
    BY <2>1, SumOfAppend
  <2>2. z \in Nat
    BY <1>3
  <2> QED  BY <1>b, <1>c, <2>1, <2>2
<1>11. ASSUME selected' = selected
       PROVE  Adds(sized', selected') /\ total' = total
  <2>1. /\ Adds(Append(sized, z), selected)
        /\ SumOf(Append(sized, z), selected) =
              SumOf(sized, selected) + (IF Len(sized) + 1 \in selected THEN z ELSE 0)
    BY <1>c
  <2> QED  BY <1>1, <1>4, <1>8, <1>11, <2>1 DEF total
<1>12. CASE z > max_file /\ UNCHANGED << selected, pc >>
  <2>1. Eligible' = selected'
    BY <1>3, <1>4, <1>5, <1>7, <1>12
  <2>2. pc' = "select" /\ selected' = selected
    BY <1>1, <1>12
  <2> QED
    BY <1>1, <1>2, <1>4, <1>5, <1>6, <1>10, <1>11, <2>1, <2>2
       DEF SelectInv, SelectionIsMaximalPrefix, total
<1>13. CASE /\ z <= max_file /\ total + z > max_total /\ selected # {}
            /\ pc' = "read" /\ UNCHANGED selected
  <2>1. Eligible' = selected \cup {m}
    BY <1>4, <1>7, <1>13
  <2>2. SelectionIsMaximalPrefix'
    <3>1. /\ selected' # {} /\ selected' \subseteq Eligible'
          /\ \A j \in Eligible', k \in selected' : j < k => j \in selected'
      BY <1>2, <1>4, <1>13, <2>1
    <3>2. /\ opts'.num_samples > 0 => Cardinality(selected') <= opts'.num_samples
          /\ total' <= max_total' \/ Cardinality(selected') = 1
      BY <1>1, <1>5, <1>10, <1>11, <1>13
    <3>3. total' + sized'[Len(sized')] > max_total' /\ Eligible' \ selected' = {Len(sized')}
      BY <1>5, <1>6, <1>8, <1>11, <1>13, <2>1
    <3> QED  BY <3>1, <3>2, <3>3 DEF SelectionIsMaximalPrefix, Eligible
  <2> QED  BY <1>4, <1>6, <1>11, <1>13, <2>2 DEF SelectInv, total
<1>14. CASE /\ z <= max_file /\ (total + z <= max_total \/ selected = {})
            /\ selected' = selected \cup {m} /\ UNCHANGED pc
  <2>1. Eligible' = selected'
    BY <1>4, <1>7, <1>14
  <2>2. Adds(sized', selected') /\ total' = total + z
    <3>1. \A n \in 1 .. Len(sized) : n \in selected' <=> n \in selected
      BY <1>2, <1>14
    <3>2. /\ Adds(Append(sized, z), selected')
          /\ SumOf(Append(sized, z), selected') =
                SumOf(sized, selected) + (IF Len(sized) + 1 \in selected' THEN z ELSE 0)
      BY <3>1, <1>c
    <3> QED  BY <1>1, <1>14, <3>2 DEF total
  <2>3. Cardinality(selected') = Cardinality(selected) + 1
    BY <1>8, <1>9, <1>14, FS_AddElement
  <2>4. selected = {} => Cardinality(selected) = 0
    BY FS_EmptySet
  <2>5. opts'.num_samples > 0 => Cardinality(selected') <= opts'.num_samples
    BY <1>1, <1>2, <1>5, <1>9, <2>3
  <2>6. total' <= max_total' \/ Cardinality(selected') = 1
    BY <1>5, <1>14, <2>2, <2>3, <2>4
  <2>7. selected' \subseteq DOMAIN sized' /\ total' \in Nat /\ pc' = "select"
    <3>1. selected' \subseteq 1 .. m
      <4>1. 1 .. Len(sized) \subseteq 1 .. m /\ m \in 1 .. m
        BY <1>2
      <4> QED  BY <1>b, <1>14, <4>1
    <3>2. total \in Nat
      BY <1>4 DEF total
    <3>3. total' \in Nat
      BY <1>3, <2>2, <3>2
    <3> QED  BY <1>1, <1>6, <1>14, <3>1, <3>3
  <2> QED
    BY <1>2, <1>6, <2>1, <2>2, <2>5, <2>6, <2>7 DEF SelectInv, SelectionIsMaximalPrefix
<1> QED
  BY <1>1, <1>12, <1>13, <1>14 DEF SelectSamplePath, Skipped, z, position

LEMMA SelectionEndsWell ==
    ASSUME BindInv, SelectInv, SelectionEnds
    PROVE  SelectInv'
<1>1. /\ pc = "select" /\ pc' = "read" /\ selected # {} /\ AtEnd
      /\ UNCHANGED << sized, selected, opts >>
  BY DEF SelectionEnds, selectVars, boundVars
<1>2. /\ Len(sized) \in Nat /\ Len(sample_paths) \in Nat /\ Len(sized) <= Len(sample_paths)
      /\ selected = Eligible
      /\ opts.num_samples > 0 => Cardinality(selected) <= opts.num_samples
      /\ total <= max_total \/ Cardinality(selected) = 1
  BY <1>1, TrainAssumption DEF SelectInv
<1>3. opts.num_samples \in Nat /\ Cardinality(selected) \in Nat
  BY SelectedAreFinite, LimitsAreNumbers DEF BindInv
<1>4. Cardinality(selected) = opts.num_samples \/ Len(sized) = Len(sample_paths)
  BY <1>1, <1>2, <1>3 DEF AtEnd, position
<1>5. SelectionIsMaximalPrefix'
  BY <1>1, <1>2, <1>4
     DEF SelectionIsMaximalPrefix, Eligible, total, max_file, max_total, Limit
<1> QED  BY <1>1, <1>5 DEF SelectInv, total

LEMMA TrainKeepsSelectInv ==
    ASSUME BindInv, SelectInv, [TrainNext]_trainVars
    PROVE  SelectInv'
<1>1. ASSUME NEW f \in Samples, NEW n \in Sizes \cup {NoFile}, Replace(f, n)
      PROVE  SelectInv'
  BY <1>1, SelectionKept DEF Replace, selectVars, boundVars
<1>2. CASE ReadSamples \/ ProcessDies \/ SelectionFails \/ ReadFails \/ TrainFails
  BY <1>2, SelectionOver
     DEF ReadSamples, ProcessDies, SelectionFails, ReadFails, TrainFails, Throw
<1>3. CASE OpenFile \/ WriteFile \/ TrainReturns
  <2>1. sized' = << >> /\ selected' = {} /\ pc' \notin {"select", "read"}
    BY <1>3 DEF OpenFile, WriteFile, TrainReturns, selectVars, SelectInv
  <2> QED  BY <2>1, SelectionOver
<1>4. ASSUME NEW n \in 1 .. MaxCandidates, Search(n)
      PROVE  SelectInv'
  <2>1. sized' = << >> /\ selected' = {} /\ pc' \notin {"select", "read"}
    BY <1>4 DEF Search, selectVars, SelectInv
  <2> QED  BY <2>1, SelectionOver
<1>5. ASSUME NEW i \in 0 .. MaxCandidates - 1, TakeCandidate(i)
      PROVE  SelectInv'
  <2>1. sized' = << >> /\ selected' = {} /\ pc' \notin {"select", "read"}
    BY <1>5 DEF TakeCandidate, selectVars, SelectInv
  <2> QED  BY <2>1, SelectionOver
<1>6. CASE OpenzlTrainInitGlobal \/ OpenzlTrainFunction \/ UNCHANGED trainVars
  BY <1>6, SelectionKept
     DEF OpenzlTrainInitGlobal, OpenzlTrainFunction, trainVars, selectVars, boundVars
<1> QED
  BY <1>1, <1>2, <1>3, <1>4, <1>5, <1>6, BindSelects, SelectSelects, SelectionEndsWell
     DEF TrainNext

-----------------------------------------------------------------------------
(* openzl_train: the rows.                                                 *)

\* The bytes and the file of a candidate.
LEMMA CandidateHasPlaces ==
    ASSUME BindInv, run > 0, NEW k \in 1 .. MaxCandidates,
           opts.pareto_frontier \/ k = 1
    PROVE  /\ << run, k - 1 >> \in Bytes /\ Path(k - 1) \in Outputs
           /\ RowOf(k) \in OutputRows
<1>1. MaxCandidates \in Nat \ {0} /\ MaxStatements \in Nat
  BY TrainAssumption
<1>2. k \in Int /\ k - 1 \in 0 .. MaxCandidates - 1 /\ run \in 1 .. MaxStatements
  BY <1>1 DEF BindInv
<1>3. << run, k - 1 >> \in Bytes
  BY <1>2 DEF Bytes
<1>4. Path(k - 1) \in Outputs
  BY <1>2 DEF Path, Outputs
<1> QED  BY <1>3, <1>4 DEF RowOf, OutputRows

\* The parts of the invariant that a step does not touch.
LEMMA RowsKept ==
    ASSUME OutputsInv, CandidatesInv, EmittedInv,
           UNCHANGED << outputs, candidates, emitted, run, opts >>,
           \/ pc' = pc
           \/ {pc, pc'} \subseteq {"idle", "select", "read", "search", "threw"}
           \/ pc' = "fill" /\ pc = "open"
           \/ pc' = "write" /\ pc = "fill"
    PROVE  OutputsInv' /\ CandidatesInv' /\ EmittedInv'
<1>1. \A k : RowOf(k)' = RowOf(k)
  BY DEF RowOf, Path, do_benchmark
<1>2. OutputsInv'
  BY <1>1 DEF OutputsInv
<1>3. CandidatesInv'
  BY DEF CandidatesInv
<1>4. EmittedInv'
  BY DEF EmittedInv, Row
<1> QED  BY <1>2, <1>3, <1>4

\* Steps after which nothing is left of a statement.
LEMMA RowsCleared ==
    ASSUME outputs' = << >>, candidates' = << >>, emitted' = << >>,
           pc' \in {"idle", "select", "threw"}
    PROVE  OutputsInv' /\ CandidatesInv' /\ EmittedInv'
<1>1. /\ outputs' \in Seq(OutputRows) /\ candidates' \in Seq(Bytes \cup {Moved})
      /\ emitted' \in Seq(Rows)
  OBVIOUS
<1>2. Len(outputs') = 0 /\ Len(emitted') = 0 /\ MaxCandidates \in Nat
  BY TrainAssumption
<1>3. OutputsInv'
  BY <1>1, <1>2 DEF OutputsInv
<1>4. CandidatesInv'
  BY <1>1 DEF CandidatesInv
<1>5. EmittedInv'
  BY <1>1, <1>2 DEF EmittedInv
<1> QED  BY <1>3, <1>4, <1>5

LEMMA SearchKeepsRows ==
    ASSUME TrainInv, NEW n \in 1 .. MaxCandidates, Search(n)
    PROVE  OutputsInv' /\ CandidatesInv' /\ EmittedInv'
<1> DEFINE c == [i \in 1 .. n |-> << run, i - 1 >>]
<1>1. /\ pc = "search" /\ pc' = "write" /\ (opts.pareto_frontier \/ n = 1)
      /\ candidates' = c /\ outputs' = << >> /\ emitted' = << >>
      /\ UNCHANGED << run, opts >>
  BY DEF Search, boundVars, TrainInv, OutputsInv, EmittedInv
<1>2. /\ n \in Nat /\ MaxCandidates \in Nat /\ n <= MaxCandidates
      /\ \A i \in 1 .. n : << run, i - 1 >> \in Bytes
  <2>1. ASSUME NEW i \in 1 .. n
        PROVE  << run, i - 1 >> \in Bytes
    <3>1. MaxCandidates \in Nat /\ MaxStatements \in Nat
      BY TrainAssumption
    <3>2. run \in 0 .. MaxStatements /\ run > 0
      BY <1>1 DEF TrainInv, BindInv
    <3>3. i - 1 \in 0 .. MaxCandidates - 1 /\ run \in 1 .. MaxStatements
      BY <3>1, <3>2
    <3> QED  BY <3>3 DEF Bytes
  <2> QED  BY <2>1, TrainAssumption
<1>3. Len(c) = n /\ c \in Seq(Bytes \cup {Moved}) /\ \A i \in 1 .. n : c[i] = << run, i - 1 >>
  BY <1>2
<1>4. /\ outputs' \in Seq(OutputRows) /\ emitted' \in Seq(Rows)
      /\ Len(outputs') = 0 /\ Len(emitted') = 0
  <2>1. outputs' \in Seq(OutputRows) /\ emitted' \in Seq(Rows)
    BY <1>1
  <2> QED  BY <1>1, <2>1
<1> HIDE DEF c
<1>a. pc' = "write" /\ opts' = opts /\ run' = run /\ candidates' = c
  BY <1>1
<1>5. OutputsInv'
  BY <1>2, <1>4, <1>a DEF OutputsInv
<1>6. CandidatesInv'
  <2>1. opts'.pareto_frontier \/ Len(candidates') = 1
    BY <1>1, <1>3
  <2> QED  BY <1>2, <1>3, <1>4, <1>a, <2>1 DEF CandidatesInv
<1>7. EmittedInv'
  BY <1>1, <1>4 DEF EmittedInv
<1> QED  BY <1>5, <1>6, <1>7

LEMMA TakeCandidateKeepsRows ==
    ASSUME TrainInv, NEW i \in 0 .. MaxCandidates - 1, TakeCandidate(i)
    PROVE  OutputsInv' /\ CandidatesInv' /\ EmittedInv'
<1> DEFINE r == [path |-> IF opts.output THEN Path(i) ELSE NULL,
                 compressor_bytes |-> candidates[i + 1],
                 measured |-> Measurement(i)]
           k == i + 1
<1>1. /\ pc = "write" /\ i = Len(outputs) /\ i < Len(candidates)
      /\ outputs' = Append(outputs, r)
      /\ candidates' = [candidates EXCEPT ![k] = Moved]
      /\ pc' = IF opts.output THEN "open" ELSE "write"
      /\ UNCHANGED << run, opts, emitted >> /\ emitted = << >>
  BY DEF TakeCandidate, boundVars, TrainInv, EmittedInv
<1>2. /\ outputs \in Seq(OutputRows) /\ \A j \in 1 .. Len(outputs) : outputs[j] = RowOf(j)
      /\ candidates \in Seq(Bytes \cup {Moved}) /\ Len(candidates) <= MaxCandidates
      /\ \A j \in Len(outputs) + 1 .. Len(candidates) : candidates[j] = << run, j - 1 >>
      /\ opts.pareto_frontier \/ Len(candidates) = 1
  BY <1>1 DEF TrainInv, OutputsInv, CandidatesInv
<1>3. MaxCandidates \in Nat /\ Len(candidates) \in Nat /\ i \in Nat
  BY <1>2, TrainAssumption
<1>4. /\ k \in 1 .. MaxCandidates /\ k \in 1 .. Len(candidates) /\ k - 1 = i
      /\ k \in Len(outputs) + 1 .. Len(candidates) /\ (opts.pareto_frontier \/ k = 1)
      /\ k = i + 1
  BY <1>1, <1>2, <1>3
<1> HIDE DEF k
<1>5. candidates[k] = << run, k - 1 >>
  BY <1>2, <1>4
<1>6. r = RowOf(k)
  <2>1. candidates[i + 1] = << run, k - 1 >>
    BY <1>4, <1>5
  <2>2. Measurement(i) = IF do_benchmark THEN << run, k - 1 >> ELSE NULL
    BY <2>1 DEF Measurement
  <2>3. Path(i) = Path(k - 1)
    BY <1>4
  <2> QED  BY <2>1, <2>2, <2>3 DEF RowOf
<1> HIDE DEF r
<1>7. r \in OutputRows
  <2>1. run > 0
    BY <1>1 DEF TrainInv, BindInv
  <2> QED  BY <1>4, <1>6, <2>1, CandidateHasPlaces DEF TrainInv
<1>8. /\ outputs' \in Seq(OutputRows) /\ Len(outputs') = k
      /\ outputs'[k] = r /\ \A j \in 1 .. Len(outputs) : outputs'[j] = outputs[j]
  <2>1. Len(outputs) + 1 = k
    BY <1>1, <1>4
  <2> QED  BY <1>1, <1>2, <1>7, <2>1, AppendProperties
<1>9. /\ candidates' \in Seq(Bytes \cup {Moved}) /\ Len(candidates') = Len(candidates)
      /\ \A j \in k + 1 .. Len(candidates) : candidates'[j] = candidates[j]
  <2>1. k \in Int /\ DOMAIN candidates = 1 .. Len(candidates)
    BY <1>2, <1>4
  <2> QED  BY <1>1, <1>2, <1>4, <2>1
<1>10. \A j : RowOf(j)' = RowOf(j)
  BY <1>1 DEF RowOf, Path, do_benchmark
<1>11. OutputsInv'
  <2>1. \A j \in 1 .. k : outputs'[j] = RowOf(j)
    <3>1. 1 .. k = 1 .. Len(outputs) \cup {k}
      BY <1>1, <1>3, <1>4
    <3> QED  BY <1>2, <1>6, <1>8, <3>1
  <2>2. Len(outputs') > 0 /\ Len(outputs') <= MaxCandidates /\ (opts.pareto_frontier \/ k <= 1)
    BY <1>3, <1>4, <1>8
  <2> QED  BY <1>1, <1>4, <1>8, <1>10, <2>1, <2>2 DEF OutputsInv
<1>12. CandidatesInv'
  <2>1. \A j \in k + 1 .. Len(candidates) : candidates'[j] = << run, j - 1 >>
    <3>1. \A j \in k + 1 .. Len(candidates) : j \in Len(outputs) + 1 .. Len(candidates)
      BY <1>1, <1>3, <1>4
    <3> QED  BY <1>2, <1>9, <3>1
  <2> QED  BY <1>1, <1>2, <1>4, <1>8, <1>9, <2>1 DEF CandidatesInv
<1>13. EmittedInv'
  <2>1. emitted' \in Seq(Rows) /\ Len(emitted') = 0
    <3>1. emitted' \in Seq(Rows)
      BY <1>1
    <3> QED  BY <1>1, <3>1
  <2> QED  BY <1>1, <1>4, <1>8, <2>1 DEF EmittedInv
<1> QED  BY <1>11, <1>12, <1>13

\* The bind returns: the candidates are gone, the rows stay.
LEMMA ReturnKeepsRows ==
    ASSUME TrainInv, TrainReturns
    PROVE  OutputsInv' /\ CandidatesInv' /\ EmittedInv'
<1>1. /\ pc = "write" /\ pc' = "returned" /\ candidates' = << >>
      /\ UNCHANGED << outputs, emitted, run, opts >>
  BY DEF TrainReturns, boundVars
<1>2. \A k : RowOf(k)' = RowOf(k) /\ Row(k)' = Row(k)
  BY <1>1 DEF RowOf, Row, Path, do_benchmark
<1>3. OutputsInv'
  BY <1>1, <1>2 DEF TrainInv, OutputsInv
<1>4. CandidatesInv'
  <2>1. candidates' \in Seq(Bytes \cup {Moved})
    BY <1>1
  <2> QED  BY <1>1, <2>1 DEF CandidatesInv
<1>5. EmittedInv'
  BY <1>1, <1>2 DEF TrainInv, EmittedInv
<1> QED  BY <1>3, <1>4, <1>5

\* A new execution starts from the first row.
LEMMA InitGlobalKeepsRows ==
    ASSUME TrainInv, OpenzlTrainInitGlobal
    PROVE  OutputsInv' /\ CandidatesInv' /\ EmittedInv'
<1>1. /\ pc' = pc /\ pc = "returned" /\ emitted' = << >>
      /\ UNCHANGED << outputs, candidates, run, opts >>
  BY DEF OpenzlTrainInitGlobal, boundVars
<1>2. \A k : RowOf(k)' = RowOf(k)
  BY <1>1 DEF RowOf, Path, do_benchmark
<1>3. OutputsInv'
  BY <1>1, <1>2 DEF TrainInv, OutputsInv
<1>4. CandidatesInv'
  BY <1>1 DEF TrainInv, CandidatesInv
<1>5. EmittedInv'
  <2>1. emitted' \in Seq(Rows) /\ Len(emitted') = 0
    <3>1. emitted' \in Seq(Rows)
      BY <1>1
    <3> QED  BY <1>1, <3>1
  <2>2. Len(outputs') \in Nat
    BY <1>3 DEF OutputsInv
  <2> QED  BY <1>1, <2>1, <2>2 DEF EmittedInv
<1> QED  BY <1>3, <1>4, <1>5

\* A vector holds the rows that come next.
LEMMA FunctionKeepsRows ==
    ASSUME TrainInv, OpenzlTrainFunction
    PROVE  OutputsInv' /\ CandidatesInv' /\ EmittedInv'
<1> DEFINE count == Min({VectorSize, Len(outputs) - offset})
           more == [k \in 1 .. count |-> Row(offset + k)]
<1>1. /\ pc' = pc /\ pc = "returned" /\ emitted' = emitted \o more
      /\ UNCHANGED << outputs, candidates, run, opts >> /\ count > 0
  BY DEF OpenzlTrainFunction, boundVars
<1>2. /\ outputs \in Seq(OutputRows) /\ Len(outputs) \in Nat /\ Len(outputs) <= MaxCandidates
      /\ emitted \in Seq(Rows) /\ Len(emitted) \in Nat /\ offset = Len(emitted)
      /\ \A k \in 1 .. Len(emitted) : emitted[k] = Row(k)
      /\ MaxCandidates \in Nat
  BY TrainAssumption DEF TrainInv, OutputsInv, EmittedInv, offset
<1>3. count \in Nat /\ offset + count <= Len(outputs)
  <2> DEFINE left == Len(outputs) - offset
  <2>1. left \in Int /\ VectorSize \in Int
    BY <1>2, TrainAssumption
  <2> HIDE DEF left
  <2>2. Min({VectorSize, left}) = IF VectorSize <= left THEN VectorSize ELSE left
    BY <2>1 DEF Min
  <2>3. count = Min({VectorSize, left})
    BY DEF left
  <2> HIDE DEF count
  <2>4. count <= left /\ count \in Int
    BY <2>1, <2>2, <2>3
  <2> QED  BY <1>1, <1>2, <2>4 DEF left
<1> HIDE DEF count
<1>4. \A k \in 1 .. Len(outputs) : Row(k) \in Rows
  <2>1. ASSUME NEW k \in 1 .. Len(outputs)
        PROVE  Row(k) \in Rows
    <3>1. outputs[k] \in OutputRows
      BY <1>2
    <3>2. k - 1 \in 0 .. MaxCandidates - 1
      BY <1>2
    <3> QED  BY <3>1, <3>2 DEF Row, Rows, OutputRows
  <2> QED  BY <2>1
<1>5. /\ \A k \in 1 .. count : offset + k \in 1 .. Len(outputs)
      /\ \A k \in Len(emitted) + 1 .. Len(emitted) + count :
            k - Len(emitted) \in 1 .. count /\ offset + (k - Len(emitted)) = k
  BY <1>2, <1>3
<1>6. more \in Seq(Rows) /\ Len(more) = count /\ \A k \in 1 .. count : more[k] = Row(offset + k)
  BY <1>3, <1>4, <1>5
<1> HIDE DEF more
<1>7. /\ emitted' \in Seq(Rows) /\ Len(emitted') = Len(emitted) + count
      /\ \A k \in 1 .. Len(emitted) : emitted'[k] = emitted[k]
      /\ \A k \in Len(emitted) + 1 .. Len(emitted) + count : emitted'[k] = more[k - Len(emitted)]
  <2>1. emitted \in Seq(Rows) /\ more \in Seq(Rows) /\ Len(more) = count
    BY <1>2, <1>6
  <2>2. /\ emitted \o more \in Seq(Rows)
        /\ Len(emitted \o more) = Len(emitted) + Len(more)
        /\ \A k \in 1 .. Len(emitted) + Len(more) :
              (emitted \o more)[k] =
                 IF k <= Len(emitted) THEN emitted[k] ELSE more[k - Len(emitted)]
    BY <2>1, ConcatProperties
  <2>3. emitted' = emitted \o more
    BY <1>1
  <2> QED  BY <1>2, <1>3, <2>1, <2>2, <2>3
<1>8. \A k \in 1 .. Len(emitted') : emitted'[k] = Row(k)
  <2>1. ASSUME NEW k \in 1 .. Len(emitted')
        PROVE  emitted'[k] = Row(k)
    <3>1. CASE k \in 1 .. Len(emitted)
      BY <1>2, <1>7, <3>1
    <3>2. CASE k \in Len(emitted) + 1 .. Len(emitted) + count
      BY <1>5, <1>6, <1>7, <3>2
    <3> QED  BY <1>2, <1>3, <1>7, <3>1, <3>2
  <2> QED  BY <2>1
<1>9. \A k : RowOf(k)' = RowOf(k) /\ Row(k)' = Row(k)
  BY <1>1 DEF RowOf, Row, Path, do_benchmark
<1>10. OutputsInv'
  BY <1>1, <1>9 DEF TrainInv, OutputsInv
<1>11. CandidatesInv'
  BY <1>1 DEF TrainInv, CandidatesInv
<1>12. EmittedInv'
  BY <1>1, <1>2, <1>3, <1>7, <1>8, <1>9 DEF EmittedInv
<1> QED  BY <1>10, <1>11, <1>12

LEMMA TrainKeepsRows ==
    ASSUME TrainInv, [TrainNext]_trainVars
    PROVE  OutputsInv' /\ CandidatesInv' /\ EmittedInv'
<1> USE DEF boundVars
<1>1. OutputsInv /\ CandidatesInv /\ EmittedInv
  BY DEF TrainInv
<1>2. ASSUME NEW f \in Samples, NEW n \in Sizes \cup {NoFile}, Replace(f, n)
      PROVE  OutputsInv' /\ CandidatesInv' /\ EmittedInv'
  BY <1>1, <1>2, RowsKept DEF Replace
<1>3. ASSUME NEW o \in Options, OpenzlTrainBind(o)
      PROVE  OutputsInv' /\ CandidatesInv' /\ EmittedInv'
  <2>1. outputs' = << >> /\ emitted' = << >> /\ pc' \in {"idle", "select", "threw"}
    BY <1>3 DEF OpenzlTrainBind
  <2>2. candidates' = << >>
    BY <1>1, <1>3 DEF OpenzlTrainBind, CandidatesInv
  <2> QED  BY <2>1, <2>2, RowsCleared
<1>4. CASE SelectSamplePath \/ SelectionEnds \/ ReadSamples
  <2>1. UNCHANGED << outputs, candidates, emitted, run, opts >>
    BY <1>4 DEF SelectSamplePath, SelectionEnds, ReadSamples
  <2>2. pc' = pc \/ {pc, pc'} \subseteq {"idle", "select", "read", "search", "threw"}
    BY <1>4 DEF SelectSamplePath, Skipped, SelectionEnds, ReadSamples
  <2> QED  BY <1>1, <2>1, <2>2, RowsKept
<1>5. CASE SelectionFails \/ ReadFails \/ TrainFails
  <2>1. Throw /\ pc # "returned"
    BY <1>5 DEF SelectionFails, ReadFails, TrainFails
  <2>2. outputs' = << >> /\ candidates' = << >> /\ emitted' = << >> /\ pc' = "threw"
    BY <1>1, <2>1 DEF Throw, EmittedInv
  <2> QED  BY <2>2, RowsCleared
<1>6. CASE ProcessDies
  BY <1>6, RowsCleared DEF ProcessDies
<1>7. CASE OpenFile \/ WriteFile
  <2>1. UNCHANGED << outputs, candidates, emitted, run, opts >>
    BY <1>7 DEF OpenFile, WriteFile
  <2>2. (pc' = "fill" /\ pc = "open") \/ (pc' = "write" /\ pc = "fill")
    BY <1>7 DEF OpenFile, WriteFile
  <2> QED  BY <1>1, <2>1, <2>2, RowsKept
<1>8. CASE UNCHANGED trainVars
  BY <1>1, <1>8, RowsKept DEF trainVars
<1> QED
  BY <1>2, <1>3, <1>4, <1>5, <1>6, <1>7, <1>8, SearchKeepsRows, TakeCandidateKeepsRows,
     ReturnKeepsRows, InitGlobalKeepsRows, FunctionKeepsRows
     DEF TrainNext

-----------------------------------------------------------------------------
(* openzl_train: the types and the samples.                                *)

\* The last row, whose file is being written.
LEMMA LastRow ==
    ASSUME BindInv, OutputsInv, pc \in {"open", "fill"}
    PROVE  LET n == Len(outputs) IN
           /\ n \in 1 .. MaxCandidates
           /\ outputs[n].path = Path(n - 1) /\ Path(n - 1) \in Outputs
           /\ outputs[n].compressor_bytes = << run, n - 1 >>
           /\ << run, n - 1 >> \in Bytes
           /\ opts.output /\ (opts.pareto_frontier \/ n = 1)
<1> DEFINE n == Len(outputs)
<1>1. n \in 1 .. MaxCandidates /\ run > 0 /\ (opts.pareto_frontier \/ n = 1) /\ opts.output
  <2>1. n \in Nat /\ MaxCandidates \in Nat
    BY TrainAssumption DEF OutputsInv
  <2>2. n > 0 /\ n <= MaxCandidates /\ opts.output /\ (opts.pareto_frontier \/ n <= 1)
    BY DEF OutputsInv
  <2>3. run > 0
    BY DEF BindInv
  <2> QED  BY <2>1, <2>2, <2>3
<1>2. outputs[n] = RowOf(n)
  BY <1>1 DEF OutputsInv
<1> HIDE DEF n
<1>3. << run, n - 1 >> \in Bytes /\ Path(n - 1) \in Outputs
  BY <1>1, CandidateHasPlaces
<1>4. outputs[n].path = Path(n - 1) /\ outputs[n].compressor_bytes = << run, n - 1 >>
  BY <1>1, <1>2 DEF RowOf
<1> QED  BY <1>1, <1>3, <1>4 DEF n

LEMMA TrainKeepsBindInv ==
    ASSUME TrainInv, [TrainNext]_trainVars
    PROVE  BindInv'
<1> USE DEF boundVars
<1>1. BindInv /\ OutputsInv
  BY DEF TrainInv
<1>2. ASSUME NEW f \in Samples, NEW n \in Sizes \cup {NoFile}, Replace(f, n)
      PROVE  BindInv'
  BY <1>1, <1>2 DEF BindInv, Replace
<1>3. ASSUME NEW o \in Options, OpenzlTrainBind(o)
      PROVE  BindInv'
  <2>1. run + 1 \in 0 .. MaxStatements /\ run + 1 > 0
    BY <1>1, <1>3, TrainAssumption DEF BindInv, OpenzlTrainBind
  <2> QED  BY <1>1, <1>3, <2>1 DEF BindInv, OpenzlTrainBind
<1>4. CASE SelectSamplePath
  BY <1>1, <1>4 DEF BindInv, SelectSamplePath, Skipped
<1>5. CASE SelectionEnds \/ ReadSamples \/ TrainReturns
  BY <1>1, <1>5 DEF BindInv, SelectionEnds, ReadSamples, TrainReturns
<1>6. CASE SelectionFails \/ ReadFails \/ TrainFails
  <2>1. Throw /\ pc # "idle"
    BY <1>6 DEF SelectionFails, ReadFails, TrainFails
  <2> QED  BY <1>1, <2>1 DEF BindInv, Throw
<1>7. ASSUME NEW n \in 1 .. MaxCandidates, Search(n)
      PROVE  BindInv'
  BY <1>1, <1>7 DEF BindInv, Search
<1>8. ASSUME NEW i \in 0 .. MaxCandidates - 1, TakeCandidate(i)
      PROVE  BindInv'
  BY <1>1, <1>8 DEF BindInv, TakeCandidate
<1>9. CASE OpenFile
  <2>1. pc = "open" /\ pc' = "fill" /\ UNCHANGED << size, run, opts, before >>
    BY <1>9 DEF OpenFile
  <2>2. files' \in Held
    <3>1. PICK p \in Outputs : files' = [files EXCEPT ![p] = Part]
      BY <1>1, <1>9, <2>1, LastRow DEF OpenFile
    <3> QED  BY <1>1, <3>1 DEF BindInv, Held
  <2> QED  BY <1>1, <2>1, <2>2 DEF BindInv
<1>10. CASE WriteFile
  <2>1. pc = "fill" /\ pc' = "write" /\ UNCHANGED << size, run, opts, before >>
    BY <1>10 DEF WriteFile
  <2>2. files' \in Held
    <3> DEFINE out == outputs[Len(outputs)]
    <3>1. out.path \in Outputs /\ out.compressor_bytes \in Bytes
      BY <1>1, <2>1, LastRow
    <3>2. PICK b \in {out.compressor_bytes} \cup (IF TailCanBeLost THEN {Part} ELSE {}) :
             files' = [files EXCEPT ![out.path] = b]
      BY <1>10 DEF WriteFile
    <3> HIDE DEF out
    <3>3. b \in Bytes \cup {Part}
      BY <3>1, <3>2
    <3> QED  BY <1>1, <3>1, <3>2, <3>3 DEF BindInv, Held
  <2> QED  BY <1>1, <2>1, <2>2 DEF BindInv
<1>11. CASE OpenzlTrainInitGlobal \/ OpenzlTrainFunction \/ UNCHANGED trainVars
  BY <1>1, <1>11 DEF BindInv, OpenzlTrainInitGlobal, OpenzlTrainFunction, trainVars
<1>12. CASE ProcessDies
  BY <1>1, <1>12 DEF BindInv, ProcessDies
<1> QED
  BY <1>2, <1>3, <1>4, <1>5, <1>6, <1>7, <1>8, <1>9, <1>10, <1>11, <1>12 DEF TrainNext

LEMMA TrainInitHasInv ==
    ASSUME TrainInit
    PROVE  TrainInv
<1>1. BindInv
  <2>1. files \in Held
    BY DEF TrainInit, Held
  <2> QED  BY <2>1, TrainAssumption DEF TrainInit, BindInv
<1>2. SelectInv
  <2>1. sized \in Seq(Sizes \cup {SizeMax}) /\ selected \subseteq DOMAIN sized /\ Len(sized) = 0
    <3>1. sized \in Seq(Sizes \cup {SizeMax})
      BY DEF TrainInit
    <3> QED  BY <3>1 DEF TrainInit
  <2>2. Adds(sized, selected) /\ SumOf(sized, selected) = 0
    BY <2>1, SumOfNone
  <2>3. total \in Nat
    BY <2>2 DEF total
  <2>4. pc = "idle" /\ sized = << >> /\ selected = {}
    BY DEF TrainInit
  <2> QED  BY <2>1, <2>2, <2>3, <2>4 DEF SelectInv, SelectionIsMaximalPrefix
<1>3. /\ outputs \in Seq(OutputRows) /\ candidates \in Seq(Bytes \cup {Moved})
      /\ emitted \in Seq(Rows)
  BY DEF TrainInit
<1>4. /\ Len(outputs) = 0 /\ Len(emitted) = 0 /\ MaxCandidates \in Nat /\ pc = "idle"
  BY TrainAssumption DEF TrainInit
<1>5. outputs = << >> /\ candidates = << >> /\ emitted = << >>
  BY DEF TrainInit
<1>6. OutputsInv
  BY <1>3, <1>4, <1>5 DEF OutputsInv
<1>7. CandidatesInv
  BY <1>3, <1>4, <1>5 DEF CandidatesInv
<1>8. EmittedInv
  BY <1>3, <1>4, <1>5 DEF EmittedInv
<1> QED  BY <1>1, <1>2, <1>6, <1>7, <1>8 DEF TrainInv

LEMMA TrainInvHolds == TrainSpec => []TrainInv
<1>1. TrainInit => TrainInv
  BY TrainInitHasInv
<1>2. TrainInv /\ [TrainNext]_trainVars => TrainInv'
  <2> SUFFICES ASSUME TrainInv, [TrainNext]_trainVars
               PROVE  TrainInv'
    OBVIOUS
  <2>1. BindInv'
    BY TrainKeepsBindInv
  <2>2. SelectInv'
    BY TrainKeepsSelectInv DEF TrainInv
  <2>3. OutputsInv' /\ CandidatesInv' /\ EmittedInv'
    BY TrainKeepsRows
  <2> QED  BY <2>1, <2>2, <2>3 DEF TrainInv
<1> QED  BY <1>1, <1>2, PTL DEF TrainSpec

\* The files hold whole candidates or a part of one, and what a bind has
\* worked with is gone when it ends, by an error and a crash too, for any
\* samples, parameters and candidates.
THEOREM TrainTypes == TrainSpec => []TrainTypeOK
<1>1. TrainInv => TrainTypeOK
  <2> SUFFICES ASSUME TrainInv
               PROVE  TrainTypeOK
    OBVIOUS
  <2> USE DEF TrainInv
  <2>1. /\ size \in [Samples -> Sizes \cup {NoFile}]
        /\ files \in [Outputs -> Bytes \cup {Part, NoFile}]
        /\ run \in 0 .. MaxStatements /\ opts \in Options
        /\ pc \in {"idle", "select", "read", "search", "write", "open", "fill",
                   "returned", "threw"}
    BY DEF BindInv, Held
  <2>2. /\ sized \in Seq(Sizes \cup {SizeMax}) /\ selected \subseteq DOMAIN sized
        /\ pc \notin {"select", "read"} => sized = << >>
    BY DEF SelectInv
  <2>3. /\ candidates \in Seq(Bytes \cup {Moved})
        /\ pc \notin {"write", "open", "fill"} => candidates = << >>
    BY DEF CandidatesInv
  <2>4. Len(outputs) <= MaxCandidates /\ Len(emitted) <= Len(outputs)
    BY DEF OutputsInv, EmittedInv
  <2> QED  BY <2>1, <2>2, <2>3, <2>4 DEF TrainTypeOK
<1> QED  BY <1>1, TrainInvHolds, PTL

\* The samples that are read are the first that fit the limits, whatever
\* other programs do to them while they are looked at, for any number of
\* samples of any size and any limits.
THEOREM TrainSelectsByItsLimits == TrainSpec => []SelectionIsMaximalPrefix
<1>1. TrainInv => SelectionIsMaximalPrefix
  BY DEF TrainInv, SelectInv
<1> QED  BY <1>1, TrainInvHolds, PTL

-----------------------------------------------------------------------------
(* openzl_train: the files.                                                *)

\* Before the first candidate the files are what they were.
LEMMA NothingWritten ==
    ASSUME BindInv
    PROVE  Written(0) = before
<1>1. 0 .. 0 - 1 = {} /\ before = [p \in Outputs |-> before[p]]
  BY DEF BindInv, Held
<1> QED  BY <1>1 DEF Written

\* Without output_path they stay so.
LEMMA NoneWritten ==
    ASSUME ~ opts.output, NEW n, NEW m
    PROVE  Written(n) = Written(m)
BY DEF Written

\* One more candidate changes one more file.
LEMMA NextWritten ==
    ASSUME BindInv, NEW n \in 1 .. MaxCandidates, opts.output,
           opts.pareto_frontier \/ n = 1, Path(n - 1) \in Outputs
    PROVE  Written(n) = [Written(n - 1) EXCEPT ![Path(n - 1)] = << run, n - 1 >>]
<1> DEFINE New(p, k) == \E i \in 0 .. k - 1 : Path(i) = p
           Last(p) == << run, IF p = Single THEN 0 ELSE p >>
<1>1. n \in Nat /\ n - 1 \in Nat
  BY TrainAssumption
<1>2. 0 .. n - 1 = 0 .. (n - 1) - 1 \cup {n - 1}
  BY <1>1
<1>3. Last(Path(n - 1)) = << run, n - 1 >>
  BY <1>1 DEF Path, Single
<1>4. \A p \in Outputs : New(p, n) <=> New(p, n - 1) \/ p = Path(n - 1)
  BY <1>2
<1>5. \A k : Written(k) = [p \in Outputs |-> IF New(p, k) THEN Last(p) ELSE before[p]]
  BY DEF Written
<1> HIDE DEF New, Last
<1> DEFINE q == Path(n - 1)
<1> HIDE DEF q
<1>6. q \in Outputs /\ Last(q) = << run, n - 1 >>
      /\ \A p \in Outputs : New(p, n) <=> New(p, n - 1) \/ p = q
  BY <1>3, <1>4 DEF q
<1>7. [p \in Outputs |-> IF New(p, n) THEN Last(p) ELSE before[p]] =
      [[p \in Outputs |-> IF New(p, n - 1) THEN Last(p) ELSE before[p]]
          EXCEPT ![q] = << run, n - 1 >>]
  BY <1>6
<1> QED  BY <1>5, <1>7 DEF q

\* What a file of the run holds at its end.
LEMMA WrittenHolds ==
    ASSUME NEW n \in 0 .. MaxCandidates, NEW k \in 1 .. n, opts.output,
           opts.pareto_frontier \/ k = 1, Path(k - 1) \in Outputs
    PROVE  Written(n)[Path(k - 1)] = << run, k - 1 >>
<1>1. k - 1 \in 0 .. n - 1 /\ k \in Nat /\ n \in Nat
  BY TrainAssumption
<1>2. << run, IF Path(k - 1) = Single THEN 0 ELSE Path(k - 1) >> = << run, k - 1 >>
  BY <1>1 DEF Path, Single
<1>3. \E i \in 0 .. n - 1 : Path(i) = Path(k - 1)
  BY <1>1
<1> QED  BY <1>2, <1>3 DEF Written

\* Nothing of it changes while the statement and the files stay.
LEMMA WrittenIsSame ==
    ASSUME UNCHANGED << run, opts, before >>
    PROVE  /\ \A n : Written(n)' = Written(n)
           /\ \A i : Path(i)' = Path(i)
BY DEF Written, Path

LEMMA FilesStillFollow ==
    ASSUME FilesFollowCandidates, UNCHANGED << files, run, opts, before >>,
           \/ pc' # "returned"
           \/ pc = "returned" /\ UNCHANGED outputs
    PROVE  FilesFollowCandidates'
<1>1. /\ \A n : Written(n)' = Written(n)
      /\ \A i : Path(i)' = Path(i)
  BY WrittenIsSame
<1> QED  BY <1>1 DEF FilesFollowCandidates

\* Steps that touch neither the files nor the rows.
LEMMA FilesKept ==
    ASSUME TrainInv, FilesInv, UNCHANGED << files, outputs, run, opts, before >>,
           \/ pc' = pc
           \/ {pc, pc'} \subseteq {"select", "read", "search"}
    PROVE  FilesInv'
<1>1. /\ \A n : Written(n)' = Written(n)
      /\ \A i : Path(i)' = Path(i)
  BY WrittenIsSame
<1>2. FilesFollowCandidates'
  BY FilesStillFollow DEF FilesInv
<1> QED  BY <1>1, <1>2 DEF FilesInv

\* Steps that end a bind at any place leave the files as they are.
LEMMA FilesLeft ==
    ASSUME FilesInv, UNCHANGED << files, run, opts, before >>, pc' \in {"idle", "threw"}
    PROVE  FilesInv'
<1>1. FilesFollowCandidates'
  BY FilesStillFollow DEF FilesInv
<1> QED  BY <1>1 DEF FilesInv

LEMMA BindFollows ==
    ASSUME BindInv, NEW o \in Options, OpenzlTrainBind(o)
    PROVE  FilesInv'
<1>1. files' = before' /\ before' = files /\ pc' \in {"select", "threw"}
  BY DEF OpenzlTrainBind
<1>2. files' = Written(0)'
  <2>1. 0 .. 0 - 1 = {} /\ files = [p \in Outputs |-> files[p]]
    BY DEF BindInv, Held
  <2> QED  BY <1>1, <2>1 DEF Written
<1>3. FilesFollowCandidates'
  <2>1. 0 \in 0 .. MaxCandidates
    BY TrainAssumption
  <2> QED  BY <1>1, <1>2, <2>1 DEF FilesFollowCandidates
<1> QED  BY <1>1, <1>2, <1>3 DEF FilesInv

LEMMA SearchFollows ==
    ASSUME TrainInv, FilesInv, NEW n \in 1 .. MaxCandidates, Search(n)
    PROVE  FilesInv'
<1>1. /\ pc = "search" /\ pc' = "write"
      /\ UNCHANGED << files, outputs, run, opts, before >>
  BY DEF Search, boundVars
<1>2. Len(outputs) = 0
  BY <1>1 DEF TrainInv, OutputsInv
<1>3. files = Written(0)
  BY <1>1 DEF FilesInv
<1>4. /\ \A k : Written(k)' = Written(k)
      /\ \A i : Path(i)' = Path(i)
  BY <1>1, WrittenIsSame
<1>5. FilesFollowCandidates'
  BY <1>1, FilesStillFollow DEF FilesInv
<1> QED  BY <1>1, <1>2, <1>3, <1>4, <1>5 DEF FilesInv

\* The file of the next row is opened and filled after the row is made.
LEMMA TakeFollows ==
    ASSUME TrainInv, FilesInv, NEW i \in 0 .. MaxCandidates - 1, TakeCandidate(i)
    PROVE  FilesInv'
<1>1. /\ pc = "write" /\ pc' = (IF opts.output THEN "open" ELSE "write")
      /\ UNCHANGED << files, run, opts, before >>
  BY DEF TakeCandidate, boundVars
<1>2. PICK n \in Nat : n = Len(outputs) /\ Len(outputs') = n + 1
  BY DEF TakeCandidate, TrainInv, OutputsInv
<1>3. files = Written(n)
  BY <1>1, <1>2 DEF FilesInv
<1>4. \A k : Written(k)' = Written(k)
  BY <1>1, WrittenIsSame
<1>5. FilesFollowCandidates'
  BY <1>1, FilesStillFollow DEF FilesInv
<1>6. CASE opts.output
  <2>1. pc' = "open" /\ files' = Written(n)' /\ n = Len(outputs') - 1
    BY <1>1, <1>2, <1>3, <1>4, <1>6
  <2> QED  BY <1>5, <2>1 DEF FilesInv
<1>7. CASE ~ opts.output
  <2>1. Written(n) = Written(n + 1)
    BY <1>7, NoneWritten
  <2>2. pc' = "write" /\ files' = Written(n + 1)' /\ n + 1 = Len(outputs')
    BY <1>1, <1>2, <1>3, <1>4, <1>7, <2>1
  <2> QED  BY <1>5, <2>2 DEF FilesInv
<1> QED  BY <1>6, <1>7

LEMMA OpenFollows ==
    ASSUME TrainInv, FilesInv, OpenFile
    PROVE  FilesInv'
<1>1. pc = "open" /\ pc' = "fill" /\ UNCHANGED << outputs, run, opts, before >>
  BY DEF OpenFile, boundVars
<1>2. /\ Len(outputs) \in 1 .. MaxCandidates /\ opts.output
      /\ outputs[Len(outputs)].path = Path(Len(outputs) - 1)
  BY <1>1, LastRow DEF TrainInv
<1>3. PICK k \in 0 .. MaxCandidates - 1 : k = Len(outputs) - 1
  BY <1>2, TrainAssumption
<1>4. files = Written(k)
  BY <1>1, <1>3 DEF FilesInv
<1>5. files' = [Written(k) EXCEPT ![Path(k)] = Part]
  BY <1>2, <1>3, <1>4 DEF OpenFile
<1>6. Written(k)' = Written(k) /\ Path(k)' = Path(k)
  BY <1>1, WrittenIsSame
<1>7. FilesFollowCandidates'
  <2>1. k \in 0 .. MaxCandidates /\ k < MaxCandidates
    BY <1>3, TrainAssumption
  <2> QED  BY <1>1, <1>2, <1>5, <1>6, <2>1 DEF FilesFollowCandidates
<1> QED  BY <1>1, <1>3, <1>5, <1>6, <1>7 DEF FilesInv

\* Where no byte is lost unnoticed, the file then holds its candidate.
LEMMA WriteFollows ==
    ASSUME ~ TailCanBeLost, TrainInv, FilesInv, WriteFile
    PROVE  FilesInv'
<1>1. /\ pc = "fill" /\ pc' = "write" /\ UNCHANGED << outputs, run, opts, before >>
  BY DEF WriteFile, boundVars
<1>2. /\ Len(outputs) \in 1 .. MaxCandidates
      /\ outputs[Len(outputs)].path = Path(Len(outputs) - 1)
      /\ outputs[Len(outputs)].compressor_bytes = << run, Len(outputs) - 1 >>
      /\ Path(Len(outputs) - 1) \in Outputs
      /\ opts.output /\ (opts.pareto_frontier \/ Len(outputs) = 1)
  BY <1>1, LastRow DEF TrainInv
<1>3. PICK n \in 1 .. MaxCandidates : n = Len(outputs)
  BY <1>2
<1>4. files = [Written(n - 1) EXCEPT ![Path(n - 1)] = Part]
  BY <1>1, <1>3 DEF FilesInv
<1>5. files' = [files EXCEPT ![Path(n - 1)] = << run, n - 1 >>]
  <2>1. files' = [files EXCEPT ![outputs[n].path] = outputs[n].compressor_bytes]
    BY <1>3 DEF WriteFile
  <2>2. outputs[n].path = Path(n - 1) /\ outputs[n].compressor_bytes = << run, n - 1 >>
    BY <1>2, <1>3
  <2> QED  BY <2>1, <2>2
<1>6. Written(n) = [Written(n - 1) EXCEPT ![Path(n - 1)] = << run, n - 1 >>]
  <2>1. opts.output /\ (opts.pareto_frontier \/ n = 1) /\ Path(n - 1) \in Outputs
    BY <1>2, <1>3
  <2> QED  BY <2>1, NextWritten DEF TrainInv
<1>7. files' = Written(n)
  <2> DEFINE w == Written(n - 1)
             p == Path(n - 1)
             b == << run, n - 1 >>
  <2>1. files' = [[w EXCEPT ![p] = Part] EXCEPT ![p] = b]
    BY <1>4, <1>5
  <2>2. Written(n) = [w EXCEPT ![p] = b]
    BY <1>6
  <2> HIDE DEF w, b, p
  <2>3. [[w EXCEPT ![p] = Part] EXCEPT ![p] = b] = [w EXCEPT ![p] = b]
    OBVIOUS
  <2> QED  BY <2>1, <2>2, <2>3
<1>8. files' = Written(n)' /\ n = Len(outputs') /\ n \in 0 .. MaxCandidates
  BY <1>1, <1>3, <1>7, WrittenIsSame
<1>9. FilesFollowCandidates'
  BY <1>1, <1>8 DEF FilesFollowCandidates
<1> QED  BY <1>1, <1>8, <1>9 DEF FilesInv

LEMMA ReturnFollows ==
    ASSUME TrainInv, FilesInv, TrainReturns
    PROVE  FilesInv'
<1>1. /\ pc = "write" /\ pc' = "returned"
      /\ UNCHANGED << files, outputs, run, opts, before >>
  BY DEF TrainReturns, boundVars
<1>2. PICK n \in 0 .. MaxCandidates : n = Len(outputs)
  <2>1. Len(outputs) \in Nat /\ Len(outputs) <= MaxCandidates /\ MaxCandidates \in Nat
    BY TrainAssumption DEF TrainInv, OutputsInv
  <2> QED  BY <2>1
<1>3. files = Written(n)
  BY <1>1, <1>2 DEF FilesInv
<1>4. files' = Written(n)' /\ n = Len(outputs')
  BY <1>1, <1>2, <1>3, WrittenIsSame
<1>5. FilesFollowCandidates'
  BY <1>1, <1>4 DEF FilesFollowCandidates
<1> QED  BY <1>1, <1>4, <1>5 DEF FilesInv

LEMMA TrainKeepsFiles ==
    ASSUME ~ TailCanBeLost, TrainInv, FilesInv, [TrainNext]_trainVars
    PROVE  FilesInv'
<1> USE DEF boundVars
<1>1. ASSUME NEW f \in Samples, NEW n \in Sizes \cup {NoFile}, Replace(f, n)
      PROVE  FilesInv'
  BY <1>1, FilesKept DEF Replace
<1>2. ASSUME NEW o \in Options, OpenzlTrainBind(o)
      PROVE  FilesInv'
  BY <1>2, BindFollows DEF TrainInv
<1>3. CASE SelectSamplePath \/ SelectionEnds \/ ReadSamples
  <2>1. UNCHANGED << files, outputs, run, opts, before >>
    BY <1>3 DEF SelectSamplePath, SelectionEnds, ReadSamples
  <2>2. {pc, pc'} \subseteq {"select", "read", "search"}
    BY <1>3 DEF SelectSamplePath, Skipped, SelectionEnds, ReadSamples
  <2> QED  BY <2>1, <2>2, FilesKept
<1>4. CASE SelectionFails \/ ReadFails \/ TrainFails \/ ProcessDies
  BY <1>4, FilesLeft DEF SelectionFails, ReadFails, TrainFails, Throw, ProcessDies
<1>5. CASE OpenzlTrainInitGlobal \/ OpenzlTrainFunction \/ UNCHANGED trainVars
  BY <1>5, FilesKept DEF OpenzlTrainInitGlobal, OpenzlTrainFunction, trainVars
<1> QED
  BY <1>1, <1>2, <1>3, <1>4, <1>5, SearchFollows, TakeFollows, OpenFollows, WriteFollows,
     ReturnFollows
     DEF TrainNext

\* The rows that were returned, and the files they name.
LEMMA RowsFollow ==
    ASSUME TrainInv, FilesInv
    PROVE  RowsFollowCandidates
<1>1. ASSUME NEW k \in DOMAIN emitted
      PROVE  /\ emitted[k].candidate_index = k - 1
             /\ emitted[k].compressor_bytes = << run, k - 1 >>
             /\ emitted[k].measured = IF do_benchmark THEN << run, k - 1 >> ELSE NULL
             /\ emitted[k].output_path # NULL =>
                   files[emitted[k].output_path] = << run, k - 1 >>
  <2>1. /\ k \in 1 .. Len(emitted) /\ emitted[k] = Row(k) /\ pc = "returned"
    BY <1>1 DEF TrainInv, EmittedInv
  <2> DEFINE n == Len(outputs)
  <2>2. /\ k \in 1 .. n /\ n \in 0 .. MaxCandidates /\ outputs[k] = RowOf(k)
        /\ (opts.pareto_frontier \/ k = 1) /\ run > 0
    <3>1. /\ n \in Nat /\ n <= MaxCandidates /\ Len(emitted) \in Nat /\ Len(emitted) <= n
          /\ MaxCandidates \in Nat /\ (opts.pareto_frontier \/ n <= 1)
      BY TrainAssumption DEF TrainInv, OutputsInv, EmittedInv
    <3>2. k \in 1 .. n /\ n \in 0 .. MaxCandidates /\ (opts.pareto_frontier \/ k = 1)
      BY <2>1, <3>1
    <3>3. outputs[k] = RowOf(k)
      BY <3>2 DEF TrainInv, OutputsInv
    <3>4. run > 0
      BY <2>1 DEF TrainInv, BindInv
    <3> QED  BY <3>2, <3>3, <3>4
  <2>3. /\ emitted[k].candidate_index = k - 1
        /\ emitted[k].compressor_bytes = << run, k - 1 >>
        /\ emitted[k].measured = IF do_benchmark THEN << run, k - 1 >> ELSE NULL
        /\ emitted[k].output_path = IF opts.output THEN Path(k - 1) ELSE NULL
    BY <2>1, <2>2 DEF Row, RowOf
  <2>4. files = Written(n)
    BY <2>1 DEF FilesInv
  <2> HIDE DEF n
  <2>5. ASSUME opts.output
        PROVE  files[Path(k - 1)] = << run, k - 1 >>
    <3>1. k \in 1 .. MaxCandidates
      BY <2>2, TrainAssumption
    <3>2. Path(k - 1) \in Outputs
      BY <2>2, <3>1, CandidateHasPlaces DEF TrainInv
    <3> QED  BY <2>2, <2>4, <2>5, <3>2, WrittenHolds
  <2> QED  BY <2>3, <2>5
<1> QED  BY <1>1 DEF RowsFollowCandidates

\* Where no byte is lost unnoticed, the files change in the order of the
\* candidates wherever a run stops, and the rows of every execution tell of
\* the candidates and of what the files hold, for any number of candidates,
\* statements and rows in a vector.
THEOREM TrainDelivers ==
    ASSUME ~ TailCanBeLost
    PROVE  TrainSpec => []CandidatesAreDelivered
<1>1. TrainInit => FilesInv
  <2> SUFFICES ASSUME TrainInit
               PROVE  FilesInv
    OBVIOUS
  <2>1. files = Written(0) /\ pc = "idle"
    BY TrainInitHasInv, NothingWritten DEF TrainInit, TrainInv
  <2>2. 0 \in 0 .. MaxCandidates
    BY TrainAssumption
  <2> QED  BY <2>1, <2>2 DEF FilesInv, FilesFollowCandidates
<1>2. TrainInv /\ FilesInv /\ [TrainNext]_trainVars => FilesInv'
  BY TrainKeepsFiles
<1>3. TrainInv /\ FilesInv => CandidatesAreDelivered
  BY RowsFollow DEF FilesInv, CandidatesAreDelivered
<1> QED  BY <1>1, <1>2, <1>3, TrainInvHolds, PTL DEF TrainSpec

-----------------------------------------------------------------------------
(* The packing script.                                                     *)

Listed == {"parquet", "ex-parquet"}

\* While pack_one works on a file, its row names the parquet file or is gone:
\* so what it does to the archive hurts nobody.
TasksInv ==
    \A f \in Files :
        /\ task[f] \in {"queued", "copying", "verifying", "measuring", "packed"} =>
              catalog[f] \in Listed
        /\ task[f] \in {"measuring", "packed"} => archive[f] = "same"
        /\ main \in {"ended", "done"} =>
              task[f] \in {"none", "failed", "packed", "taken"}

\* What the main thread has in its hands was verified before it is named, and
\* is not named any more when it is removed.
CurrentInv ==
    /\ main = "updating" =>
          /\ catalog[current] \in Listed
          /\ archive[current] = "same"
          /\ task[current] = "taken"
    /\ main = "removing" =>
          /\ catalog[current] \in {"archive", "ex-archive", "ex-parquet"}
          /\ task[current] = "taken"

\* DoneIsTrue, from the first result of a run on.
ReportInv ==
    main \in {"collecting", "updating", "removing", "done"} =>
        \A f \in Files \ {current} : task[f] = "taken" /\ f \notin failed =>
            /\ catalog[f] \in {"archive", "ex-archive", "ex-parquet"}
            /\ f \notin parquet

PackInv == TypeOK /\ CatalogNamesItsRows /\ TasksInv /\ CurrentInv /\ ReportInv

\* Before anything has run.
LEMMA InitPackInv == Init => PackInv
  BY PackAssumption
     DEF Init, PackInv, TypeOK, CatalogNamesItsRows, TasksInv, CurrentInv,
         ReportInv, Busy, Listed

\* DuckLake adds and drops rows at any time, and cleans up only what a
\* dropped row named.
LEMMA OthersPreserve ==
    ASSUME PackInv, NEW f \in Files, AddFile(f) \/ DropRow(f) \/ CleanUp(f)
    PROVE  PackInv'
  <1>1. CASE AddFile(f)
    BY <1>1, PackAssumption
       DEF AddFile, PackInv, TypeOK, CatalogNamesItsRows, TasksInv, CurrentInv,
           ReportInv, Busy, Listed, script
  <1>2. CASE DropRow(f)
    BY <1>2, PackAssumption
       DEF DropRow, PackInv, TypeOK, CatalogNamesItsRows, TasksInv, CurrentInv,
           ReportInv, Busy, Listed, script
  <1>3. CASE CleanUp(f)
    BY <1>3, PackAssumption
       DEF CleanUp, PackInv, TypeOK, CatalogNamesItsRows, TasksInv, CurrentInv,
           ReportInv, Busy, Listed, script
  <1> QED BY <1>1, <1>2, <1>3

\* A worker touches the archive of a file whose row does not name it.
LEMMA TaskPreserves ==
    ASSUME PackInv, NEW f \in Files, pack_one(f)
    PROVE  PackInv'
  <1> USE PackAssumption
          DEF PackInv, TypeOK, CatalogNamesItsRows, TasksInv, CurrentInv,
              ReportInv, Busy, Listed, Goto
  <1>1. CASE FieldIds(f)    BY <1>1 DEF FieldIds
  <1>2. CASE CopyPart(f)    BY <1>2 DEF CopyPart
  <1>3. CASE Copied(f)      BY <1>3 DEF Copied
  <1>4. CASE Verified(f)    BY <1>4 DEF Verified
  <1>5. CASE Differs(f)     BY <1>5 DEF Differs
  <1>6. CASE Measured(f)    BY <1>6 DEF Measured
  <1>7. CASE PackFails(f)   BY <1>7 DEF PackFails
  <1> QED BY <1>1, <1>2, <1>3, <1>4, <1>5, <1>6, <1>7 DEF pack_one

\* The main thread repoints a row before it removes the file the row named.
LEMMA MainPreserves ==
    ASSUME PackInv, Main
    PROVE  PackInv'
  <1> USE PackAssumption
          DEF PackInv, TypeOK, CatalogNamesItsRows, TasksInv, CurrentInv,
              ReportInv, Busy, Listed, store
  <1>1. ASSUME NEW f \in Files, CountFailed(f)
        PROVE  PackInv'
    BY <1>1 DEF CountFailed
  <1>2. ASSUME NEW f \in Files, TakeResult(f)
        PROVE  PackInv'
    BY <1>2 DEF TakeResult
  <1>3. CASE Update         BY <1>3 DEF Update, Repointed
  <1>4. CASE RemoveParquet  BY <1>4 DEF RemoveParquet
  <1>5. CASE MainFails      BY <1>5 DEF MainFails, Repointed
  <1>6. CASE Leave          BY <1>6 DEF Leave
  <1>7. CASE Done           BY <1>7 DEF Done
  <1> QED BY <1>1, <1>2, <1>3, <1>4, <1>5, <1>6, <1>7 DEF Main

\* PackInv is inductive.
LEMMA PackInvStep == PackInv /\ [Next]_vars => PackInv'
  <1> SUFFICES ASSUME PackInv, [Next]_vars PROVE PackInv'
    OBVIOUS
  <1>1. CASE Start
    BY <1>1, PackAssumption
       DEF Start, PackInv, TypeOK, CatalogNamesItsRows, TasksInv, CurrentInv,
           ReportInv, Busy, Listed, store
  <1>2. CASE Crash
    BY <1>2, PackAssumption
       DEF Crash, PackInv, TypeOK, CatalogNamesItsRows, TasksInv, CurrentInv,
           ReportInv, Busy, Listed, store
  <1>3. CASE UNCHANGED vars
    BY <1>3
       DEF vars, store, script, PackInv, TypeOK, CatalogNamesItsRows, TasksInv,
           CurrentInv, ReportInv, Busy, Listed
  <1> QED BY <1>1, <1>2, <1>3, OthersPreserve, TaskPreserves, MainPreserves DEF Next

\* The invariant of every behaviour of the script.
LEMMA PackInvariant == Spec => []PackInv
  BY InitPackInv, PackInvStep, PTL DEF Spec

\* The main thread and its tasks are where each other say.
THEOREM PackTypeOK == Spec => []TypeOK
  BY PackInvariant, PTL DEF PackInv

\* No failure, crash or rerun makes the catalog name a file that is missing,
\* cut short or different (main, pack_one).
THEOREM PackCatalogNamesItsRows == Spec => []CatalogNamesItsRows
  BY PackInvariant, PTL DEF PackInv

\* What the summary does not call failed is packed, and its parquet file gone.
THEOREM PackDoneIsTrue == Spec => []DoneIsTrue
  <1>1. PackInv => DoneIsTrue
    BY PackAssumption DEF PackInv, TypeOK, ReportInv, DoneIsTrue
  <1> QED BY <1>1, PackInvariant, PTL
=============================================================================
