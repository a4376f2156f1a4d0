-------------------------- MODULE ColdStart_proofs --------------------------
(***************************************************************************)
(* For any number of ranks, experts, epochs, batches and launches: the     *)
(* ranks meet in the same collectives with the same version of the         *)
(* weights, a checkpoint holds the whole windows before it, and the        *)
(* schedule of the learning rate is long enough.                           *)
(***************************************************************************)
EXTENDS ColdStart, TLAPS

P == PerEpoch(0)

\* What rank state L is once it has gone on to its next collective, or is done.
AtForward(L) ==
  [L EXCEPT !.at = "backward", !.op = Op("forward", Experts), !.ran = Experts]
AtEpoch(L) ==
  IF L.epoch + 1 < Epochs THEN AtForward([L EXCEPT !.at = "forward", !.epoch = @ + 1])
  ELSE [L EXCEPT !.at = "done"]
AtSave(L) ==
  IF Saves(L.epoch) THEN [L EXCEPT !.at = "write", !.op = Op("params", {})]
  ELSE AtEpoch([L EXCEPT !.at = "epoch"])
AtEval(L) ==
  IF L.batch < EvalBatches THEN [L EXCEPT !.op = Op("forward", Experts), !.batch = @ + 1]
  ELSE [L EXCEPT !.at = "save", !.op = Op("eval loss", {}), !.batch = 0,
                 !.training = TRUE, !.forced = FALSE]
AtBoundary(L) ==
  IF Evaluates(L.epoch)
  THEN AtEval([L EXCEPT !.at = "eval", !.training = FALSE, !.forced = TRUE])
  ELSE AtSave([L EXCEPT !.at = "save"])
AtNext(L) ==
  IF L.batch + 1 < P THEN AtForward([L EXCEPT !.at = "forward", !.batch = @ + 1])
  ELSE AtBoundary([L EXCEPT !.at = "boundary", !.batch = 0])
AtLog(L) ==
  IF Boundary(L.micros) THEN [L EXCEPT !.at = "next", !.op = Op("loss", {})]
  ELSE AtNext([L EXCEPT !.at = "next"])
AtStep(L) ==
  IF Boundary(L.micros)
  THEN [L EXCEPT !.at = "log", !.op = Op("step", {}), !.master = @ + 1,
                 !.steps = L.master + 1, !.micros = @ + 1]
  ELSE AtLog([L EXCEPT !.at = "log", !.micros = @ + 1])
AtNorms(L) ==
  IF Boundary(L.micros) THEN [L EXCEPT !.at = "step", !.op = Op("norms", {})]
  ELSE AtStep([L EXCEPT !.at = "step"])

Ahead(L, st) ==
  CASE L.op # None        -> L
    [] L.op = None /\ L.at = "load"     -> [L EXCEPT !.at = "loaded", !.op = Op("load", {})]
    [] L.op = None /\ L.at = "loaded"   -> AtForward([L EXCEPT !.at = "forward", !.steps = st])
    [] L.op = None /\ L.at = "forward"  -> AtForward(L)
    [] L.op = None /\ L.at = "backward" -> [L EXCEPT !.at = "norms", !.op = Op("backward", L.ran)]
    [] L.op = None /\ L.at = "norms"    -> AtNorms(L)
    [] L.op = None /\ L.at = "step"     -> AtStep(L)
    [] L.op = None /\ L.at = "log"      -> AtLog(L)
    [] L.op = None /\ L.at = "next"     -> AtNext(L)
    [] L.op = None /\ L.at = "boundary" -> AtBoundary(L)
    [] L.op = None /\ L.at = "eval"     -> AtEval(L)
    [] L.op = None /\ L.at = "save"     -> AtSave(L)
    [] L.op = None /\ L.at \in {"write", "writing"} -> AtEpoch([L EXCEPT !.at = "epoch"])
    [] L.op = None /\ L.at = "epoch"    -> AtEpoch(L)
    [] OTHER -> L

\* All ranks that live are on their way to the same collective, in the same state.
Lockstep ==
  \A r, s \in Ranks : Alive(r) /\ Alive(s) => Ahead(rank[r], start) = Ahead(rank[s], start)

\* The encoder is in evaluation, and forced to be dense, in evaluate() only.
ModeOK(L) == L.training = (L.at # "eval") /\ L.forced = (L.at = "eval")

InBatch == {"forward", "backward", "norms", "step"}
AfterStep == {"log", "next"}
AtEnd == {"boundary", "eval", "save", "write", "writing", "epoch"}

\* How far a rank is, and the optimizer steps behind its copy of the weights: what
\* a launch loads is not in them.
CountsOK(L) ==
  /\ L.at \in {"load", "loaded"} => L.micros = 0 /\ L.epoch = 0 /\ L.batch = 0
  /\ L.at \in InBatch => L.micros = L.epoch * P + L.batch /\ L.batch < P
  /\ L.at \in AfterStep => L.micros = L.epoch * P + L.batch + 1 /\ L.batch < P
  /\ L.at \in AtEnd => L.micros = (L.epoch + 1) * P
  /\ L.at \in AtEnd \ {"eval"} => L.batch = 0
  /\ L.at = "done" => L.micros = Epochs * P
  /\ L.at # "dead" => L.master = L.micros \div Gas
  /\ L.at = "dead" => L.micros = 0 /\ L.op = None
  /\ L.at = "done" => L.op = None


TrainInv ==
  /\ TypeOK
  /\ \A r \in Ranks : ModeOK(rank[r]) /\ CountsOK(rank[r])
  /\ Lockstep
  /\ NameTellsSteps

-----------------------------------------------------------------------------
(* Quotients *)

LEMMA Constants ==
  /\ NumRanks \in Nat \ {0} /\ Samples \in Nat \ {0} /\ MicroBatch \in Nat \ {0}
  /\ Gas \in Nat \ {0} /\ Epochs \in Nat \ {0} /\ MaxStepsPerEpoch \in Nat
  /\ EvalBatches \in Nat /\ MaxLaunches \in Nat \ {0} /\ 0 \in Ranks
BY ColdStartAssumption DEF Ranks

LEMMA Division ==
  ASSUME NEW a \in Nat, NEW c \in Nat \ {0}
  PROVE  /\ a \div c \in Nat /\ a % c \in 0 .. c - 1
         /\ a = c * (a \div c) + (a % c)
BY SMT

LEMMA Quotient ==
  ASSUME NEW q \in Nat, NEW c \in Nat \ {0}, NEW r \in 0 .. c - 1
  PROVE  (c * q + r) \div c = q
BY SMT

\* A window more when the next micro-batch is a boundary, else as many.
LEMMA WindowStep ==
  ASSUME NEW n \in Nat
  PROVE  /\ Boundary(n) => (n + 1) \div Gas = (n \div Gas) + 1
         /\ ~Boundary(n) => (n + 1) \div Gas = n \div Gas
         /\ n \div Gas \in Nat
<1> DEFINE q == n \div Gas
           r == n % Gas
<1>1. Gas \in Nat \ {0}
  BY Constants
<1>2. q \in Nat /\ r \in 0 .. Gas - 1 /\ n = Gas * q + r
  BY <1>1, Division
<1> HIDE DEF q, r
<1>3. CASE r = Gas - 1
  <2>1. n + 1 = Gas * (q + 1) + 0
    BY <1>1, <1>2, <1>3
  <2>2. (Gas * (q + 1) + 0) \div Gas = q + 1 /\ (Gas * (q + 1) + 0) % Gas = 0
    BY <1>1, <1>2
  <2> QED BY <1>2, <2>1, <2>2 DEF Boundary, q
<1>4. CASE r # Gas - 1
  <2>1. n + 1 = Gas * q + (r + 1) /\ r + 1 \in 1 .. Gas - 1
    BY <1>1, <1>2, <1>4
  <2>2. (Gas * q + (r + 1)) \div Gas = q
    BY <1>1, <1>2, <2>1, Quotient
  <2>3. (Gas * q + (r + 1)) % Gas = r + 1
    BY <1>1, <1>2, <2>1
  <2> QED BY <1>2, <2>1, <2>2, <2>3 DEF Boundary, q
<1> QED BY <1>3, <1>4

LEMMA CeilDivType ==
  ASSUME NEW a \in Nat \ {0}, NEW b \in Nat \ {0}
  PROVE  CeilDiv(a, b) \in Nat \ {0}
<1> DEFINE n == a + b - 1
<1>1. n \in Nat /\ n >= b
  OBVIOUS
<1> HIDE DEF n
<1>2. n \div b \in Nat /\ n % b \in 0 .. b - 1 /\ n = b * (n \div b) + (n % b)
  BY <1>1, Division
<1>3. n \div b # 0
  BY <1>1, <1>2
<1> QED BY <1>2, <1>3 DEF CeilDiv, n

LEMMA PerEpochType ==
  /\ P \in Nat \ {0}
  /\ \A r \in Ranks : PerEpoch(r) = P
<1>1. CeilDiv(Samples, NumRanks) \in Nat \ {0}
  BY Constants, CeilDivType
<1>2. CeilDiv(CeilDiv(Samples, NumRanks), MicroBatch) \in Nat \ {0}
  BY <1>1, Constants, CeilDivType
<1> QED BY <1>2, Constants DEF P, PerEpoch, Batches

-----------------------------------------------------------------------------
(* A step of one rank *)

\* What one rank does keeps the invariant when the state it goes to is sound
\* and on its way to the same collective.
LEMMA OneRank ==
  ASSUME TrainInv, NEW r \in Ranks, NEW L \in RankStates,
         rank' = [rank EXCEPT ![r] = L], launch' = launch, start' = start,
         Alive(r), ModeOK(L), CountsOK(L), L.at # "dead",
         Ahead(L, start) = Ahead(rank[r], start)
  PROVE  /\ rank' \in [Ranks -> RankStates]
         /\ \A s \in Ranks : ModeOK(rank'[s]) /\ CountsOK(rank'[s])
         /\ Lockstep'
<1>1. rank \in [Ranks -> RankStates]
  BY DEF TrainInv, TypeOK
<1>2. \A s \in Ranks : rank'[s] = IF s = r THEN L ELSE rank[s]
  BY <1>1
<1>3. rank' \in [Ranks -> RankStates]
  BY <1>1
<1>4. ASSUME NEW s \in Ranks PROVE ModeOK(rank'[s]) /\ CountsOK(rank'[s])
  BY <1>2 DEF TrainInv
<1>5. ASSUME NEW s \in Ranks, Alive(s)'
      PROVE  Alive(s) /\ Ahead(rank'[s], start') = Ahead(rank[s], start)
  BY <1>2, <1>5 DEF Alive
<1>6. ASSUME NEW s \in Ranks, NEW t \in Ranks, Alive(s)', Alive(t)'
      PROVE  Ahead(rank'[s], start') = Ahead(rank'[t], start')
  BY <1>5, <1>6 DEF TrainInv, Lockstep
<1>7. Lockstep'
  BY <1>6 DEF Lockstep
<1> QED BY <1>3, <1>4, <1>7

LEMMA AheadWaits ==
  ASSUME NEW L, NEW st, L.op # None
  PROVE  Ahead(L, st) = L
BY DEF Ahead

LEMMA AheadOf ==
  ASSUME NEW L, NEW st, L.op = None
  PROVE  /\ L.at = "load" => Ahead(L, st) = [L EXCEPT !.at = "loaded", !.op = Op("load", {})]
         /\ L.at = "loaded" =>
              Ahead(L, st) = AtForward([L EXCEPT !.at = "forward", !.steps = st])
         /\ L.at = "forward" => Ahead(L, st) = AtForward(L)
         /\ L.at = "backward" =>
              Ahead(L, st) = [L EXCEPT !.at = "norms", !.op = Op("backward", L.ran)]
         /\ L.at = "norms" => Ahead(L, st) = AtNorms(L)
         /\ L.at = "step" => Ahead(L, st) = AtStep(L)
         /\ L.at = "log" => Ahead(L, st) = AtLog(L)
         /\ L.at = "next" => Ahead(L, st) = AtNext(L)
         /\ L.at = "boundary" => Ahead(L, st) = AtBoundary(L)
         /\ L.at = "eval" => Ahead(L, st) = AtEval(L)
         /\ L.at = "save" => Ahead(L, st) = AtSave(L)
         /\ L.at \in {"write", "writing"} =>
              Ahead(L, st) = AtEpoch([L EXCEPT !.at = "epoch"])
         /\ L.at = "epoch" => Ahead(L, st) = AtEpoch(L)
         /\ L.at \in {"done", "dead"} => Ahead(L, st) = L
BY DEF Ahead

LEMMA OpWaits ==
  ASSUME NEW kind \in Kinds \ {"none"}, NEW X \in SUBSET Experts
  PROVE  Op(kind, X) # None /\ Op(kind, X) \in [kind : Kinds, experts : SUBSET Experts]
BY DEF Op, None, Kinds

LEMMA StoreKeeps ==
  ASSUME TrainInv, UNCHANGED <<launch, start, store>>
  PROVE  NameTellsSteps' /\ launch' \in 1 .. MaxLaunches /\ start' \in Nat
         /\ DOMAIN store' \subseteq Names
         /\ \A e \in DOMAIN store' :
              store'[e] \in [whole : BOOLEAN, steps : Nat]
BY DEF TrainInv, TypeOK, NameTellsSteps

\* The same for a step that leaves the checkpoints alone.
LEMMA OneRankOnly ==
  ASSUME TrainInv, NEW r \in Ranks, NEW L \in RankStates,
         rank' = [rank EXCEPT ![r] = L], UNCHANGED <<launch, start, store>>,
         Alive(r), ModeOK(L), CountsOK(L), L.at # "dead",
         Ahead(L, start) = Ahead(rank[r], start)
  PROVE  TrainInv'
<1>1. /\ rank' \in [Ranks -> RankStates]
      /\ \A s \in Ranks : ModeOK(rank'[s]) /\ CountsOK(rank'[s])
      /\ Lockstep'
  BY OneRank
<1>2. TypeOK' /\ NameTellsSteps'
  BY <1>1, StoreKeeps DEF TypeOK
<1> QED BY <1>1, <1>2 DEF TrainInv

LEMMA RankFacts ==
  ASSUME TrainInv, NEW r \in Ranks
  PROVE  /\ rank \in [Ranks -> RankStates] /\ rank[r] \in RankStates
         /\ ModeOK(rank[r]) /\ CountsOK(rank[r]) /\ start \in Nat
BY DEF TrainInv, TypeOK

LEMMA ForwardKeeps ==
  ASSUME TrainInv, NEW r \in Ranks, Forward(r)
  PROVE  TrainInv'
<1> DEFINE L == AtForward(rank[r])
<1>1. /\ rank \in [Ranks -> RankStates] /\ rank[r] \in RankStates
      /\ rank[r].at = "forward" /\ rank[r].op = None
      /\ ModeOK(rank[r]) /\ CountsOK(rank[r])
  BY RankFacts DEF Forward, At
<1>2. Runs(r) = {Experts}
  BY <1>1, ColdStartAssumption DEF ModeOK, Runs, ForceDense, EncoderEpoch, RankStates
<1>3. /\ rank' = [rank EXCEPT ![r] = L]
      /\ UNCHANGED <<launch, start, store>>
  BY <1>1, <1>2 DEF Forward, RankStates, AtForward
<1>4. Op("forward", Experts) # None /\ Op("forward", Experts) \in [kind : Kinds, experts : SUBSET Experts]
  BY OpWaits DEF Kinds
<1>5. L \in RankStates /\ L.at = "backward" /\ L.op # None
  BY <1>1, <1>4 DEF RankStates, AtForward, Places
<1>6. ModeOK(L) /\ CountsOK(L)
  BY <1>1 DEF RankStates, AtForward, ModeOK, CountsOK, InBatch, AfterStep, AtEnd
<1>7. Ahead(L, start) = Ahead(rank[r], start)
  BY <1>1, <1>5, AheadWaits, AheadOf
<1> HIDE DEF L
<1> QED BY <1>1, <1>3, <1>5, <1>6, <1>7, OneRankOnly DEF Alive

LEMMA BackwardKeeps ==
  ASSUME TrainInv, NEW r \in Ranks, Backward(r)
  PROVE  TrainInv'
<1> DEFINE L == [rank[r] EXCEPT !.at = "norms", !.op = Op("backward", rank[r].ran)]
<1>1. /\ rank \in [Ranks -> RankStates] /\ rank[r] \in RankStates
      /\ rank[r].at = "backward" /\ rank[r].op = None
      /\ ModeOK(rank[r]) /\ CountsOK(rank[r])
  BY RankFacts DEF Backward, At
<1>2. /\ rank' = [rank EXCEPT ![r] = L]
      /\ UNCHANGED <<launch, start, store>>
  BY <1>1 DEF Backward, RankStates
<1>3. /\ Op("backward", rank[r].ran) # None
      /\ Op("backward", rank[r].ran) \in [kind : Kinds, experts : SUBSET Experts]
  BY <1>1, OpWaits DEF Kinds, RankStates
<1>4. L \in RankStates /\ L.at = "norms" /\ L.op # None
  BY <1>1, <1>3 DEF RankStates, Places
<1>5. ModeOK(L) /\ CountsOK(L)
  BY <1>1 DEF RankStates, ModeOK, CountsOK, InBatch, AfterStep, AtEnd
<1>6. Ahead(L, start) = Ahead(rank[r], start)
  BY <1>1, <1>4, AheadWaits, AheadOf
<1> HIDE DEF L
<1> QED BY <1>1, <1>2, <1>4, <1>5, <1>6, OneRankOnly DEF Alive

LEMMA NormsKeeps ==
  ASSUME TrainInv, NEW r \in Ranks, Norms(r)
  PROVE  TrainInv'
<1>1. /\ rank \in [Ranks -> RankStates] /\ rank[r] \in RankStates
      /\ rank[r].at = "norms" /\ rank[r].op = None
      /\ ModeOK(rank[r]) /\ CountsOK(rank[r])
  BY RankFacts DEF Norms, At
<1>2. CASE Boundary(rank[r].micros)
  <2> DEFINE L == [rank[r] EXCEPT !.at = "step", !.op = Op("norms", {})]
  <2>1. rank' = [rank EXCEPT ![r] = L] /\ UNCHANGED <<launch, start, store>>
    BY <1>1, <1>2 DEF Norms, RankStates
  <2>2. /\ Op("norms", {}) # None
        /\ Op("norms", {}) \in [kind : Kinds, experts : SUBSET Experts]
    BY OpWaits DEF Kinds
  <2>3. L \in RankStates /\ L.at = "step" /\ L.op # None
    BY <1>1, <2>2 DEF RankStates, Places
  <2>4. ModeOK(L)
    BY <1>1 DEF RankStates, ModeOK
  <2>5. CountsOK(L)
    BY <1>1 DEF RankStates, CountsOK, InBatch, AfterStep, AtEnd
  <2>10. Ahead(rank[r], start) = AtNorms(rank[r])
    BY <1>1, AheadOf
  <2>11. AtNorms(rank[r]) = L
    BY <1>2 DEF AtNorms
  <2>6. Ahead(L, start) = Ahead(rank[r], start)
    BY <2>3, <2>10, <2>11, AheadWaits
  <2> HIDE DEF L
  <2> QED BY <1>1, <2>1, <2>3, <2>4, <2>5, <2>6, OneRankOnly DEF Alive
<1>3. CASE ~Boundary(rank[r].micros)
  <2> DEFINE L == [rank[r] EXCEPT !.at = "step"]
  <2>1. rank' = [rank EXCEPT ![r] = L] /\ UNCHANGED <<launch, start, store>>
    BY <1>1, <1>3 DEF Norms, RankStates
  <2>3. L \in RankStates /\ L.at = "step" /\ L.op = None
    BY <1>1 DEF RankStates, Places
  <2>4. ModeOK(L)
    BY <1>1 DEF RankStates, ModeOK
  <2>5. CountsOK(L)
    BY <1>1 DEF RankStates, CountsOK, InBatch, AfterStep, AtEnd
  <2>6. Ahead(L, start) = AtStep(L)
    BY <2>3, AheadOf
  <2>7. Ahead(rank[r], start) = AtStep(L)
    BY <1>1, <1>3, AheadOf DEF AtNorms
  <2> HIDE DEF L
  <2> QED BY <1>1, <2>1, <2>3, <2>4, <2>5, <2>6, <2>7, OneRankOnly DEF Alive
<1> QED BY <1>2, <1>3

LEMMA StepKeeps ==
  ASSUME TrainInv, NEW r \in Ranks, Step(r)
  PROVE  TrainInv'
<1>1. /\ rank \in [Ranks -> RankStates] /\ rank[r] \in RankStates
      /\ rank[r].at = "step" /\ rank[r].op = None
      /\ ModeOK(rank[r]) /\ CountsOK(rank[r])
  BY RankFacts DEF Step, At
<1>2. CASE Boundary(rank[r].micros)
  <2> DEFINE L == [rank[r] EXCEPT !.at = "log", !.op = Op("step", {}), !.master = @ + 1,
                                !.steps = rank[r].master + 1, !.micros = @ + 1]
  <2>1. rank' = [rank EXCEPT ![r] = L] /\ UNCHANGED <<launch, start, store>>
    BY <1>1, <1>2 DEF Step, RankStates
  <2>2. /\ Op("step", {}) # None
        /\ Op("step", {}) \in [kind : Kinds, experts : SUBSET Experts]
    BY OpWaits DEF Kinds
  <2>12. rank[r].master + 1 \in Nat /\ rank[r].micros + 1 \in Nat
    BY <1>1 DEF RankStates
  <2>3. L \in RankStates /\ L.at = "log" /\ L.op # None
    BY <1>1, <2>2, <2>12 DEF RankStates, Places
  <2>4. ModeOK(L)
    BY <1>1 DEF RankStates, ModeOK
  <2>8. rank[r].micros \in Nat /\ rank[r].master = rank[r].micros \div Gas
    BY <1>1 DEF RankStates, CountsOK
  <2>9. L.master = L.micros \div Gas
    BY <1>1, <1>2, <2>8, WindowStep DEF RankStates
  <2>5. CountsOK(L)
    <3>1. /\ L.micros = rank[r].micros + 1 /\ L.epoch = rank[r].epoch
          /\ L.batch = rank[r].batch /\ L.at = "log"
      BY <1>1 DEF RankStates
    <3>2. rank[r].micros = rank[r].epoch * P + rank[r].batch /\ rank[r].batch < P
      BY <1>1 DEF CountsOK, InBatch
    <3> HIDE DEF L
    <3> QED BY <2>9, <3>1, <3>2 DEF CountsOK, InBatch, AfterStep, AtEnd
  <2>10. Ahead(rank[r], start) = AtStep(rank[r])
    BY <1>1, AheadOf
  <2>11. AtStep(rank[r]) = L
    BY <1>2 DEF AtStep
  <2>6. Ahead(L, start) = Ahead(rank[r], start)
    BY <2>3, <2>10, <2>11, AheadWaits
  <2> HIDE DEF L
  <2> QED BY <1>1, <2>1, <2>3, <2>4, <2>5, <2>6, OneRankOnly DEF Alive
<1>3. CASE ~Boundary(rank[r].micros)
  <2> DEFINE L == [rank[r] EXCEPT !.at = "log", !.micros = @ + 1]
  <2>1. rank' = [rank EXCEPT ![r] = L] /\ UNCHANGED <<launch, start, store>>
    BY <1>1, <1>3 DEF Step, RankStates
  <2>12. rank[r].micros + 1 \in Nat
    BY <1>1 DEF RankStates
  <2>3. L \in RankStates /\ L.at = "log" /\ L.op = None
    BY <1>1, <2>12 DEF RankStates, Places
  <2>4. ModeOK(L)
    BY <1>1 DEF RankStates, ModeOK
  <2>8. rank[r].micros \in Nat /\ rank[r].master = rank[r].micros \div Gas
    BY <1>1 DEF RankStates, CountsOK
  <2>9. L.master = L.micros \div Gas
    BY <1>1, <1>3, <2>8, WindowStep DEF RankStates
  <2>5. CountsOK(L)
    <3>1. /\ L.micros = rank[r].micros + 1 /\ L.epoch = rank[r].epoch
          /\ L.batch = rank[r].batch /\ L.at = "log"
      BY <1>1 DEF RankStates
    <3>2. rank[r].micros = rank[r].epoch * P + rank[r].batch /\ rank[r].batch < P
      BY <1>1 DEF CountsOK, InBatch
    <3> HIDE DEF L
    <3> QED BY <2>9, <3>1, <3>2 DEF CountsOK, InBatch, AfterStep, AtEnd
  <2>6. Ahead(L, start) = AtLog(L)
    BY <2>3, AheadOf
  <2>7. Ahead(rank[r], start) = AtLog(L)
    BY <1>1, <1>3, AheadOf DEF AtStep
  <2> HIDE DEF L
  <2> QED BY <1>1, <2>1, <2>3, <2>4, <2>5, <2>6, <2>7, OneRankOnly DEF Alive
<1> QED BY <1>2, <1>3

LEMMA LogKeeps ==
  ASSUME TrainInv, NEW r \in Ranks, Log(r)
  PROVE  TrainInv'
<1>1. /\ rank \in [Ranks -> RankStates] /\ rank[r] \in RankStates
      /\ rank[r].at = "log" /\ rank[r].op = None
      /\ ModeOK(rank[r]) /\ CountsOK(rank[r])
  BY RankFacts DEF Log, At
<1>2. CASE Boundary(rank[r].micros)
  <2> DEFINE L == [rank[r] EXCEPT !.at = "next", !.op = Op("loss", {})]
  <2>1. rank' = [rank EXCEPT ![r] = L] /\ UNCHANGED <<launch, start, store>>
    BY <1>1, <1>2 DEF Log, RankStates
  <2>2. /\ Op("loss", {}) # None
        /\ Op("loss", {}) \in [kind : Kinds, experts : SUBSET Experts]
    BY OpWaits DEF Kinds
  <2>3. L \in RankStates /\ L.at = "next" /\ L.op # None
    BY <1>1, <2>2 DEF RankStates, Places
  <2>4. ModeOK(L)
    BY <1>1 DEF RankStates, ModeOK
  <2>5. CountsOK(L)
    BY <1>1 DEF RankStates, CountsOK, InBatch, AfterStep, AtEnd
  <2>10. Ahead(rank[r], start) = AtLog(rank[r])
    BY <1>1, AheadOf
  <2>11. AtLog(rank[r]) = L
    BY <1>2 DEF AtLog
  <2>6. Ahead(L, start) = Ahead(rank[r], start)
    BY <2>3, <2>10, <2>11, AheadWaits
  <2> HIDE DEF L
  <2> QED BY <1>1, <2>1, <2>3, <2>4, <2>5, <2>6, OneRankOnly DEF Alive
<1>3. CASE ~Boundary(rank[r].micros)
  <2> DEFINE L == [rank[r] EXCEPT !.at = "next"]
  <2>1. rank' = [rank EXCEPT ![r] = L] /\ UNCHANGED <<launch, start, store>>
    BY <1>1, <1>3 DEF Log, RankStates
  <2>3. L \in RankStates /\ L.at = "next" /\ L.op = None
    BY <1>1 DEF RankStates, Places
  <2>4. ModeOK(L)
    BY <1>1 DEF RankStates, ModeOK
  <2>5. CountsOK(L)
    BY <1>1 DEF RankStates, CountsOK, InBatch, AfterStep, AtEnd
  <2>6. Ahead(L, start) = AtNext(L)
    BY <2>3, AheadOf
  <2>7. Ahead(rank[r], start) = AtNext(L)
    BY <1>1, <1>3, AheadOf DEF AtLog
  <2> HIDE DEF L
  <2> QED BY <1>1, <2>1, <2>3, <2>4, <2>5, <2>6, <2>7, OneRankOnly DEF Alive
<1> QED BY <1>2, <1>3

LEMMA NextBatchKeeps ==
  ASSUME TrainInv, NEW r \in Ranks, NextBatch(r)
  PROVE  TrainInv'
<1>1. /\ rank \in [Ranks -> RankStates] /\ rank[r] \in RankStates
      /\ rank[r].at = "next" /\ rank[r].op = None
      /\ ModeOK(rank[r]) /\ CountsOK(rank[r])
  BY RankFacts DEF NextBatch, At
<1>2. P \in Nat \ {0} /\ PerEpoch(r) = P
  BY PerEpochType
<1>3. /\ rank[r].micros = rank[r].epoch * P + rank[r].batch + 1 /\ rank[r].batch < P
      /\ rank[r].master = rank[r].micros \div Gas
      /\ rank[r].epoch \in Nat /\ rank[r].batch \in Nat /\ rank[r].batch + 1 \in Nat
  BY <1>1, Constants DEF RankStates, CountsOK, AfterStep, Names
<1>4. CASE rank[r].batch + 1 < P
  <2> DEFINE L == [rank[r] EXCEPT !.at = "forward", !.batch = @ + 1]
  <2>1. rank' = [rank EXCEPT ![r] = L] /\ UNCHANGED <<launch, start, store>>
    BY <1>1, <1>2, <1>3, <1>4 DEF NextBatch, RankStates
  <2>2. L \in RankStates /\ L.at = "forward" /\ L.op = None
    BY <1>1, <1>3 DEF RankStates, Places
  <2>3. ModeOK(L)
    BY <1>1 DEF RankStates, ModeOK
  <2>4. CountsOK(L)
    <3>1. /\ L.micros = rank[r].micros /\ L.epoch = rank[r].epoch /\ L.master = rank[r].master
          /\ L.batch = rank[r].batch + 1 /\ L.at = "forward"
      BY <1>1 DEF RankStates
    <3>2. rank[r].epoch * P \in Nat
      BY <1>2, <1>3
    <3> HIDE DEF L
    <3> QED BY <1>3, <1>4, <3>1, <3>2 DEF CountsOK, InBatch, AfterStep, AtEnd
  <2>5. Ahead(L, start) = AtForward(L)
    BY <2>2, AheadOf
  <2>6. Ahead(rank[r], start) = AtForward(L)
    BY <1>1, <1>4, AheadOf DEF AtNext
  <2> HIDE DEF L
  <2> QED BY <1>1, <2>1, <2>2, <2>3, <2>4, <2>5, <2>6, OneRankOnly DEF Alive
<1>5. CASE ~(rank[r].batch + 1 < P)
  <2> DEFINE L == [rank[r] EXCEPT !.at = "boundary", !.batch = 0]
  <2>1. rank' = [rank EXCEPT ![r] = L] /\ UNCHANGED <<launch, start, store>>
    BY <1>1, <1>2, <1>3, <1>5 DEF NextBatch, RankStates
  <2>2. L \in RankStates /\ L.at = "boundary" /\ L.op = None
    BY <1>1 DEF RankStates, Places
  <2>3. ModeOK(L)
    BY <1>1 DEF RankStates, ModeOK
  <2>4. CountsOK(L)
    <3>1. /\ L.micros = rank[r].micros /\ L.epoch = rank[r].epoch /\ L.master = rank[r].master
          /\ L.batch = 0 /\ L.at = "boundary"
      BY <1>1 DEF RankStates
    <3>2. rank[r].batch + 1 = P
      BY <1>2, <1>3, <1>5
    <3>3. rank[r].epoch * P + P = (rank[r].epoch + 1) * P
      BY <1>2, <1>3
    <3>4. rank[r].epoch * P \in Nat
      BY <1>2, <1>3
    <3>5. rank[r].micros = (rank[r].epoch + 1) * P
      BY <1>2, <1>3, <3>2, <3>3, <3>4
    <3> HIDE DEF L
    <3> QED BY <1>3, <3>1, <3>5 DEF CountsOK, InBatch, AfterStep, AtEnd
  <2>5. Ahead(L, start) = AtBoundary(L)
    BY <2>2, AheadOf
  <2>6. Ahead(rank[r], start) = AtBoundary(L)
    BY <1>1, <1>5, AheadOf DEF AtNext
  <2> HIDE DEF L
  <2> QED BY <1>1, <2>1, <2>2, <2>3, <2>4, <2>5, <2>6, OneRankOnly DEF Alive
<1> QED BY <1>4, <1>5

LEMMA StartEvalKeeps ==
  ASSUME TrainInv, NEW r \in Ranks, StartEval(r)
  PROVE  TrainInv'
<1>1. /\ rank \in [Ranks -> RankStates] /\ rank[r] \in RankStates
      /\ rank[r].at = "boundary" /\ rank[r].op = None
      /\ ModeOK(rank[r]) /\ CountsOK(rank[r])
  BY RankFacts DEF StartEval, At
<1>2. CASE Evaluates(rank[r].epoch)
  <2> DEFINE L == [rank[r] EXCEPT !.at = "eval", !.training = FALSE, !.forced = TRUE]
  <2>1. rank' = [rank EXCEPT ![r] = L] /\ UNCHANGED <<launch, start, store>>
    BY <1>1, <1>2 DEF StartEval, RankStates
  <2>3. L \in RankStates /\ L.at = "eval" /\ L.op = None
    BY <1>1 DEF RankStates, Places
  <2>4. ModeOK(L)
    BY <1>1 DEF RankStates, ModeOK
  <2>5. CountsOK(L)
    BY <1>1 DEF RankStates, CountsOK, InBatch, AfterStep, AtEnd
  <2>6. Ahead(L, start) = AtEval(L)
    BY <2>3, AheadOf
  <2>7. Ahead(rank[r], start) = AtEval(L)
    BY <1>1, <1>2, AheadOf DEF AtBoundary
  <2> HIDE DEF L
  <2> QED BY <1>1, <2>1, <2>3, <2>4, <2>5, <2>6, <2>7, OneRankOnly DEF Alive
<1>3. CASE ~Evaluates(rank[r].epoch)
  <2> DEFINE L == [rank[r] EXCEPT !.at = "save"]
  <2>1. rank' = [rank EXCEPT ![r] = L] /\ UNCHANGED <<launch, start, store>>
    BY <1>1, <1>3 DEF StartEval, RankStates
  <2>3. L \in RankStates /\ L.at = "save" /\ L.op = None
    BY <1>1 DEF RankStates, Places
  <2>4. ModeOK(L)
    BY <1>1 DEF RankStates, ModeOK
  <2>5. CountsOK(L)
    BY <1>1 DEF RankStates, CountsOK, InBatch, AfterStep, AtEnd
  <2>6. Ahead(L, start) = AtSave(L)
    BY <2>3, AheadOf
  <2>7. Ahead(rank[r], start) = AtSave(L)
    BY <1>1, <1>3, AheadOf DEF AtBoundary
  <2> HIDE DEF L
  <2> QED BY <1>1, <2>1, <2>3, <2>4, <2>5, <2>6, <2>7, OneRankOnly DEF Alive
<1> QED BY <1>2, <1>3

LEMMA SaveKeeps ==
  ASSUME TrainInv, NEW r \in Ranks, Save(r)
  PROVE  TrainInv'
<1>1. /\ rank \in [Ranks -> RankStates] /\ rank[r] \in RankStates
      /\ rank[r].at = "save" /\ rank[r].op = None
      /\ ModeOK(rank[r]) /\ CountsOK(rank[r])
  BY RankFacts DEF Save, At
<1>2. CASE Saves(rank[r].epoch)
  <2> DEFINE L == [rank[r] EXCEPT !.at = "write", !.op = Op("params", {})]
  <2>1. rank' = [rank EXCEPT ![r] = L] /\ UNCHANGED <<launch, start, store>>
    BY <1>1, <1>2 DEF Save, RankStates
  <2>2. /\ Op("params", {}) # None
        /\ Op("params", {}) \in [kind : Kinds, experts : SUBSET Experts]
    BY OpWaits DEF Kinds
  <2>3. L \in RankStates /\ L.at = "write" /\ L.op # None
    BY <1>1, <2>2 DEF RankStates, Places
  <2>4. ModeOK(L)
    BY <1>1 DEF RankStates, ModeOK
  <2>5. CountsOK(L)
    BY <1>1 DEF RankStates, CountsOK, InBatch, AfterStep, AtEnd
  <2>6. Ahead(rank[r], start) = AtSave(rank[r])
    BY <1>1, AheadOf
  <2>7. AtSave(rank[r]) = L
    BY <1>2 DEF AtSave
  <2>8. Ahead(L, start) = Ahead(rank[r], start)
    BY <2>3, <2>6, <2>7, AheadWaits
  <2> HIDE DEF L
  <2> QED BY <1>1, <2>1, <2>3, <2>4, <2>5, <2>8, OneRankOnly DEF Alive
<1>3. CASE ~Saves(rank[r].epoch)
  <2> DEFINE L == [rank[r] EXCEPT !.at = "epoch"]
  <2>1. rank' = [rank EXCEPT ![r] = L] /\ UNCHANGED <<launch, start, store>>
    BY <1>1, <1>3 DEF Save, RankStates
  <2>3. L \in RankStates /\ L.at = "epoch" /\ L.op = None
    BY <1>1 DEF RankStates, Places
  <2>4. ModeOK(L)
    BY <1>1 DEF RankStates, ModeOK
  <2>5. CountsOK(L)
    BY <1>1 DEF RankStates, CountsOK, InBatch, AfterStep, AtEnd
  <2>6. Ahead(L, start) = AtEpoch(L)
    BY <2>3, AheadOf
  <2>7. Ahead(rank[r], start) = AtEpoch(L)
    BY <1>1, <1>3, AheadOf DEF AtSave
  <2> HIDE DEF L
  <2> QED BY <1>1, <2>1, <2>3, <2>4, <2>5, <2>6, <2>7, OneRankOnly DEF Alive
<1> QED BY <1>2, <1>3

LEMMA EvalForwardKeeps ==
  ASSUME TrainInv, NEW r \in Ranks, EvalForward(r)
  PROVE  TrainInv'
<1> DEFINE L == [rank[r] EXCEPT !.op = Op("forward", Experts), !.batch = @ + 1]
<1>1. /\ rank \in [Ranks -> RankStates] /\ rank[r] \in RankStates
      /\ rank[r].at = "eval" /\ rank[r].op = None /\ rank[r].batch < EvalBatches
      /\ ModeOK(rank[r]) /\ CountsOK(rank[r]) /\ rank[r].batch + 1 \in Nat
  BY RankFacts DEF EvalForward, At, RankStates
<1>2. Runs(r) = {Experts}
  BY <1>1 DEF ModeOK, Runs, ForceDense
<1>3. rank' = [rank EXCEPT ![r] = L] /\ UNCHANGED <<launch, start, store>>
  BY <1>1, <1>2 DEF EvalForward, RankStates
<1>4. /\ Op("forward", Experts) # None
      /\ Op("forward", Experts) \in [kind : Kinds, experts : SUBSET Experts]
  BY OpWaits DEF Kinds
<1>5. L \in RankStates /\ L.at = "eval" /\ L.op # None
  BY <1>1, <1>4 DEF RankStates, Places
<1>6. ModeOK(L) /\ CountsOK(L)
  BY <1>1 DEF RankStates, ModeOK, CountsOK, InBatch, AfterStep, AtEnd
<1>7. Ahead(rank[r], start) = AtEval(rank[r])
  BY <1>1, AheadOf
<1>8. AtEval(rank[r]) = L
  BY <1>1 DEF AtEval
<1>9. Ahead(L, start) = Ahead(rank[r], start)
  BY <1>5, <1>7, <1>8, AheadWaits
<1> HIDE DEF L
<1> QED BY <1>1, <1>3, <1>5, <1>6, <1>9, OneRankOnly DEF Alive

LEMMA EndEvalKeeps ==
  ASSUME TrainInv, NEW r \in Ranks, EndEval(r)
  PROVE  TrainInv'
<1> DEFINE L == [rank[r] EXCEPT !.at = "save", !.op = Op("eval loss", {}), !.batch = 0,
                               !.training = TRUE, !.forced = FALSE]
<1>1. /\ rank \in [Ranks -> RankStates] /\ rank[r] \in RankStates
      /\ rank[r].at = "eval" /\ rank[r].op = None /\ rank[r].batch >= EvalBatches
      /\ ModeOK(rank[r]) /\ CountsOK(rank[r])
  BY RankFacts DEF EndEval, At
<1>0. ~(rank[r].batch < EvalBatches)
  BY <1>1, Constants DEF RankStates
<1>2. rank' = [rank EXCEPT ![r] = L] /\ UNCHANGED <<launch, start, store>>
  BY <1>1 DEF EndEval, RankStates
<1>3. /\ Op("eval loss", {}) # None
      /\ Op("eval loss", {}) \in [kind : Kinds, experts : SUBSET Experts]
  BY OpWaits DEF Kinds
<1>4. L \in RankStates /\ L.at = "save" /\ L.op # None
  BY <1>1, <1>3 DEF RankStates, Places
<1>5. ModeOK(L) /\ CountsOK(L)
  BY <1>1 DEF RankStates, ModeOK, CountsOK, InBatch, AfterStep, AtEnd
<1>6. Ahead(rank[r], start) = AtEval(rank[r])
  BY <1>1, AheadOf
<1>7. AtEval(rank[r]) = L
  BY <1>0 DEF AtEval
<1>8. Ahead(L, start) = Ahead(rank[r], start)
  BY <1>4, <1>6, <1>7, AheadWaits
<1> HIDE DEF L
<1> QED BY <1>1, <1>2, <1>4, <1>5, <1>8, OneRankOnly DEF Alive

LEMMA NextEpochKeeps ==
  ASSUME TrainInv, NEW r \in Ranks, NextEpoch(r)
  PROVE  TrainInv'
<1>1. /\ rank \in [Ranks -> RankStates] /\ rank[r] \in RankStates
      /\ rank[r].at = "epoch" /\ rank[r].op = None
      /\ ModeOK(rank[r]) /\ CountsOK(rank[r])
  BY RankFacts DEF NextEpoch, At
<1>2. P \in Nat \ {0}
  BY PerEpochType
<1>3. /\ rank[r].micros = (rank[r].epoch + 1) * P /\ rank[r].batch = 0
      /\ rank[r].master = rank[r].micros \div Gas
      /\ rank[r].epoch \in Nat /\ rank[r].epoch + 1 <= Epochs /\ Epochs \in Nat
  BY <1>1, Constants DEF RankStates, CountsOK, AtEnd, Names
<1>4. CASE rank[r].epoch + 1 < Epochs
  <2> DEFINE L == [rank[r] EXCEPT !.at = "forward", !.epoch = @ + 1]
  <2>1. rank' = [rank EXCEPT ![r] = L] /\ UNCHANGED <<launch, start, store>>
    BY <1>1, <1>3, <1>4 DEF NextEpoch, RankStates
  <2>2. rank[r].epoch + 1 \in Names
    BY <1>3, <1>4 DEF Names
  <2>3. L \in RankStates /\ L.at = "forward" /\ L.op = None
    BY <1>1, <2>2 DEF RankStates, Places
  <2>4. ModeOK(L)
    BY <1>1 DEF RankStates, ModeOK
  <2>5. CountsOK(L)
    <3>1. /\ L.micros = rank[r].micros /\ L.epoch = rank[r].epoch + 1
          /\ L.master = rank[r].master /\ L.batch = rank[r].batch /\ L.at = "forward"
      BY <1>1 DEF RankStates
    <3>2. (rank[r].epoch + 1) * P \in Nat
      BY <1>2, <1>3
    <3> HIDE DEF L
    <3> QED BY <1>2, <1>3, <3>1, <3>2 DEF CountsOK, InBatch, AfterStep, AtEnd
  <2>6. Ahead(L, start) = AtForward(L)
    BY <2>3, AheadOf
  <2>7. Ahead(rank[r], start) = AtForward(L)
    BY <1>1, <1>4, AheadOf DEF AtEpoch
  <2> HIDE DEF L
  <2> QED BY <1>1, <2>1, <2>3, <2>4, <2>5, <2>6, <2>7, OneRankOnly DEF Alive
<1>5. CASE ~(rank[r].epoch + 1 < Epochs)
  <2> DEFINE L == [rank[r] EXCEPT !.at = "done"]
  <2>1. rank' = [rank EXCEPT ![r] = L] /\ UNCHANGED <<launch, start, store>>
    BY <1>1, <1>3, <1>5 DEF NextEpoch, RankStates
  <2>2. L \in RankStates /\ L.at = "done" /\ L.op = None
    BY <1>1 DEF RankStates, Places
  <2>3. ModeOK(L)
    BY <1>1 DEF RankStates, ModeOK
  <2>4. CountsOK(L)
    <3>1. L.micros = rank[r].micros /\ L.master = rank[r].master /\ L.at = "done" /\ L.op = None
      BY <1>1 DEF RankStates
    <3>2. rank[r].epoch + 1 = Epochs
      BY <1>3, <1>5
    <3> HIDE DEF L
    <3> QED BY <1>3, <3>1, <3>2 DEF CountsOK, InBatch, AfterStep, AtEnd
  <2>5. Ahead(L, start) = L
    BY <2>2, AheadOf
  <2>6. Ahead(rank[r], start) = L
    BY <1>1, <1>5, AheadOf DEF AtEpoch
  <2> HIDE DEF L
  <2> QED BY <1>1, <2>1, <2>2, <2>3, <2>4, <2>5, <2>6, OneRankOnly DEF Alive
<1> QED BY <1>4, <1>5

LEMMA LoadKeeps ==
  ASSUME TrainInv, NEW r \in Ranks, Load(r)
  PROVE  TrainInv'
<1> DEFINE L == [rank[r] EXCEPT !.at = "loaded", !.op = Op("load", {})]
<1>1. /\ rank \in [Ranks -> RankStates] /\ rank[r] \in RankStates
      /\ rank[r].at = "load" /\ rank[r].op = None
      /\ ModeOK(rank[r]) /\ CountsOK(rank[r])
  BY RankFacts DEF Load, At
<1>2. rank' = [rank EXCEPT ![r] = L] /\ UNCHANGED <<launch, start, store>>
  BY <1>1 DEF Load, RankStates
<1>3. Op("load", {}) # None /\ Op("load", {}) \in [kind : Kinds, experts : SUBSET Experts]
  BY OpWaits DEF Kinds
<1>4. L \in RankStates /\ L.at = "loaded" /\ L.op # None
  BY <1>1, <1>3 DEF RankStates, Places
<1>5. ModeOK(L) /\ CountsOK(L)
  BY <1>1 DEF RankStates, ModeOK, CountsOK, InBatch, AfterStep, AtEnd
<1>6. Ahead(L, start) = Ahead(rank[r], start)
  BY <1>1, <1>4, AheadWaits, AheadOf
<1> HIDE DEF L
<1> QED BY <1>1, <1>2, <1>4, <1>5, <1>6, OneRankOnly DEF Alive

LEMMA LoadedKeeps ==
  ASSUME TrainInv, NEW r \in Ranks, Loaded(r)
  PROVE  TrainInv'
<1> DEFINE L == [rank[r] EXCEPT !.at = "forward", !.steps = start]
<1>1. /\ rank \in [Ranks -> RankStates] /\ rank[r] \in RankStates
      /\ rank[r].at = "loaded" /\ rank[r].op = None
      /\ ModeOK(rank[r]) /\ CountsOK(rank[r]) /\ start \in Nat
  BY RankFacts DEF Loaded, At
<1>2. rank' = [rank EXCEPT ![r] = L] /\ UNCHANGED <<launch, start, store>>
  BY <1>1 DEF Loaded, RankStates
<1>3. L \in RankStates /\ L.at = "forward" /\ L.op = None
  BY <1>1 DEF RankStates, Places
<1>4. ModeOK(L)
  BY <1>1 DEF RankStates, ModeOK
<1>5. CountsOK(L)
  <2>1. /\ L.micros = 0 /\ L.epoch = 0 /\ L.batch = 0 /\ L.at = "forward"
        /\ L.master = 0 \div Gas
    BY <1>1 DEF RankStates, CountsOK
  <2>2. P \in Nat \ {0}
    BY PerEpochType
  <2>3. 0 * P + 0 = 0 /\ 0 < P
    BY <2>2
  <2> HIDE DEF L
  <2> QED BY <2>1, <2>3 DEF CountsOK, InBatch, AfterStep, AtEnd
<1>6. Ahead(L, start) = AtForward(L)
  BY <1>3, AheadOf
<1>7. Ahead(rank[r], start) = AtForward(L)
  BY <1>1, AheadOf
<1> HIDE DEF L
<1> QED BY <1>1, <1>2, <1>3, <1>4, <1>5, <1>6, <1>7, OneRankOnly DEF Alive

-----------------------------------------------------------------------------
(* Checkpoints *)

Contents == [whole : BOOLEAN, steps : Nat]

\* A checkpoint put in the store is torn or holds the windows of its epoch.
LEMMA StoredKeeps ==
  ASSUME TrainInv, NEW e \in Names, NEW c \in Contents,
         c.whole => c.steps = ((e + 1) * P) \div Gas,
         store' = Stored(e, c), UNCHANGED <<launch, start>>
  PROVE  /\ NameTellsSteps' /\ launch' \in 1 .. MaxLaunches /\ start' \in Nat
         /\ DOMAIN store' \subseteq Names
         /\ \A f \in DOMAIN store' : store'[f] \in Contents
<1>1. /\ DOMAIN store' = DOMAIN store \cup {e}
      /\ \A f \in DOMAIN store' : store'[f] = IF f = e THEN c ELSE store[f]
  BY DEF Stored
<1>2. /\ launch \in 1 .. MaxLaunches /\ start \in Nat /\ DOMAIN store \subseteq Names
      /\ \A f \in DOMAIN store : store[f] \in Contents
      /\ NameTellsSteps
  BY DEF TrainInv, TypeOK, Contents
<1>3. NameTellsSteps'
  BY <1>1, <1>2 DEF NameTellsSteps, P
<1> QED BY <1>1, <1>2, <1>3

LEMMA ToEpoch ==
  ASSUME TrainInv, NEW r \in Ranks, rank[r].at \in {"write", "writing"}, rank[r].op = None,
         NEW at \in {"writing", "epoch"},
         rank' = [rank EXCEPT ![r].at = at], UNCHANGED <<launch, start>>
  PROVE  /\ rank' \in [Ranks -> RankStates]
         /\ \A s \in Ranks : ModeOK(rank'[s]) /\ CountsOK(rank'[s])
         /\ Lockstep'
<1> DEFINE L == [rank[r] EXCEPT !.at = at]
<1>1. /\ rank \in [Ranks -> RankStates] /\ rank[r] \in RankStates
      /\ ModeOK(rank[r]) /\ CountsOK(rank[r])
  BY RankFacts
<1>2. rank' = [rank EXCEPT ![r] = L]
  BY <1>1 DEF RankStates
<1>3. L \in RankStates /\ L.at = at /\ L.op = None
  BY <1>1 DEF RankStates, Places
<1>4. ModeOK(L) /\ CountsOK(L)
  BY <1>1 DEF RankStates, ModeOK, CountsOK, InBatch, AfterStep, AtEnd
<1>5. Ahead(rank[r], start) = AtEpoch([rank[r] EXCEPT !.at = "epoch"])
  BY AheadOf
<1>6. Ahead(L, start) = AtEpoch([rank[r] EXCEPT !.at = "epoch"])
  <2>1. CASE at = "epoch"
    <3>1. L = [rank[r] EXCEPT !.at = "epoch"]
      BY <2>1
    <3>2. Ahead(L, start) = AtEpoch(L)
      <4> HIDE DEF L
      <4> QED BY <1>3, <2>1, AheadOf
    <3> QED BY <3>1, <3>2
  <2>2. CASE at = "writing"
    <3>1. Ahead(L, start) = AtEpoch([L EXCEPT !.at = "epoch"])
      <4> HIDE DEF L
      <4>1. L.op = None /\ L.at \in {"write", "writing"}
        BY <1>3, <2>2
      <4> QED BY ONLY <4>1, AheadOf
    <3>2. [L EXCEPT !.at = "epoch"] = [rank[r] EXCEPT !.at = "epoch"]
      OBVIOUS
    <3> QED BY <3>1, <3>2
  <2> QED BY <2>1, <2>2
<1> HIDE DEF L
<1>7. L.at # "dead" /\ Alive(r)
  BY <1>3 DEF Alive
<1> QED BY <1>2, <1>3, <1>4, <1>5, <1>6, <1>7, OneRank

LEMMA WriteKeeps ==
  ASSUME TrainInv, NEW r \in Ranks, Write(r)
  PROVE  TrainInv'
<1>1. rank[r].at = "write" /\ rank[r].op = None /\ UNCHANGED <<launch, start>>
  BY DEF Write, At
<1>2. CASE r = 0
  <2>1. store' = Stored(rank[r].epoch, Torn) /\ rank' = [rank EXCEPT ![r].at = "writing"]
    BY <1>2 DEF Write, Name
  <2>2. rank[r].epoch \in Names
    BY RankFacts DEF RankStates
  <2>3. Torn \in Contents /\ ~Torn.whole
    BY DEF Torn, Contents
  <2>4. TypeOK' /\ NameTellsSteps'
    BY <1>1, <2>1, <2>2, <2>3, StoredKeeps, ToEpoch DEF TypeOK, Contents
  <2> QED BY <1>1, <2>1, <2>4, ToEpoch DEF TrainInv
<1>3. CASE r # 0
  <2>1. rank' = [rank EXCEPT ![r].at = "epoch"] /\ UNCHANGED store
    BY <1>3 DEF Write
  <2>2. TypeOK' /\ NameTellsSteps'
    BY <1>1, <2>1, StoreKeeps, ToEpoch DEF TypeOK
  <2> QED BY <1>1, <2>1, <2>2, ToEpoch DEF TrainInv
<1> QED BY <1>2, <1>3

LEMMA WrittenKeeps ==
  ASSUME TrainInv, NEW r \in Ranks, Written(r)
  PROVE  TrainInv'
<1> DEFINE c == [whole |-> TRUE, steps |-> rank[r].master]
<1>1. /\ rank[r].at = "writing" /\ rank[r].op = None /\ UNCHANGED <<launch, start>>
      /\ store' = Stored(rank[r].epoch, c) /\ rank' = [rank EXCEPT ![r].at = "epoch"]
  BY DEF Written, At, Name
<1>2. rank[r].epoch \in Names /\ rank[r].master \in Nat
  BY RankFacts DEF RankStates
<1>3. c \in Contents
  BY <1>2 DEF Contents
<1>4. rank[r].master = ((rank[r].epoch + 1) * P) \div Gas
  BY <1>1, RankFacts DEF CountsOK, AtEnd
<1>5. TypeOK' /\ NameTellsSteps'
  <2>1. c.steps = rank[r].master
    OBVIOUS
  <2> HIDE DEF c
  <2> QED BY <1>1, <1>2, <1>3, <1>4, <2>1, StoredKeeps, ToEpoch DEF TypeOK, Contents
<1> QED BY <1>1, <1>5, ToEpoch DEF TrainInv

-----------------------------------------------------------------------------
(* Collectives, failures and launches *)

LEMMA FreshFacts ==
  ASSUME NEW at \in {"forward", "load", "dead"}
  PROVE  /\ Fresh(at) \in RankStates
         /\ Fresh(at).at = at /\ Fresh(at).op = None
         /\ ModeOK(Fresh(at)) /\ CountsOK(Fresh(at))
<1>1. 0 \in Names /\ 0 \in Nat /\ Epochs \in Nat \ {0}
  BY Constants DEF Names
<1>2. None \in [kind : Kinds, experts : SUBSET Experts]
  BY DEF None, Kinds
<1>3. Fresh(at) \in RankStates
  BY <1>1, <1>2 DEF Fresh, RankStates, Places
<1>4. Fresh(at).at = at /\ Fresh(at).op = None /\ ModeOK(Fresh(at))
  BY DEF Fresh, ModeOK
<1>5. CountsOK(Fresh(at))
  <2>1. P \in Nat \ {0} /\ Gas \in Nat \ {0}
    BY PerEpochType, Constants
  <2>2. 0 \div Gas = 0 /\ 0 * P + 0 = 0 /\ 0 < P
    BY <2>1
  <2> QED BY <2>2 DEF Fresh, CountsOK, InBatch, AfterStep, AtEnd
<1> QED BY <1>3, <1>4, <1>5

LEMMA MeetKeeps ==
  ASSUME TrainInv, Meet
  PROVE  TrainInv'
<1>1. /\ rank \in [Ranks -> RankStates]
      /\ \A r \in Ranks : rank[r].op # None
      /\ rank' = [r \in Ranks |-> [rank[r] EXCEPT !.op = None]]
      /\ UNCHANGED <<launch, start, store>>
  BY DEF TrainInv, TypeOK, Meet
<1>2. None \in [kind : Kinds, experts : SUBSET Experts]
  BY DEF None, Kinds
<1>3. ASSUME NEW r \in Ranks
      PROVE  /\ rank'[r] \in RankStates /\ rank'[r].op = None
             /\ ModeOK(rank'[r]) /\ CountsOK(rank'[r])
  <2>1. rank[r] \in RankStates /\ ModeOK(rank[r]) /\ CountsOK(rank[r])
    BY RankFacts
  <2>2. rank'[r] = [rank[r] EXCEPT !.op = None]
    BY <1>1
  <2>3. rank'[r] \in RankStates /\ rank'[r].op = None /\ ModeOK(rank'[r])
    BY <1>2, <2>1, <2>2 DEF RankStates, ModeOK
  <2>4. CountsOK(rank'[r])
    BY <1>1, <2>1, <2>2 DEF RankStates, CountsOK
  <2> QED BY <2>3, <2>4
<1>4. rank' \in [Ranks -> RankStates]
  BY <1>1, <1>3
<1>5. \A r \in Ranks : Alive(r)
  BY <1>1, RankFacts DEF CountsOK, Alive
<1>6. \A r, s \in Ranks : rank[r] = rank[s]
  BY <1>1, <1>5, AheadWaits DEF TrainInv, Lockstep
<1>7. \A r, s \in Ranks : rank'[r] = rank'[s]
  <2> TAKE r, s \in Ranks
  <2>1. rank[r] = rank[s]
    BY <1>6
  <2> QED BY <1>1, <2>1
<1>8. Lockstep'
  BY <1>7 DEF Lockstep
<1>9. TypeOK' /\ NameTellsSteps'
  BY <1>1, <1>4, StoreKeeps DEF TypeOK
<1> QED BY <1>3, <1>8, <1>9 DEF TrainInv

\* Ranks that die leave the others where they were.
LEMMA DeathsKeep ==
  ASSUME TrainInv, NEW D \in SUBSET Ranks,
         rank' = [r \in Ranks |-> IF r \in D THEN Fresh("dead") ELSE rank[r]],
         UNCHANGED <<launch, start, store>>
  PROVE  TrainInv'
<1>1. rank \in [Ranks -> RankStates]
  BY DEF TrainInv, TypeOK
<1>2. rank' \in [Ranks -> RankStates]
  BY <1>1, FreshFacts
<1>3. \A s \in Ranks : ModeOK(rank'[s]) /\ CountsOK(rank'[s])
  BY FreshFacts, RankFacts
<1>4. \A s \in Ranks : Alive(s)' => Alive(s) /\ rank'[s] = rank[s]
  BY FreshFacts DEF Alive
<1>5. Lockstep'
  BY <1>4 DEF TrainInv, Lockstep
<1>6. TypeOK' /\ NameTellsSteps'
  BY <1>2, StoreKeeps DEF TypeOK
<1> QED BY <1>3, <1>5, <1>6 DEF TrainInv

LEMMA RaisesKeeps ==
  ASSUME TrainInv, NEW r \in Ranks, Raises(r)
  PROVE  TrainInv'
<1>1. rank' = [s \in Ranks |-> IF s \in {r} THEN Fresh("dead") ELSE rank[s]]
  BY RankFacts DEF Raises
<1> QED BY <1>1, DeathsKeep DEF Raises

LEMMA KillKeeps ==
  ASSUME TrainInv, LauncherKills
  PROVE  TrainInv'
<1> DEFINE D == {r \in Ranks : ~Ended(r)}
<1>1. rank' = [s \in Ranks |-> IF s \in D THEN Fresh("dead") ELSE rank[s]]
  BY DEF LauncherKills
<1>2. D \in SUBSET Ranks
  OBVIOUS
<1> HIDE DEF D
<1> QED BY <1>1, <1>2, DeathsKeep DEF LauncherKills

LEMMA RelaunchKeeps ==
  ASSUME TrainInv, Relaunch
  PROVE  TrainInv'
<1>1. /\ launch < MaxLaunches /\ launch' = launch + 1 /\ UNCHANGED store
      /\ launch \in 1 .. MaxLaunches /\ MaxLaunches \in Nat
      /\ DOMAIN store \subseteq Names /\ \A e \in DOMAIN store : store[e] \in Contents
  BY Constants DEF Relaunch, TrainInv, TypeOK, Contents
<1>2. PICK at \in {"forward", "load", "dead"} :
        /\ rank' = [r \in Ranks |-> Fresh(at)]
        /\ start' \in Nat
  BY <1>1 DEF Relaunch, Contents
<1>3. rank' \in [Ranks -> RankStates]
  BY <1>2, FreshFacts
<1>4. \A s \in Ranks : ModeOK(rank'[s]) /\ CountsOK(rank'[s])
  BY <1>2, FreshFacts
<1>5. Lockstep'
  BY <1>2 DEF Lockstep
<1>6. TypeOK' /\ NameTellsSteps'
  BY <1>1, <1>2, <1>3 DEF TypeOK, TrainInv, NameTellsSteps, Contents, PerEpoch, Batches
<1> QED BY <1>4, <1>5, <1>6 DEF TrainInv

\* A training starts in its invariant.
THEOREM InitInv == Init => TrainInv
<1> SUFFICES ASSUME Init PROVE TrainInv
  OBVIOUS
<1>1. rank = [r \in Ranks |-> Fresh("forward")] /\ launch = 1 /\ start = 0 /\ store = << >>
  BY DEF Init
<1>2. DOMAIN store = {}
  BY <1>1
<1>3. TypeOK
  BY <1>1, <1>2, FreshFacts, Constants DEF TypeOK
<1>4. \A r \in Ranks : ModeOK(rank[r]) /\ CountsOK(rank[r])
  BY <1>1, FreshFacts
<1>5. Lockstep
  BY <1>1 DEF Lockstep
<1>6. NameTellsSteps
  BY <1>2 DEF NameTellsSteps
<1> QED BY <1>3, <1>4, <1>5, <1>6 DEF TrainInv

\* No step of a rank, of a collective, of the launcher or the user breaks it.
THEOREM StepInv == TrainInv /\ [Next]_vars => TrainInv'
<1> SUFFICES ASSUME TrainInv, [Next]_vars PROVE TrainInv'
  OBVIOUS
<1>1. ASSUME NEW r \in Ranks, RankStep(r) \/ Raises(r) PROVE TrainInv'
  <2>1. CASE Load(r) \/ Loaded(r) \/ Forward(r) \/ Backward(r)
    BY <2>1, LoadKeeps, LoadedKeeps, ForwardKeeps, BackwardKeeps
  <2>2. CASE Norms(r) \/ Step(r) \/ Log(r) \/ NextBatch(r)
    BY <2>2, NormsKeeps, StepKeeps, LogKeeps, NextBatchKeeps
  <2>3. CASE StartEval(r) \/ EvalForward(r) \/ EndEval(r)
    BY <2>3, StartEvalKeeps, EvalForwardKeeps, EndEvalKeeps
  <2>4. CASE Save(r) \/ Write(r) \/ Written(r) \/ NextEpoch(r) \/ Raises(r)
    BY <2>4, SaveKeeps, WriteKeeps, WrittenKeeps, NextEpochKeeps, RaisesKeeps
  <2> QED BY <1>1, <2>1, <2>2, <2>3, <2>4 DEF RankStep
<1>2. CASE Meet \/ LauncherKills \/ Relaunch
  BY <1>2, MeetKeeps, KillKeeps, RelaunchKeeps
<1>3. CASE UNCHANGED vars
  <2>1. PICK D \in SUBSET Ranks : D = {}
    OBVIOUS
  <2>2. rank' = [r \in Ranks |-> IF r \in D THEN Fresh("dead") ELSE rank[r]]
    BY <1>3, <2>1 DEF vars, TrainInv, TypeOK
  <2> QED BY <1>3, <2>2, DeathsKeep DEF vars
<1> QED BY <1>1, <1>2, <1>3 DEF Next

-----------------------------------------------------------------------------
(* The schedule *)

\* Rounded up, a quotient is no more than any multiple that covers.
LEMMA CeilDivBelow ==
  ASSUME NEW a \in Nat \ {0}, NEW b \in Nat \ {0}, NEW k \in Nat, a <= k * b
  PROVE  CeilDiv(a, b) <= k
<1> DEFINE n == a + b - 1
           q == n \div b
<1>1. n \in Nat /\ n < (k + 1) * b
  <2>1. (k + 1) * b = k * b + b /\ k * b \in Nat
    OBVIOUS
  <2> QED BY <2>1
<1> HIDE DEF n
<1>2. q \in Nat /\ n % b \in 0 .. b - 1 /\ n = b * q + (n % b)
  BY <1>1, Division
<1> HIDE DEF q
<1>3. b * q <= n
  <2>1. b * q \in Nat
    BY <1>2
  <2> QED BY <1>2, <2>1
<1>4. ~(q >= k + 1)
  <2> SUFFICES ASSUME q >= k + 1 PROVE FALSE
    OBVIOUS
  <2>1. b * q >= b * (k + 1)
    BY <1>2
  <2>2. b * (k + 1) = (k + 1) * b /\ b * (k + 1) \in Nat /\ b * q \in Nat
    BY <1>2
  <2> QED BY <1>1, <1>3, <2>1, <2>2
<1>5. q <= k
  BY <1>2, <1>4
<1> QED BY <1>5 DEF CeilDiv, n, q

\* And it covers.
LEMMA CeilDivCovers ==
  ASSUME NEW a \in Nat \ {0}, NEW b \in Nat \ {0}
  PROVE  a <= CeilDiv(a, b) * b
<1> DEFINE n == a + b - 1
           q == n \div b
<1>1. n \in Nat
  OBVIOUS
<1> HIDE DEF n
<1>2. q \in Nat /\ n % b \in 0 .. b - 1 /\ n = b * q + (n % b)
  BY <1>1, Division
<1> HIDE DEF q
<1>3. q * b = b * q /\ b * q \in Nat
  BY <1>2
<1>4. a <= q * b
  BY <1>2, <1>3 DEF n
<1> QED BY <1>4 DEF CeilDiv, n, q

\* The steps of a launch are no more than the schedule was told.
LEMMA ScheduleIsLong == (Epochs * P) \div Gas <= TotalSteps
<1> DEFINE window == MicroBatch * Gas * NumRanks
           T == CeilDiv(Samples, window)
           B == CeilDiv(CeilDiv(Samples, NumRanks), MicroBatch)
<1>1. /\ MicroBatch \in Nat \ {0} /\ Gas \in Nat \ {0} /\ NumRanks \in Nat \ {0}
      /\ Epochs \in Nat \ {0} /\ Samples \in Nat \ {0}
  BY Constants
<1>2. MicroBatch * Gas \in Nat \ {0} /\ window \in Nat \ {0}
  BY <1>1
<1>3. T \in Nat \ {0}
  <2> HIDE DEF window
  <2> QED BY <1>1, <1>2, CeilDivType
<1>4. Samples <= T * window
  <2> HIDE DEF window
  <2> QED BY <1>1, <1>2, CeilDivCovers
<1>5. TotalSteps = T * Epochs
  BY DEF TotalSteps
<1>6. P <= B
  <2>1. CeilDiv(Samples, NumRanks) \in Nat \ {0}
    BY <1>1, CeilDivType
  <2>2. B \in Nat \ {0}
    BY <1>1, <2>1, CeilDivType
  <2> QED BY <2>2, Constants DEF P, PerEpoch, Batches
<1> HIDE DEF T
<1>7. B <= T * Gas
  <2>1. T * window = (T * Gas * MicroBatch) * NumRanks
    BY <1>1, <1>3
  <2>2. T * Gas \in Nat /\ T * Gas * MicroBatch \in Nat
    BY <1>1, <1>3
  <2>3. CeilDiv(Samples, NumRanks) \in Nat \ {0}
    BY <1>1, CeilDivType
  <2> HIDE DEF window
  <2>4. CeilDiv(Samples, NumRanks) <= T * Gas * MicroBatch
    BY <1>1, <1>4, <2>1, <2>2, CeilDivBelow
  <2> QED BY <1>1, <2>2, <2>3, <2>4, CeilDivBelow
<1> HIDE DEF window
<1>8. P \in Nat /\ P <= T * Gas
  <2>1. CeilDiv(Samples, NumRanks) \in Nat \ {0}
    BY <1>1, CeilDivType
  <2>2. B \in Nat
    BY <1>1, <2>1, CeilDivType
  <2>3. T * Gas \in Nat
    BY <1>1, <1>3
  <2>4. P \in Nat
    BY PerEpochType
  <2> HIDE DEF B
  <2> QED BY <1>6, <1>7, <2>2, <2>3, <2>4
<1> HIDE DEF B
<1>9. Epochs * P <= Epochs * (T * Gas)
  <2>1. T * Gas \in Nat
    BY <1>1, <1>3
  <2> QED BY <1>1, <1>8, <2>1
<1>10. Epochs * (T * Gas) = (T * Epochs) * Gas
  BY <1>1, <1>3
<1> DEFINE m == Epochs * P
           q == m \div Gas
<1>11. m \in Nat
  BY <1>1, <1>8
<1>12. T * Epochs \in Nat /\ (T * Epochs) * Gas \in Nat
  BY <1>1, <1>3
<1>13. m <= (T * Epochs) * Gas
  BY <1>9, <1>10
<1> HIDE DEF m
<1>14. q \in Nat /\ m % Gas \in 0 .. Gas - 1 /\ m = Gas * q + (m % Gas)
  BY <1>1, <1>11, Division
<1> HIDE DEF q
<1>15. q <= T * Epochs
  <2> DEFINE k == T * Epochs
  <2>1. k \in Nat /\ m <= k * Gas
    BY <1>12, <1>13
  <2> HIDE DEF k
  <2> SUFFICES q <= k
    BY DEF k
  <2> SUFFICES ASSUME q >= k + 1 PROVE FALSE
    BY <1>14, <2>1
  <2>2. Gas * q >= Gas * (k + 1)
    BY <1>1, <1>14, <2>1
  <2>3. Gas * (k + 1) = k * Gas + Gas /\ Gas * q \in Nat /\ k * Gas \in Nat
    BY <1>1, <1>14, <2>1
  <2>4. Gas * q <= m
    BY <1>1, <1>14, <2>3
  <2> QED BY <1>1, <1>11, <2>1, <2>2, <2>3, <2>4
<1> QED BY <1>5, <1>15 DEF q, m

LEMMA OneMore ==
  ASSUME NEW e \in Nat, NEW p \in Nat
  PROVE  (e + 1) * p = e * p + p /\ e * p \in Nat
OBVIOUS

LEMMA MicrosBounded ==
  ASSUME TrainInv, NEW r \in Ranks
  PROVE  rank[r].micros \in Nat /\ rank[r].micros <= Epochs * P
<1>1. rank[r] \in RankStates /\ CountsOK(rank[r])
  BY RankFacts
<1>2. /\ P \in Nat \ {0} /\ Epochs \in Nat \ {0}
      /\ rank[r].micros \in Nat /\ rank[r].epoch \in Nat /\ rank[r].batch \in Nat
      /\ rank[r].epoch + 1 <= Epochs
  BY <1>1, PerEpochType, Constants DEF RankStates, Names
<1>3. (rank[r].epoch + 1) * P <= Epochs * P /\ Epochs * P \in Nat
  BY <1>2
<1>4. (rank[r].epoch + 1) * P = rank[r].epoch * P + P /\ rank[r].epoch * P \in Nat
  BY <1>2, OneMore
<1>5. rank[r].micros <= (rank[r].epoch + 1) * P \/ rank[r].micros <= Epochs * P
  <2>1. CASE rank[r].at \in {"load", "loaded", "dead"}
    BY <1>1, <1>2, <1>3, <2>1 DEF CountsOK
  <2>2. CASE rank[r].at \in InBatch \cup AfterStep
    <3>1. /\ rank[r].batch < P
          /\ \/ rank[r].micros = rank[r].epoch * P + rank[r].batch
             \/ rank[r].micros = rank[r].epoch * P + rank[r].batch + 1
      BY <1>1, <2>2 DEF CountsOK
    <3>2. rank[r].micros <= rank[r].epoch * P + P
      BY <1>2, <1>4, <3>1
    <3> QED BY <1>4, <3>2
  <2>3. CASE rank[r].at \in AtEnd
    BY <1>1, <1>2, <1>4, <2>3 DEF CountsOK
  <2>4. CASE rank[r].at = "done"
    BY <1>1, <1>3, <2>4 DEF CountsOK
  <2>5. rank[r].at \in {"load", "loaded", "dead"} \cup InBatch \cup AfterStep \cup AtEnd \cup {"done"}
    BY <1>1 DEF RankStates, Places, InBatch, AfterStep, AtEnd
  <2> QED BY <2>1, <2>2, <2>3, <2>4, <2>5
<1> QED BY <1>2, <1>3, <1>4, <1>5

-----------------------------------------------------------------------------
(* The properties *)

\* The invariant the other theorems are parts of.
THEOREM Invariant == Spec => []TrainInv
<1>1. Init => TrainInv
  BY InitInv
<1>2. TrainInv /\ [Next]_vars => TrainInv'
  BY StepInv
<1> QED BY <1>1, <1>2, PTL DEF Spec

\* The variables of the training stay in their domains.
THEOREM TypeCorrect == Spec => []TypeOK
<1>1. TrainInv => TypeOK
  BY DEF TrainInv
<1> QED BY <1>1, Invariant, PTL

\* Whatever the batches route to, ranks that wait are in the same collective.
THEOREM RanksMeet == Spec => []NoMismatch
<1>1. ASSUME TrainInv, NEW r \in Ranks, NEW s \in Ranks, Waits(r), Alive(s)
      PROVE  rank[s].at # "done" /\ (Waits(s) => rank[r].op = rank[s].op)
  <2>1. Alive(r)
    BY <1>1, RankFacts DEF Waits, Alive, CountsOK
  <2>2. Ahead(rank[r], start) = rank[r]
    BY <1>1, AheadWaits DEF Waits
  <2>3. Ahead(rank[s], start) = rank[r]
    BY <1>1, <2>1, <2>2 DEF TrainInv, Lockstep
  <2>4. Waits(s) => rank[s] = rank[r]
    BY <2>3, AheadWaits DEF Waits
  <2>5. ASSUME rank[s].at = "done" PROVE FALSE
    <3>1. rank[s].op = None
      BY <1>1, <2>5, RankFacts DEF CountsOK
    <3>2. Ahead(rank[s], start) = rank[s]
      BY <2>5, <3>1, AheadOf
    <3> QED BY <1>1, <2>3, <3>1, <3>2 DEF Waits
  <2> QED BY <2>4, <2>5
<1>2. TrainInv => NoMismatch
  BY <1>1 DEF NoMismatch
<1> QED BY <1>2, Invariant, PTL

\* While not every rank has ended, one of them runs, a collective is complete, or
\* the launcher has a dead rank to clean up after.
SomethingGoesOn ==
  (\A r \in Ranks : Ended(r)) \/
    \/ \E r \in Ranks : ~Ended(r) /\ ~Waits(r)
    \/ \A r \in Ranks : Waits(r) /\ rank[r].op = rank[0].op
    \/ \E r \in Ranks : ~Alive(r)

\* No launch stands still: the safety part of AllEnd, for any number of ranks.
THEOREM LaunchesNeverHang == Spec => []SomethingGoesOn
<1>1. ASSUME NoMismatch, ~SomethingGoesOn PROVE FALSE
  <2>1. \A r \in Ranks : Alive(r) /\ (Ended(r) \/ Waits(r))
    BY <1>1 DEF SomethingGoesOn
  <2>2. PICK q \in Ranks : Waits(q)
    BY <1>1, <2>1 DEF SomethingGoesOn
  <2>3. \A r \in Ranks : Waits(r)
    BY <1>1, <2>1, <2>2 DEF NoMismatch, Ended, Alive
  <2>4. \A r \in Ranks : rank[r].op = rank[0].op
    BY <1>1, <2>1, <2>3, Constants DEF NoMismatch
  <2> QED BY <1>1, <2>3, <2>4 DEF SomethingGoesOn
<1>2. NoMismatch => SomethingGoesOn
  BY <1>1
<1> QED BY <1>2, RanksMeet, PTL

\* Slices that a collective puts together are of one version of the weights.
THEOREM VersionsMeet == Spec => []OneVersion
<1>1. ASSUME TrainInv, NEW r \in Ranks, NEW s \in Ranks, Waits(r), Waits(s)
      PROVE  rank[r].steps = rank[s].steps /\ rank[r].master = rank[s].master
  <2>1. Alive(r) /\ Alive(s)
    BY <1>1, RankFacts DEF Waits, Alive, CountsOK
  <2>2. Ahead(rank[r], start) = rank[r] /\ Ahead(rank[s], start) = rank[s]
    BY <1>1, AheadWaits DEF Waits
  <2>3. rank[r] = rank[s]
    BY <1>1, <2>1, <2>2 DEF TrainInv, Lockstep
  <2> QED BY <2>3
<1>2. TrainInv => OneVersion
  BY <1>1 DEF OneVersion
<1> QED BY <1>2, Invariant, PTL

\* Whichever launch wrote it, the checkpoint of an epoch holds the whole windows of
\* the epochs up to it, and none of what that launch resumed from.
THEOREM CheckpointsHoldWindows == Spec => []NameTellsSteps
<1>1. TrainInv => NameTellsSteps
  BY DEF TrainInv
<1> QED BY <1>1, Invariant, PTL

\* Whatever the sizes, the learning rate is scheduled for every step taken.
THEOREM ScheduleSuffices == Spec => []ScheduleCovers
<1>1. ASSUME TrainInv, NEW r \in Ranks
      PROVE  rank[r].micros \div Gas <= TotalSteps
  <2> DEFINE n == rank[r].micros
             m == Epochs * P
  <2>1. n \in Nat /\ n <= m /\ m \in Nat /\ Gas \in Nat \ {0}
    BY <1>1, MicrosBounded, PerEpochType, Constants
  <2>2. m \div Gas <= TotalSteps
    BY ScheduleIsLong
  <2>3. TotalSteps \in Nat
    <3>1. MicroBatch * Gas \in Nat \ {0} /\ MicroBatch * Gas * NumRanks \in Nat \ {0}
      BY Constants
    <3>2. CeilDiv(Samples, MicroBatch * Gas * NumRanks) \in Nat
      BY <3>1, Constants, CeilDivType
    <3> QED BY <3>2, Constants DEF TotalSteps
  <2> HIDE DEF n, m
  <2>4. n \div Gas <= m \div Gas /\ n \div Gas \in Nat /\ m \div Gas \in Nat
    BY <2>1, SMT
  <2>5. n \div Gas <= TotalSteps
    BY <2>2, <2>3, <2>4
  <2> QED BY <2>5 DEF n
<1>2. TrainInv => ScheduleCovers
  BY <1>1 DEF ScheduleCovers
<1> QED BY <1>2, Invariant, PTL
=============================================================================
