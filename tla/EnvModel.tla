------------------------------- MODULE EnvModel -------------------------------
(***************************************************************************)
(* The model of the environment that a planner reads (NotDetEnvModel): the *)
(* arrival rates in bands up to the highest one seen, the index of the     *)
(* band that is closest to a rate, and the module environment of the       *)
(* planner's language.  Nothing in src/ calls it.                          *)
(*                                                                         *)
(* Indices are unsigned numbers; UintMax stands for UINT_MAX.  The search  *)
(* dereferences the end of the set for a rate above all bands; the build's *)
(* standard library keeps the size of the set there, and the model does so *)
(* too.                                                                    *)
(*                                                                         *)
(* A perfect environment (perfectEnv, false unless somebody sets it) is a  *)
(* table of the mean inter-arrival times to come.  Each model that is      *)
(* written covers the next part of it, and a search for the current time   *)
(* goes on where the last one stopped; both positions outlive the call.    *)
(***************************************************************************)
EXTENDS Integers, SequencesExt, FiniteSetsExt

CONSTANTS
  MinRate, BandWidth, InitialMaxRate,  \* MINARRIVALRATE, BANDWIDTH, INITIALMAXARRIVALRATE
  RateSeen,          \* arrival rates
  MaxUpdates,        \* bound on the number of updates
  PerfectArrivals,   \* env: the table of a perfect environment
  Horizon,           \* horizon
  Tolerance          \* times that differ by less are taken to be the same

ASSUME EnvModelAssumption ==
  /\ MinRate \in Nat \ {0} /\ BandWidth \in Nat \ {0} /\ InitialMaxRate \in Nat
  /\ RateSeen \subseteq Nat /\ MaxUpdates \in Nat
  /\ PerfectArrivals \in Seq(Nat) /\ PerfectArrivals # <<>>
  /\ Horizon \in Nat \ {0} /\ Tolerance \in Nat \ {0}

VARIABLES
  maxRate,           \* mMaxArrivalRate
  rates,             \* mInterArrivalRates, in order
  prismModel,        \* what getEnvPrismModel has written last, and for which rate
  updates,           \* number of updates
  perfectEnv,        \* perfectEnv
  index1, position,  \* index1; the static k of getClosestArrivalRateIndex
  lookUp             \* history: the last search in the table and its result

envVars == <<maxRate, rates, prismModel, updates, perfectEnv, index1, position, lookUp>>

UintMax == -1

(* buildModel                                                              *)
BuildModel(highest) ==
  SetToSortSeq({MinRate} \cup {r \in MinRate .. highest : (r - MinRate) % BandWidth = 0}, <)

(* What the search of getClosestArrivalRateIndex stops with: how many      *)
(* rates it has passed and the one it compares with.                       *)
Passed(bands, rate) ==
  LET below == Len(SelectSeq(bands, LAMBDA b : b < rate))
  IN  [counter |-> below,
       reached |-> IF below < Len(bands) THEN bands[below + 1] ELSE Len(bands)]

(* Seeded fault: the band reached is taken, whether it is closest or not.  *)
ClosestIndexAbove(bands, highest, rate) ==
  IF rate <= MinRate THEN 0
  ELSE IF rate <= highest + BandWidth \div 2
  THEN LET p == Passed(bands, rate)
       IN  IF p.reached >= rate THEN p.counter ELSE p.counter - 1
  ELSE UintMax

(* getClosestArrivalRateIndex                                              *)
ClosestIndex(bands, highest, rate) ==
  IF rate <= MinRate THEN 0
  ELSE IF rate <= highest + BandWidth \div 2
  THEN LET p == Passed(bands, rate)
       IN  IF p.reached >= rate /\ p.reached - BandWidth \div 2 < rate THEN p.counter
           ELSE p.counter - 1
  ELSE UintMax

Near(a, b) == a - b < Tolerance /\ b - a < Tolerance
LastArrivalIndex == Len(PerfectArrivals) - 1

(* Where the search for a mean time stops: beyond the table if it is none  *)
(* of those that are left.                                                 *)
PositionOf(mean) ==
  Min({i \in position .. LastArrivalIndex : Near(PerfectArrivals[i + 1], mean)}
      \cup {Len(PerfectArrivals)})

NoModel == [states |-> {}]

EnvInit ==
  /\ perfectEnv \in BOOLEAN
  /\ maxRate = InitialMaxRate
  /\ rates = IF perfectEnv THEN <<>> ELSE BuildModel(InitialMaxRate)
  /\ prismModel = NoModel
  /\ updates = 0
  /\ index1 = 0 /\ position = 0
  /\ lookUp = [mean |-> 0, position |-> Len(PerfectArrivals), index |-> 0]

(* updateModel, which takes the rate down to a whole band and adds one.    *)
UpdateModel(rate) ==
  /\ updates < MaxUpdates /\ updates' = updates + 1
  /\ maxRate' = BandWidth * (rate \div BandWidth + 1)
  /\ rates' = IF perfectEnv THEN rates ELSE BuildModel(maxRate')
  /\ UNCHANGED <<prismModel, perfectEnv, index1, position, lookUp>>

(* getEnvPrismModel: one command that goes to any state with the same      *)
(* probability, or one command for each.                                   *)
WriteModel(rate, probabilistic) ==
  LET states == 0 .. Len(rates) - 1
  IN  /\ ~perfectEnv
      /\ prismModel' = [rate |-> rate, bands |-> rates, highest |-> maxRate,
                        states |-> states,
                        start |-> ClosestIndex(rates, maxRate, rate),
                        commands |-> IF probabilistic THEN {states} ELSE {{s} : s \in states}]
      /\ UNCHANGED <<maxRate, rates, updates, perfectEnv, index1, position, lookUp>>

(* getEnvPrismModel of a perfect environment: each state goes to the next  *)
(* one, the last one to none; the next model starts with it.               *)
WritePerfectModel ==
  /\ perfectEnv /\ index1 <= LastArrivalIndex
  /\ prismModel' = [states |-> 0 .. Horizon + 1,
                    values |-> [s \in 0 .. Horizon + 1 |->
                                  PerfectArrivals[Min({index1 + s, LastArrivalIndex}) + 1]],
                    from |-> index1]
  /\ index1' = index1 + Horizon + 1
  /\ UNCHANGED <<maxRate, rates, updates, perfectEnv, position, lookUp>>

(* getClosestArrivalRateIndex with a search, in a perfect environment.     *)
LookUp(mean) ==
  /\ perfectEnv
  /\ position' = PositionOf(mean)
  /\ lookUp' = [mean |-> mean, position |-> position', index |-> position' % (Horizon + 1)]
  /\ UNCHANGED <<maxRate, rates, prismModel, updates, perfectEnv, index1>>

EnvNext ==
  \/ \E rate \in RateSeen :
       UpdateModel(rate) \/ \E probabilistic \in BOOLEAN : WriteModel(rate, probabilistic)
  \/ WritePerfectModel
  \/ \E i \in DOMAIN PerfectArrivals : LookUp(PerfectArrivals[i])

(***************************************************************************)
(* Properties                                                              *)
(***************************************************************************)

(* The model that is written starts in one of its states, the one whose    *)
(* rate is closest to the given one (the lower of two), for all rates that *)
(* exceed the highest band by half a band at most, and so for all that are *)
(* not above the one of the last updateModel; all of its states can be     *)
(* reached; and above that it starts in none (UINT_MAX).  The index of a   *)
(* time in a perfect environment is the state of the model that has that   *)
(* time, as long as it is found in the part which the model covers, though *)
(* the two keep their positions in the table apart.                        *)
EnvStartsClosest ==
  /\ prismModel # NoModel /\ ~perfectEnv =>
       LET Distance(s) ==
             LET d == prismModel.bands[s + 1] - prismModel.rate IN IF d < 0 THEN -d ELSE d
       IN  IF prismModel.rate <= prismModel.highest + BandWidth \div 2
           THEN /\ prismModel.start \in prismModel.states
                /\ UNION prismModel.commands = prismModel.states
                /\ \A s \in prismModel.states :
                     /\ Distance(prismModel.start) <= Distance(s)
                     /\ Distance(prismModel.start) = Distance(s) => prismModel.start <= s
           ELSE prismModel.start = UintMax
  /\ prismModel # NoModel /\ perfectEnv =>
       \/ lookUp.position \notin prismModel.from .. prismModel.from + Horizon
       \/ lookUp.position > LastArrivalIndex
       \/ Near(prismModel.values[lookUp.index], lookUp.mean)

=============================================================================
