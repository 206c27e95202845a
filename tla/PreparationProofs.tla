------------------------- MODULE PreparationProofs -------------------------
(***************************************************************************)
(* Theorems about Preparation: whatever the sizes and the number of        *)
(* threads, blocks never overlap and no phase begins before every item of  *)
(* the one before is done.                                                 *)
(***************************************************************************)
EXTENDS Preparation, SumsProofs

\* Facts about numbers.
LEMMA ScaledLeq ==
  ASSUME NEW s \in Nat, NEW a \in Nat, NEW b \in Nat, a <= b
  PROVE  s * a \in Nat /\ s * b \in Nat /\ s * a <= s * b
<1>1. PICK c \in Nat : b = a + c
  <2>1. b - a \in Nat /\ b = a + (b - a)
    OBVIOUS
  <2> QED BY <2>1
<1>2. s * b = s * a + s * c /\ s * a \in Nat /\ s * c \in Nat
  BY <1>1
<1> QED BY <1>2

LEMMA MinOfTwo ==
  ASSUME NEW a \in Nat, NEW b \in Nat
  PROVE  Min({a, b}) \in {a, b} /\ Min({a, b}) <= a /\ Min({a, b}) <= b
<1>1. \E x \in {a, b} : \A y \in {a, b} : x <= y
  OBVIOUS
<1> QED BY <1>1 DEF Min

\* Sizes are numbers, and blocks are not empty.
LEMMA NumberFacts ==
  ASSUME Typed
  PROVE  /\ config.series_length \in Nat /\ config.sax_length \in Nat /\ config.cpu_cores \in Nat
         /\ Size \in Nat /\ Items \in Nat /\ Scale \in Nat
         /\ phase \in Runs => BlockSize \in Nat \ {0}
<1>1. \A field \in Numbers : config[field] \in Nat
  BY DEF Typed
<1>2. /\ config.series_length \in Nat /\ config.sax_length \in Nat /\ config.cpu_cores \in Nat
      /\ config.database_size \in Nat /\ config.query_size \in Nat
  BY <1>1 DEF Numbers
<1>3. Size \in Nat
  BY <1>2 DEF Size
<1>4. Items \in Nat /\ Scale \in Nat
  BY <1>2, <1>3 DEF Items, Scale
<1>5. ASSUME phase \in Runs PROVE BlockSize \in Nat \ {0}
  <2>1. config.max_threads \in Nat \ {0}
    BY <1>5 DEF Typed, Runs
  <2>2. 4 * config.max_threads \in Nat \ {0} /\ 2 * config.max_threads \in Nat \ {0}
    BY <2>1
  <2>3. \A n \in Nat, d \in Nat \ {0} : n \div d \in Nat
    OBVIOUS
  <2>4. Size \div (4 * config.max_threads) \in Nat /\ Size \div (2 * config.max_threads) \in Nat
    BY <1>3, <2>2, <2>3
  <2> QED BY <1>5, <2>4 DEF BlockSize, Runs
<1> QED BY <1>2, <1>3, <1>4, <1>5

----------------------------------------------------------------------------
(* Configuration *)

\* An option changes no other field, and its own to a number if it is one.
LEMMA OptionsKeepTypes ==
  ASSUME Typed, ParseOption
  PROVE  /\ DOMAIN config' = DOMAIN Defaults /\ \A field \in Numbers : config'[field] \in Nat
         /\ arguments' \in Seq(Options)
<1>1. arguments \in Seq(Options) /\ arguments # << >>
  BY DEF Typed, ParseOption
<1>2. Head(arguments) \in Options /\ Tail(arguments) \in Seq(Options)
  BY <1>1
<1> DEFINE option == Head(arguments)
<1>3. option.field \in Numbers => option.value \in Nat
  <2>1. \A field \in Numbers : field \notin Flags \cup Filepaths \cup {"scale_factor"}
    BY DEF Numbers, Flags, Filepaths
  <2> QED BY <1>2, <2>1, ConfigurationAssumption
<1>4. config' = [config EXCEPT ![option.field] = option.value]
  BY DEF ParseOption
<1> HIDE DEF option
<1>5. DOMAIN config' = DOMAIN Defaults
  BY <1>4 DEF Typed
<1>6. \A field \in Numbers : config'[field] \in Nat
  <2>1. \A field \in Numbers : field \in DOMAIN Defaults
    BY DEF Numbers, Defaults
  <2>2. \A field \in Numbers : config'[field] = IF field = option.field THEN option.value
                                                                       ELSE config[field]
    BY <1>4, <2>1 DEF Typed
  <2> QED BY <1>3, <2>2 DEF Typed
<1> QED BY <1>2, <1>5, <1>6 DEF ParseOption

LEMMA AcceptedKeepsTypes ==
  ASSUME Typed, Accept
  PROVE  /\ DOMAIN config' = DOMAIN Defaults /\ \A field \in Numbers : config'[field] \in Nat
         /\ config'.max_threads \in Nat \ {0}
<1>1. config.cpu_cores \in Nat \ {0}
  BY NumberFacts DEF Accept, Acceptable
<1>2. "max_threads" \in DOMAIN config
  BY DEF Typed, Defaults
<1>3. config'.max_threads = config.cpu_cores /\ DOMAIN config' = DOMAIN config
      /\ \A field \in DOMAIN config \ {"max_threads", "scale_factor"} :
            config'[field] = config[field]
  BY <1>2 DEF Accept, initializeThreads
<1>4. \A field \in Numbers : field \in DOMAIN config \ {"max_threads", "scale_factor"}
  BY DEF Numbers, Defaults, Typed
<1> QED BY <1>1, <1>3, <1>4 DEF Typed

LEMMA ConfigureStep ==
  ASSUME IInv, Configure
  PROVE  IInv'
<1> USE DEF IInv
<1>0. phase = "options"
  BY DEF Configure, InitializeConfig, ParseOption, Accept, Abort
<1>1. /\ UNCHANGED <<set, counter, pc, at, stop, paas, breakpoints, saxs>>
      /\ phase \notin Runs /\ phase' \in {"options", "configured", "aborted"}
  BY DEF Configure, results, InitializeConfig, ParseOption, Accept, Abort, Runs
<1>2. Typed'
  <2>1. CASE ParseOption
    BY <1>1, <2>1, OptionsKeepTypes DEF ParseOption, Typed
  <2>2. CASE Accept
    BY <1>1, <2>2, AcceptedKeepsTypes DEF Accept, Typed
  <2>3. CASE Abort
    BY <1>1, <2>3 DEF Abort, configuration, Typed
  <2> QED BY <2>1, <2>2, <2>3 DEF Configure, InitializeConfig
<1>3. BlocksClaimed'
  BY <1>1 DEF BlocksClaimed, Runs
<1>4. BlocksApart'
  BY <1>1 DEF BlocksApart
<1>5. BlocksDone' /\ NothingReadEarly'
  BY <1>0, <1>1 DEF BlocksDone, NothingReadEarly
<1> QED BY <1>2, <1>3, <1>4, <1>5

----------------------------------------------------------------------------
(* Threads at work *)

\* What a step of a thread leaves alone.
LEMMA WorkFrame ==
  ASSUME Typed, NEW t \in Threads, Work(t)
  PROVE  /\ UNCHANGED <<arguments, config, processors, phase, set>>
         /\ \A u \in Threads \ {t} : pc'[u] = pc[u] /\ at'[u] = at[u] /\ stop'[u] = stop[u]
         /\ pc[t] \in {"claim", "work"}
<1> USE DEF constant, configuration, Typed
<1>1. CASE Claim(t)
  BY <1>1 DEF Claim, StartMeans, StartItems
<1>2. CASE BlockDone(t)
  BY <1>2 DEF BlockDone
<1>3. CASE AddValue(t)
  BY <1>3 DEF AddValue
<1>4. CASE ExtractBreakpoints(t)
  BY <1>4 DEF ExtractBreakpoints
<1>5. CASE FindWord(t)
  BY <1>5 DEF FindWord
<1> QED BY <1>1, <1>2, <1>3, <1>4, <1>5 DEF Work

\* A block that is claimed begins at the counter and ends before the next one.
LEMMA ClaimFacts ==
  ASSUME Typed, phase \in Runs, NEW t \in Threads, Claim(t)
  PROVE  /\ counter' \in Nat /\ counter < counter' /\ UNCHANGED results
         /\ pc' \in [Threads -> {"idle", "claim", "work"}]
         /\ at' \in [Threads -> Nat] /\ stop' \in [Threads -> Nat]
         /\ counter < Items =>
              /\ pc'[t] = "work" /\ at'[t] = Scale * counter
              /\ at'[t] <= stop'[t] /\ stop'[t] <= Scale * counter'
              /\ phase # "meansRun" =>
                   \A i \in 0 .. Items - 1 : counter <= i /\ i < counter' =>
                     at'[t] <= i /\ i < stop'[t]
         /\ ~(counter < Items) => pc'[t] = "idle"
<1>1. counter \in Nat /\ Items \in Nat /\ Scale \in Nat /\ BlockSize \in Nat \ {0}
      /\ config.series_length \in Nat
  BY NumberFacts DEF Typed
<1>2. counter' = counter + BlockSize /\ counter' \in Nat /\ counter < counter' /\ pc[t] = "claim"
      /\ UNCHANGED results
  BY <1>1 DEF Claim
<1>3. ~(counter < Items) =>
        /\ pc' = [pc EXCEPT ![t] = "idle"] /\ at' = at /\ stop' = stop
  BY DEF Claim
<1>4. ASSUME counter < Items
      PROVE  /\ pc' = [pc EXCEPT ![t] = "work"]
             /\ at' = [at EXCEPT ![t] = Scale * counter]
             /\ stop' = [stop EXCEPT ![t] = Scale * BlockStop(counter)]
  <2>1. CASE phase = "meansRun"
    BY <1>4, <2>1 DEF Claim, StartMeans, Scale
  <2>2. CASE phase # "meansRun"
    <3>1. BlockStop(counter) \in Nat
      BY <1>1, MinOfTwo DEF BlockStop
    <3>2. Scale * counter = counter /\ Scale * BlockStop(counter) = BlockStop(counter)
      BY <1>1, <2>2, <3>1 DEF Scale
    <3> QED BY <1>4, <2>2, <3>2 DEF Claim, StartItems
  <2> QED BY <2>1, <2>2
<1>5. /\ BlockStop(counter) \in Nat /\ BlockStop(counter) <= counter'
      /\ counter < Items => counter <= BlockStop(counter)
      /\ \A i \in 0 .. Items - 1 : i < counter' => i < BlockStop(counter)
  BY <1>1, <1>2, MinOfTwo DEF BlockStop
<1>6. /\ Scale * counter \in Nat /\ Scale * BlockStop(counter) \in Nat
      /\ Scale * BlockStop(counter) <= Scale * counter'
      /\ counter < Items => Scale * counter <= Scale * BlockStop(counter)
  BY <1>1, <1>2, <1>5, ScaledLeq
<1>7. phase # "meansRun" => Scale * counter = counter /\ Scale * BlockStop(counter) = BlockStop(counter)
  BY <1>1, <1>5 DEF Scale
<1> QED BY <1>2, <1>3, <1>4, <1>5, <1>6, <1>7 DEF Typed

\* A thread at work in its block, or at its end.
LEMMA ItemFacts ==
  ASSUME Typed, BlocksClaimed, NEW t \in Threads, Work(t), ~Claim(t)
  PROVE  /\ counter' = counter /\ stop' = stop /\ pc[t] = "work"
         /\ pc' \in [Threads -> {"idle", "claim", "work"}] /\ at' \in [Threads -> Nat]
         /\ \/ pc' = pc /\ at[t] < stop[t] /\ at'[t] = at[t] + 1
            \/ pc'[t] = "claim" /\ at[t] = stop[t] /\ BlockDone(t)
<1>1. CASE BlockDone(t)
  BY <1>1 DEF BlockDone, Typed
<1>2. CASE AddValue(t)
  BY <1>2 DEF AddValue, Typed, BlocksClaimed
<1>3. CASE ExtractBreakpoints(t)
  BY <1>3 DEF ExtractBreakpoints, Typed, BlocksClaimed
<1>4. CASE FindWord(t)
  BY <1>4 DEF FindWord, Typed, BlocksClaimed
<1> QED BY <1>1, <1>2, <1>3, <1>4 DEF Work

LEMMA WorkClaimed ==
  ASSUME Typed, BlocksClaimed, BlocksApart, phase \in Runs, NEW t \in Threads, Work(t)
  PROVE  Typed' /\ BlocksClaimed' /\ BlocksApart'
<1>1. /\ UNCHANGED <<arguments, config, processors, phase, set>>
      /\ \A u \in Threads \ {t} : pc'[u] = pc[u] /\ at'[u] = at[u] /\ stop'[u] = stop[u]
  BY WorkFrame
<1>2. /\ Items' = Items /\ Scale' = Scale
      /\ counter \in Nat /\ Items \in Nat /\ Scale \in Nat
      /\ \A u \in Threads : at[u] \in Nat /\ stop[u] \in Nat
  BY <1>1, NumberFacts DEF Items, Size, Scale, Typed
<1>3. CASE Claim(t)
  <2>1. /\ counter' \in Nat /\ counter < counter'
        /\ pc' \in [Threads -> {"idle", "claim", "work"}]
        /\ at' \in [Threads -> Nat] /\ stop' \in [Threads -> Nat]
        /\ counter < Items => /\ pc'[t] = "work" /\ at'[t] = Scale * counter
                              /\ at'[t] <= stop'[t] /\ stop'[t] <= Scale * counter'
        /\ ~(counter < Items) => pc'[t] = "idle"
    BY <1>3, ClaimFacts
  <2>2. Typed'
    BY <1>1, <2>1 DEF Typed
  <2>3. Scale * counter \in Nat /\ Scale * counter' \in Nat /\ Scale * counter <= Scale * counter'
    <3>1. Scale \in Nat /\ counter \in Nat /\ counter' \in Nat /\ counter <= counter'
      BY <1>2, <2>1
    <3> HIDE DEF Scale
    <3> QED BY <3>1, ScaledLeq
  <2>4. \A u \in Threads \ {t} : pc'[u] = "work" =>
          at'[u] <= stop'[u] /\ stop'[u] <= Scale * counter
    BY <1>1 DEF BlocksClaimed
  <2>5. BlocksClaimed'
    <3>1. pc'[1] # "idle" \/ counter' >= Items
      <4>1. CASE t = 1
        BY <1>2, <2>1, <4>1
      <4>2. CASE t # 1
        BY <1>1, <1>2, <2>1, <4>2, PreparationAssumption DEF BlocksClaimed, Threads
      <4> QED BY <4>1, <4>2
    <3>2. ASSUME NEW u \in Threads, pc'[u] = "work"
          PROVE  at'[u] <= stop'[u] /\ stop'[u] <= Scale * counter'
      <4>1. CASE u = t
        BY <2>1, <3>2, <4>1
      <4>2. CASE u # t
        BY <1>1, <1>2, <2>3, <2>4, <3>2, <4>2
      <4> QED BY <4>1, <4>2
    <3> QED BY <1>1, <1>2, <3>1, <3>2 DEF BlocksClaimed
  <2>6. BlocksApart'
    <3> SUFFICES ASSUME NEW u \in Threads, NEW v \in Threads, u # v, pc'[u] = "work", pc'[v] = "work"
                 PROVE  stop'[u] <= at'[v] \/ stop'[v] <= at'[u]
      BY DEF BlocksApart
    <3>1. CASE u = t
      BY <2>1, <2>4, <3>1
    <3>2. CASE v = t
      BY <2>1, <2>4, <3>2
    <3>3. CASE u # t /\ v # t
      BY <1>1, <3>3 DEF BlocksApart
    <3> QED BY <3>1, <3>2, <3>3
  <2> QED BY <2>2, <2>5, <2>6
<1>4. CASE ~Claim(t)
  <2>1. /\ counter' = counter /\ stop' = stop /\ pc[t] = "work"
        /\ pc' \in [Threads -> {"idle", "claim", "work"}] /\ at' \in [Threads -> Nat]
        /\ \/ pc' = pc /\ at[t] < stop[t] /\ at'[t] = at[t] + 1
           \/ pc'[t] = "claim" /\ at[t] = stop[t]
    BY <1>4, ItemFacts
  <2>2. Typed'
    BY <1>1, <2>1 DEF Typed
  <2>3. BlocksClaimed'
    <3>1. pc'[1] # "idle" \/ counter' >= Items
      BY <1>1, <2>1, PreparationAssumption DEF BlocksClaimed, Threads
    <3>2. ASSUME NEW u \in Threads, pc'[u] = "work"
          PROVE  at'[u] <= stop'[u] /\ stop'[u] <= Scale * counter'
      <4>1. CASE u = t
        BY <1>2, <2>1, <3>2, <4>1 DEF BlocksClaimed
      <4>2. CASE u # t
        BY <1>1, <2>1, <3>2, <4>2 DEF BlocksClaimed
      <4> QED BY <4>1, <4>2
    <3> QED BY <1>1, <1>2, <3>1, <3>2 DEF BlocksClaimed
  <2>4. BlocksApart'
    <3> SUFFICES ASSUME NEW u \in Threads, NEW v \in Threads, u # v, pc'[u] = "work", pc'[v] = "work"
                 PROVE  stop'[u] <= at'[v] \/ stop'[v] <= at'[u]
      BY DEF BlocksApart
    <3>1. \A w \in Threads : pc'[w] = "work" => /\ pc[w] = "work" /\ at[w] <= at'[w]
                                               /\ at'[w] \in Nat /\ stop'[w] = stop[w]
      BY <1>1, <1>2, <2>1
    <3>2. stop[u] <= at[v] \/ stop[v] <= at[u]
      BY <3>1 DEF BlocksApart
    <3> QED BY <1>2, <3>1, <3>2
  <2> QED BY <2>2, <2>3, <2>4
<1> QED BY <1>3, <1>4

\* The items that are open are those not done.
LEMMA WorkDone ==
  ASSUME IInv, phase \in Runs, NEW t \in Threads, Work(t)
  PROVE  BlocksDone' /\ NothingReadEarly'
<1> USE DEF IInv
<1>1. /\ UNCHANGED <<arguments, config, processors, phase, set>>
      /\ \A u \in Threads \ {t} : pc'[u] = pc[u] /\ at'[u] = at[u] /\ stop'[u] = stop[u]
  BY WorkFrame
<1>2. /\ Segments' = Segments /\ Series' = Series /\ Items' = Items /\ Items \in Nat
      /\ phase = "quantilesRun" => Segments = 0 .. Items - 1
      /\ phase = "wordsRun" => Series = 0 .. Items - 1
      /\ counter \in Nat /\ \A u \in Threads : at[u] \in Nat /\ stop[u] \in Nat
  BY <1>1, NumberFacts DEF Segments, Series, Items, Size, Typed
<1>3. paas' = paas => /\ \A g \in Segments : Column(g)' = Column(g)
                      /\ breakpoints' = breakpoints => \A s \in Series : WordOf(s)' = WordOf(s)
  BY <1>1, <1>2 DEF Column, WordOf
<1>4. CASE Claim(t)
  <2>1. /\ UNCHANGED results /\ counter < counter' /\ counter' \in Nat /\ pc[t] = "claim"
        /\ counter < Items => pc'[t] = "work"
        /\ counter < Items /\ phase # "meansRun" =>
              \A i \in 0 .. Items - 1 : counter <= i /\ i < counter' => at'[t] <= i /\ i < stop'[t]
    BY <1>4, ClaimFacts DEF Claim
  <2>2. ASSUME phase # "meansRun", NEW i \in 0 .. Items - 1, Open(i) PROVE Open(i)'
    <3>1. CASE i >= counter
      <4>1. counter < Items
        BY <1>2, <3>1
      <4> QED BY <1>2, <2>1, <2>2, <3>1, <4>1 DEF Open
    <3>2. CASE \E u \in Threads : pc[u] = "work" /\ at[u] <= i /\ i < stop[u]
      BY <1>1, <2>1, <3>2 DEF Open
    <3> QED BY <2>2, <3>1, <3>2 DEF Open
  <2>3. BlocksDone'
    BY <1>1, <1>2, <1>3, <2>1, <2>2 DEF BlocksDone, results
  <2>4. NothingReadEarly'
    BY <1>1, <1>2, <1>3, <2>1 DEF NothingReadEarly, results, Runs
  <2> QED BY <2>3, <2>4
<1>5. CASE ~Claim(t)
  <2>1. /\ counter' = counter /\ stop' = stop /\ pc[t] = "work"
        /\ \/ pc' = pc /\ at[t] < stop[t] /\ at'[t] = at[t] + 1
           \/ pc'[t] = "claim" /\ at[t] = stop[t] /\ BlockDone(t)
    BY <1>5, ItemFacts
  <2>2. \A i \in Nat : Open(i) => Open(i)' \/ (i = at[t] /\ at[t] < stop[t])
    <3> SUFFICES ASSUME NEW i \in Nat, Open(i), ~(i = at[t] /\ at[t] < stop[t]) PROVE Open(i)'
      OBVIOUS
    <3>1. CASE i >= counter
      BY <2>1, <3>1 DEF Open
    <3>2. CASE \E u \in Threads : pc[u] = "work" /\ at[u] <= i /\ i < stop[u]
      <4>1. PICK u \in Threads : pc[u] = "work" /\ at[u] <= i /\ i < stop[u]
        BY <3>2
      <4>2. CASE u = t
        BY <1>2, <2>1, <4>1, <4>2 DEF Open
      <4>3. CASE u # t
        BY <1>1, <4>1, <4>3 DEF Open
      <4> QED BY <4>2, <4>3
    <3> QED BY <3>1, <3>2 DEF Open
  <2>3. (\A g \in Segments : g \in Nat) /\ (\A s \in Series : s \in Nat)
    BY NumberFacts DEF Segments, Series
  <2>4. CASE BlockDone(t)
    <3>1. UNCHANGED results /\ ~(at[t] < stop[t])
      BY <1>2, <2>4 DEF BlockDone
    <3>2. \A i \in Nat : Open(i) => Open(i)'
      BY <2>2, <3>1
    <3> QED BY <1>1, <1>2, <1>3, <2>3, <3>1, <3>2 DEF BlocksDone, NothingReadEarly, results, Runs
  <2>5. CASE AddValue(t)
    <3>1. phase = "meansRun" /\ UNCHANGED <<breakpoints, saxs>>
      BY <2>5 DEF AddValue
    <3> QED BY <1>1, <1>2, <3>1 DEF BlocksDone, NothingReadEarly
  <2>6. CASE ExtractBreakpoints(t)
    <3>1. /\ phase = "quantilesRun" /\ UNCHANGED <<paas, saxs>>
          /\ breakpoints' = [breakpoints EXCEPT ![at[t]] = Column(at[t])]
      BY <2>6 DEF ExtractBreakpoints
    <3>2. DOMAIN breakpoints = Segments
      BY <3>1 DEF BlocksDone
    <3>3. \A g \in Segments : breakpoints'[g] = Column(g)' \/ Open(g)'
      BY <1>3, <2>2, <2>3, <3>1, <3>2 DEF BlocksDone
    <3> QED BY <1>1, <1>2, <3>1, <3>2, <3>3 DEF BlocksDone, NothingReadEarly
  <2>7. CASE FindWord(t)
    <3>1. /\ phase = "wordsRun" /\ UNCHANGED <<paas, breakpoints>>
          /\ saxs' = [saxs EXCEPT ![at[t]] = WordOf(at[t])]
      BY <2>7 DEF FindWord
    <3>2. DOMAIN saxs = Series
      BY <3>1 DEF BlocksDone
    <3>3. \A s \in Series : saxs'[s] = WordOf(s)' \/ Open(s)'
      BY <1>3, <2>2, <2>3, <3>1, <3>2 DEF BlocksDone
    <3> QED BY <1>1, <1>2, <1>3, <3>1, <3>2, <3>3 DEF BlocksDone, NothingReadEarly
  <2> QED BY <1>5, <2>4, <2>5, <2>6, <2>7 DEF Work
<1> QED BY <1>4, <1>5

LEMMA WorkStep ==
  ASSUME IInv, NEW t \in Threads, Work(t)
  PROVE  IInv'
<1>1. phase \in Runs
  BY WorkFrame DEF IInv, BlocksClaimed
<1> QED BY <1>1, WorkClaimed, WorkDone DEF IInv

----------------------------------------------------------------------------
(* The main thread *)

\* Memory and files: nobody is at work.
LEMMA LoadStep ==
  ASSUME IInv, InitializeIndex \/ InitializeQuery
  PROVE  IInv'
<1> USE DEF IInv
<1>1. /\ UNCHANGED <<arguments, config, processors, counter, pc, at, stop>>
      /\ phase \in {"configured", "indexed"} /\ set' \in {"database", "queries"}
      /\ phase' \in {"means", "quantiles", "words"}
      /\ phase' \in {"quantiles"} => set' = "database"
      /\ phase' = "words" => set' = "queries"
    BY DEF InitializeIndex, InitializeQuery, Load, configuration, Typed, BlocksDone
<1>2. DOMAIN breakpoints' = Segments' /\ DOMAIN saxs' = Series'
  BY <1>1 DEF InitializeIndex, InitializeQuery, Load, BlocksDone, Segments, Series, Size
<1>3. Typed'
  BY <1>1 DEF Typed
<1>4. BlocksClaimed' /\ BlocksApart'
  BY <1>1 DEF BlocksClaimed, BlocksApart, Runs
<1>5. BlocksDone'
  BY <1>1, <1>2 DEF BlocksDone
<1>6. NothingReadEarly'
  BY <1>1 DEF NothingReadEarly
<1> QED BY <1>3, <1>4, <1>5, <1>6

LEMMA CreateStep ==
  ASSUME IInv, PiecewiseAggregate \/ GetAdhocBreakpoints8 \/ Summarizations2SAX16
  PROVE  IInv'
<1> USE DEF IInv
<1> DEFINE threads == IF phase = "quantiles" THEN Min({config.max_threads, config.sax_length})
                                             ELSE config.max_threads
<1>1. /\ UNCHANGED <<arguments, config, processors, set, at, stop, paas, breakpoints, saxs>>
      /\ counter' = 0 /\ pc' = Running(threads)
      /\ \/ phase = "means" /\ phase' = "meansRun"
         \/ phase = "quantiles" /\ phase' = "quantilesRun" /\ config.use_adhoc_breakpoints
         \/ phase = "words" /\ phase' = "wordsRun"
  BY DEF PiecewiseAggregate, GetAdhocBreakpoints8, Summarizations2SAX16, Create, constant,
         configuration, results
<1>2. /\ config.max_threads \in Nat \ {0} /\ config.sax_length \in Nat /\ Items' \in Nat
      /\ phase' = "quantilesRun" => Items' = config.sax_length
  BY <1>1, NumberFacts DEF Typed, Items, Size
<1>3. pc' \in [Threads -> {"idle", "claim", "work"}] /\ \A t \in Threads : pc'[t] # "work"
  BY <1>1 DEF Running
<1>4. Typed'
  BY <1>1, <1>3 DEF Typed
<1>5. BlocksClaimed'
  <2>1. pc'[1] # "idle" \/ counter' >= Items'
    <3>1. 1 \in Threads
      BY PreparationAssumption DEF Threads
    <3>2. CASE threads >= 1
      BY <1>1, <3>1, <3>2 DEF Running
    <3>3. CASE ~(threads >= 1)
      <4>1. phase = "quantiles" /\ config.sax_length = 0
        BY <1>2, <3>3, MinOfTwo
      <4> QED BY <1>1, <1>2, <4>1
    <3> QED BY <3>2, <3>3
  <2> QED BY <1>1, <1>3, <2>1 DEF BlocksClaimed, Runs
<1>6. BlocksApart'
  BY <1>3 DEF BlocksApart
<1>7. BlocksDone'
  <2>1. \A i \in Nat : Open(i)'
    BY <1>1 DEF Open
  <2>2. (\A g \in Segments : g \in Nat) /\ (\A s \in Series : s \in Nat)
    BY NumberFacts DEF Segments, Series
  <2>3. Segments' = Segments /\ Series' = Series
    BY <1>1 DEF Segments, Series, Size
  <2> QED BY <1>1, <2>1, <2>2, <2>3 DEF BlocksDone
<1>8. NothingReadEarly'
  BY <1>1 DEF NothingReadEarly, Segments, Series, Size, Column
<1> QED BY <1>4, <1>5, <1>6, <1>7, <1>8

LEMMA NormalStep ==
  ASSUME IInv, GetNormalBreakpoints8
  PROVE  IInv'
<1> USE DEF IInv
<1>1. /\ UNCHANGED <<arguments, config, processors, set, counter, pc, at, stop, paas, saxs>>
      /\ ~config.use_adhoc_breakpoints /\ phase = "quantiles" /\ phase' = "words"
      /\ breakpoints' = [g \in Segments |-> [normal |-> TRUE]]
  BY DEF GetNormalBreakpoints8, constant, configuration
<1>2. Segments' = Segments /\ Series' = Series
  BY <1>1 DEF Segments, Series, Size
<1>3. Typed' /\ BlocksApart'
  BY <1>1 DEF Typed, BlocksApart
<1>4. BlocksClaimed'
  BY <1>1 DEF BlocksClaimed, Runs
<1>5. BlocksDone' /\ NothingReadEarly'
  BY <1>1, <1>2 DEF BlocksDone, NothingReadEarly
<1> QED BY <1>3, <1>4, <1>5

\* When all threads are joined nothing is open.
LEMMA JoinStep ==
  ASSUME IInv, Join
  PROVE  IInv'
<1> USE DEF IInv
<1>1. /\ UNCHANGED <<arguments, config, processors, set, counter, pc, at, stop, paas, breakpoints, saxs>>
      /\ \A t \in Threads : pc[t] = "idle"
      /\ \/ phase = "meansRun" /\ phase' = IF set = "queries" THEN "words" ELSE "quantiles"
         \/ phase = "quantilesRun" /\ phase' = "words"
         \/ phase = "wordsRun" /\ phase' = IF set = "queries" THEN "prepared" ELSE "indexed"
  BY DEF Join, Joined, constant, configuration, results
<1>2. counter >= Items /\ counter \in Nat /\ Items \in Nat
  BY <1>1, NumberFacts, PreparationAssumption DEF BlocksClaimed, Threads, Runs, Typed
<1>3. \A i \in 0 .. Items - 1 : ~Open(i)
  BY <1>1, <1>2 DEF Open
<1>4. /\ phase = "quantilesRun" => \A g \in Segments : breakpoints[g] = Column(g)
      /\ phase = "wordsRun" => \A s \in Series : saxs[s] = WordOf(s)
  BY <1>3 DEF BlocksDone, Segments, Series, Items
<1>5. /\ Segments' = Segments /\ Series' = Series
      /\ \A g \in Segments : Column(g)' = Column(g)
      /\ \A s \in Series : WordOf(s)' = WordOf(s)
  BY <1>1 DEF Segments, Series, Size, Column, WordOf
<1>6. Typed' /\ BlocksApart'
  BY <1>1 DEF Typed, BlocksApart
<1>7. BlocksClaimed'
  BY <1>1 DEF BlocksClaimed, Runs
<1>8. BlocksDone'
  BY <1>1, <1>5 DEF BlocksDone, Typed
<1>9. NothingReadEarly'
  BY <1>1, <1>4, <1>5 DEF NothingReadEarly, BlocksDone
<1> QED BY <1>6, <1>7, <1>8, <1>9

----------------------------------------------------------------------------
LEMMA IInvHolds ==
  Spec => []IInv
<1>1. Init => IInv
  <2> SUFFICES ASSUME Init PROVE IInv
    OBVIOUS
  <2>1. Typed
    <3>1. arguments \in Seq(Options)
      BY ConfigurationAssumption DEF Init, ConfigurationInit
    <3>2. \A field \in Numbers : config[field] \in Nat
      BY DEF Init, ConfigurationInit, Numbers, Defaults
    <3> QED BY <3>1, <3>2 DEF Init, ConfigurationInit, Typed
  <2>2. phase = "options" /\ set = "database" /\ \A t \in Threads : pc[t] = "idle"
    BY DEF Init, ConfigurationInit
  <2> QED BY <2>1, <2>2 DEF IInv, BlocksClaimed, BlocksApart, BlocksDone, NothingReadEarly, Runs
<1>2. IInv /\ [Next]_vars => IInv'
  <2> SUFFICES ASSUME IInv, [Next]_vars PROVE IInv'
    OBVIOUS
  <2>1. CASE UNCHANGED vars
    BY <2>1 DEF vars, configuration, IInv, Typed, BlocksClaimed, BlocksApart, BlocksDone,
                NothingReadEarly, Items, Scale, Size, Segments, Series, Open, Column, WordOf
  <2>2. CASE Main
    BY <2>2, ConfigureStep, LoadStep, CreateStep, NormalStep, JoinStep DEF Main
  <2>3. CASE \E t \in Threads : Work(t)
    BY <2>3, WorkStep
  <2> QED BY <2>1, <2>2, <2>3 DEF Next, Terminated
<1> QED BY <1>1, <1>2, PTL DEF Spec

\* Whatever the number of threads and items, no two threads that share out work have
\* a value, a segment or a series in common.
THEOREM BlocksNeverOverlap == Spec => []BlocksApart
<1>1. IInv => BlocksApart
  BY DEF IInv
<1> QED BY <1>1, IInvHolds, PTL

\* When the threads of a phase are joined all its items are done: breakpoints are
\* those of all means, words those of all breakpoints.
THEOREM PhasesAreComplete == Spec => []NothingReadEarly
<1>1. IInv => NothingReadEarly
  BY DEF IInv
<1> QED BY <1>1, IInvHolds, PTL

----------------------------------------------------------------------------
(* Processors *)

\* Numbers at equal distances are as many as there are places for them.
LEMMA EquallySpaced ==
  ASSUME NEW n \in Nat, NEW a \in Nat, NEW b \in Nat, NEW c \in {1, 2}
  PROVE  Cardinality({a + (b + i) * c : i \in 0 .. n - 1}) = n
<1> DEFINE numbers == {a + (b + i) * c : i \in 0 .. n - 1}
           f == [i \in 1 .. n |-> a + (b + (i - 1)) * c]
<1>1. f \in [1 .. n -> numbers]
  <2>1. ASSUME NEW i \in 1 .. n PROVE f[i] \in numbers
    <3>1. i - 1 \in 0 .. n - 1
      OBVIOUS
    <3> QED BY <3>1
  <2> QED BY <2>1
<1>2. ASSUME NEW i \in 1 .. n, NEW j \in 1 .. n, f[i] = f[j] PROVE i = j
  <2>1. a + (b + (i - 1)) * c = a + (b + (j - 1)) * c
    BY <1>2
  <2>2. CASE c = 1
    BY <2>1, <2>2
  <2>3. CASE c = 2
    BY <2>1, <2>3
  <2> QED BY <2>2, <2>3
<1>3. ASSUME NEW x \in numbers PROVE \E i \in 1 .. n : f[i] = x
  <2>1. PICK i \in 0 .. n - 1 : x = a + (b + i) * c
    BY <1>3
  <2>2. i + 1 \in 1 .. n /\ (i + 1) - 1 = i
    OBVIOUS
  <2> QED BY <2>1, <2>2
<1> HIDE DEF f, numbers
<1>4. f \in Injection(1 .. n, numbers) /\ f \in Surjection(1 .. n, numbers)
  BY <1>1, <1>2, <1>3 DEF Injection, IsInjective, Surjection
<1>5. ExistsBijection(1 .. n, numbers)
  BY <1>4 DEF ExistsBijection, Bijection
<1> QED BY <1>5, FS_CountingElements DEF numbers

LEMMA AcceptPlaces ==
  ASSUME Typed, Accept
  PROVE  ThreadsPlaced'
<1>1. /\ config.cpu_cores \in Nat \ {0} /\ config.skipped_cores \in Nat
      /\ config.numa_id \in {0, 1} /\ config.numa_cores \in {1, 2}
      /\ config.numa_cores = 2 => config.skipped_cores + config.cpu_cores <= 32
      /\ config.numa_cores = 1 => config.skipped_cores + config.cpu_cores <= 16
  <2>1. config.cpu_cores \in Nat /\ config.skipped_cores \in Nat
    BY DEF Typed, Numbers
  <2> QED BY <2>1 DEF Accept, Acceptable
<1>2. Step \in {1, 2} /\ Step = 3 - config.numa_cores
  BY <1>1 DEF Step
<1>3. processors' = {config.numa_id + (config.skipped_cores + i) * Step :
                       i \in 0 .. config.cpu_cores - 1}
  BY DEF Accept, initializeThreads
<1>4. config'.max_threads = config.cpu_cores /\ config'.numa_id = config.numa_id
      /\ config'.numa_cores = config.numa_cores
  BY DEF Accept, initializeThreads, Typed, Defaults
<1>5. Cardinality(processors') = config.cpu_cores
  <2>1. config.cpu_cores \in Nat /\ config.numa_id \in Nat /\ config.skipped_cores \in Nat
    BY <1>1
  <2>2. Cardinality({config.numa_id + (config.skipped_cores + i) * Step :
                       i \in 0 .. config.cpu_cores - 1}) = config.cpu_cores
    BY <1>2, <2>1, EquallySpaced, Zenon
  <2> QED BY <1>3, <2>2, Zenon
<1>6. ASSUME NEW p \in processors'
      PROVE  /\ config.numa_cores = 1 => p % 2 = config.numa_id
             /\ p \in 0 .. 31 \/ (p = 32 /\ config.numa_cores = 2 /\ config.numa_id = 1)
  <2>1. PICK i \in 0 .. config.cpu_cores - 1 : p = config.numa_id + (config.skipped_cores + i) * Step
    BY <1>3
  <2>2. CASE config.numa_cores = 1
    <3>1. p = config.numa_id + 2 * (config.skipped_cores + i)
      BY <1>1, <1>2, <2>1, <2>2
    <3> QED BY <1>1, <2>2, <3>1
  <2>3. CASE config.numa_cores = 2
    <3>1. p = config.numa_id + (config.skipped_cores + i)
      BY <1>1, <1>2, <2>1, <2>3
    <3> QED BY <1>1, <2>3, <3>1
  <2> QED BY <1>1, <2>2, <2>3
<1> QED BY <1>4, <1>5, <1>6 DEF ThreadsPlaced

\* Every accepted configuration binds the process to as many processors as it has
\* threads, and on one memory node to those of that node (initializeThreads).
THEOREM ThreadsHaveProcessors == Spec => []ThreadsPlaced
<1>1. Init => ThreadsPlaced
  BY DEF Init, ConfigurationInit, ThreadsPlaced
<1>2. IInv /\ ThreadsPlaced /\ [Next]_vars => ThreadsPlaced'
  <2> SUFFICES ASSUME IInv, ThreadsPlaced, [Next]_vars PROVE ThreadsPlaced'
    OBVIOUS
  <2>1. CASE Accept
    BY <2>1, AcceptPlaces DEF IInv
  <2>2. CASE ParseOption \/ Abort
    BY <2>2 DEF ParseOption, Abort, ThreadsPlaced
  <2>3. ASSUME UNCHANGED <<config, processors>>, phase \notin {"options", "aborted"}
        PROVE  ThreadsPlaced'
    BY <2>3 DEF ThreadsPlaced
  <2>4. CASE UNCHANGED vars
    BY <2>4 DEF vars, configuration, ThreadsPlaced
  <2>5. CASE InitializeIndex \/ InitializeQuery \/ Join \/ PiecewiseAggregate
             \/ GetAdhocBreakpoints8 \/ GetNormalBreakpoints8 \/ Summarizations2SAX16
    BY <2>3, <2>5 DEF InitializeIndex, InitializeQuery, Load, Join, PiecewiseAggregate, Create,
        GetAdhocBreakpoints8, GetNormalBreakpoints8, Summarizations2SAX16, constant, configuration
  <2>6. CASE \E t \in Threads : Work(t)
    BY <2>6 DEF Work, Claim, BlockDone, AddValue, ExtractBreakpoints, FindWord, constant,
        configuration, ThreadsPlaced
  <2> QED
    BY <2>1, <2>2, <2>4, <2>5, <2>6 DEF Next, Main, Configure, InitializeConfig, Terminated
<1> QED BY <1>1, <1>2, IInvHolds, PTL DEF Spec

----------------------------------------------------------------------------
(* Segments and their offsets *)

LEMMA Division ==
  ASSUME NEW n \in Nat, NEW m \in Nat \ {0}
  PROVE  /\ n \div m \in Nat /\ n % m \in Nat /\ n % m < m
         /\ n = m * (n \div m) + (n % m)
         /\ m <= n => n \div m # 0
OBVIOUS

\* Segments that differ in length by one at most, the longer ones first.
Lengths(q, m, r) == [g \in 0 .. m - 1 |-> q + (IF g < r THEN 1 ELSE 0)]

\* They have the length of a series together.
LEMMA Offsets ==
  ASSUME NEW q \in Nat \ {0}, NEW m \in Nat \ {0}, NEW r \in 0 .. m - 1
  PROVE  /\ \A g \in 0 .. m :
              SumOver(Lengths(q, m, r), 0 .. g - 1) = g * q + (IF g < r THEN g ELSE r)
         /\ \A g \in 0 .. m - 1 :
              SumOver(Lengths(q, m, r), 0 .. (g + 1) - 1)
              = SumOver(Lengths(q, m, r), 0 .. g - 1) + Lengths(q, m, r)[g]
<1> DEFINE lengths == Lengths(q, m, r)
<1>0. lengths = [g \in 0 .. m - 1 |-> q + (IF g < r THEN 1 ELSE 0)]
  BY DEF Lengths
<1> HIDE DEF lengths
<1> DEFINE Sum(g) == SumOver(lengths, 0 .. g - 1)
           Closed(g) == g * q + (IF g < r THEN g ELSE r)
<1>1. ASSUME NEW g \in 0 .. m - 1
      PROVE  Sum(g + 1) = Sum(g) + lengths[g]
  <2>1. 0 .. (g + 1) - 1 = (0 .. g - 1) \cup {g} /\ g \notin 0 .. g - 1
    OBVIOUS
  <2>2. \A h \in (0 .. g - 1) \cup {g} : lengths[h] \in Int
    BY <1>0
  <2>3. IsFiniteSet(0 .. g - 1)
    BY FS_Interval
  <2> QED BY <2>1, <2>2, <2>3, SumWith
<1>2. ASSUME NEW g \in 0 .. m - 1
      PROVE  Closed(g) \in Nat /\ Closed(g + 1) = Closed(g) + lengths[g]
  <2>1. (g + 1) * q = g * q + q /\ g * q \in Nat
    OBVIOUS
  <2> DEFINE p == g * q
  <2>2. lengths[g] = q + (IF g < r THEN 1 ELSE 0)
    BY <1>0
  <2>3. p \in Nat /\ p + q + (IF g + 1 < r THEN g + 1 ELSE r)
                     = p + (IF g < r THEN g ELSE r) + (q + (IF g < r THEN 1 ELSE 0))
    <3>1. p \in Nat
      BY <2>1
    <3> HIDE DEF p
    <3> QED BY <3>1
  <2>4. p + (IF g < r THEN g ELSE r) \in Nat
    <3> HIDE DEF p
    <3> QED BY <2>3
  <2> QED BY <2>1, <2>2, <2>3, <2>4
<1> DEFINE Wrong == {g \in 0 .. m : Sum(g) # Closed(g)}
<1>3. ASSUME Wrong # {} PROVE FALSE
  <2>1. Wrong \in SUBSET Nat
    OBVIOUS
  <2>2. PICK g \in Wrong : \A h \in Wrong : g <= h
    <3> HIDE DEF Wrong
    <3> QED BY <1>3, <2>1, Least
  <2>3. g \in 0 .. m /\ Sum(g) # Closed(g)
    BY <2>2
  <2>4. CASE g = 0
    <3>1. 0 .. g - 1 = {}
      BY <2>4
    <3>2. Sum(g) = 0
      BY <3>1, SumOfNothing
    <3>3. Closed(g) = 0
      BY <2>4
    <3> QED BY <2>3, <3>2, <3>3
  <2>5. CASE g # 0
    <3>1. g - 1 \in 0 .. m - 1 /\ g - 1 \in 0 .. m /\ ~(g <= g - 1) /\ (g - 1) + 1 = g
      BY <2>3, <2>5
    <3>2. g - 1 \notin Wrong
      <4> HIDE DEF Wrong
      <4> QED BY <2>2, <3>1
    <3>3. Sum(g - 1) = Closed(g - 1)
      BY <3>1, <3>2
    <3> HIDE DEF Sum, Closed, Wrong
    <3>4. Sum(g) = Sum(g - 1) + lengths[g - 1]
      BY <1>1, <3>1
    <3>5. Closed(g) = Closed(g - 1) + lengths[g - 1]
      BY <1>2, <3>1
    <3> QED BY <2>3, <3>3, <3>4, <3>5
  <2> QED BY <2>4, <2>5
<1>4. \A g \in 0 .. m : Sum(g) = Closed(g)
  BY <1>3
<1> QED BY <1>1, <1>4 DEF lengths

\* Segments have values, and the offsets go up from one to the next, from series
\* to series.
LEMMA BeginFacts ==
  ASSUME Typed, HasValues
  PROVE  /\ \A g \in Segments : SegmentLength(g) \in Nat \ {0}
         /\ \A s \in Nat, g \in 0 .. config.sax_length : Begin(s, g) \in Nat
         /\ \A s \in Nat : /\ Begin(s, 0) = config.series_length * s
                           /\ Begin(s, config.sax_length) = Begin(s + 1, 0)
         /\ \A s \in Nat, g \in Segments : Begin(s, g + 1) = Begin(s, g) + SegmentLength(g)
         /\ \A s \in Nat : \A g, h \in 0 .. config.sax_length : g <= h => Begin(s, g) <= Begin(s, h)
<1> DEFINE n == config.series_length
           m == config.sax_length
           q == n \div m
           r == n % m
<1>1. n \in Nat /\ m \in Nat \ {0} /\ m <= n
  BY NumberFacts DEF HasValues
<1>2. q \in Nat \ {0} /\ r \in 0 .. m - 1 /\ n = m * q + r
  <2> HIDE DEF n, m
  <2> QED BY <1>1, Division
<1>3. \A g : SegmentLength(g) = q + (IF g < r THEN 1 ELSE 0)
  BY DEF SegmentLength
<1>4. segment_lengths = Lengths(q, m, r)
  BY <1>3 DEF segment_lengths, Segments, Lengths
<1> DEFINE Sum(g) == SumOver(segment_lengths, 0 .. g - 1)
<1>5. Segments = 0 .. m - 1 /\ \A s, g : Begin(s, g) = n * s + Sum(g)
  BY DEF Segments, Begin
<1> HIDE DEF n, m, q, r
<1>6. /\ \A g \in 0 .. m : Sum(g) = g * q + (IF g < r THEN g ELSE r)
      /\ \A g \in 0 .. m - 1 : Sum(g + 1) = Sum(g) + segment_lengths[g]
  <2>1. /\ \A g \in 0 .. m :
              SumOver(Lengths(q, m, r), 0 .. g - 1) = g * q + (IF g < r THEN g ELSE r)
        /\ \A g \in 0 .. m - 1 :
              SumOver(Lengths(q, m, r), 0 .. (g + 1) - 1)
              = SumOver(Lengths(q, m, r), 0 .. g - 1) + Lengths(q, m, r)[g]
    BY <1>1, <1>2, Offsets
  <2> QED BY <1>4, <2>1
<1>7. \A g \in 0 .. m - 1 : segment_lengths[g] = SegmentLength(g) /\ SegmentLength(g) \in Nat \ {0}
  BY <1>2, <1>3, <1>4 DEF Lengths
<1> HIDE DEF Sum
<1>8. \A g \in 0 .. m : g * q \in Nat /\ Sum(g) \in Nat
  <2> SUFFICES ASSUME NEW g \in 0 .. m PROVE g * q \in Nat /\ Sum(g) \in Nat
    OBVIOUS
  <2>1. g * q \in Nat
    BY <1>2
  <2> DEFINE p == g * q
  <2>2. Sum(g) = p + (IF g < r THEN g ELSE r)
    BY <1>6
  <2> HIDE DEF p
  <2>3. Sum(g) \in Nat
    BY <1>1, <1>2, <2>1, <2>2 DEF p
  <2> QED BY <2>1, <2>3
<1>9. Sum(0) = 0 /\ Sum(m) = n
  <2>1. Sum(0) = 0 * q + (IF 0 < r THEN 0 ELSE r) /\ Sum(m) = m * q + (IF m < r THEN m ELSE r)
    BY <1>1, <1>6
  <2>2. 0 * q = 0 /\ m * q \in Nat
    BY <1>1, <1>2
  <2>3. Sum(0) = 0
    BY <1>2, <2>1, <2>2
  <2>4. Sum(m) = m * q + r
    BY <1>1, <1>2, <2>1
  <2> QED BY <1>2, <2>3, <2>4
<1>10. ASSUME NEW g \in 0 .. m, NEW h \in 0 .. m, g <= h PROVE Sum(g) <= Sum(h)
  <2>1. q * g \in Nat /\ q * h \in Nat /\ q * g <= q * h
    BY <1>2, <1>10, ScaledLeq
  <2>2. q * g = g * q /\ q * h = h * q
    BY <1>1, <1>2
  <2> DEFINE a == g * q
             b == h * q
  <2>3. Sum(g) = a + (IF g < r THEN g ELSE r) /\ Sum(h) = b + (IF h < r THEN h ELSE r)
    BY <1>6
  <2>4. a \in Nat /\ b \in Nat /\ a <= b
    BY <2>1, <2>2
  <2> HIDE DEF a, b
  <2> QED BY <1>1, <1>2, <1>10, <2>3, <2>4
<1>11. \A s \in Nat : n * s \in Nat /\ n * (s + 1) = n * s + n
  BY <1>1
<1>12. ASSUME NEW s \in Nat, NEW g \in 0 .. m PROVE Begin(s, g) \in Nat
  <2> DEFINE p == n * s
  <2>1. p \in Nat /\ Sum(g) \in Nat /\ Begin(s, g) = p + Sum(g)
    BY <1>5, <1>8, <1>11
  <2> HIDE DEF p
  <2> QED BY <2>1
<1>13. ASSUME NEW s \in Nat
       PROVE  Begin(s, 0) = n * s /\ Begin(s, m) = n * s + n /\ Begin(s + 1, 0) = n * (s + 1)
  <2> DEFINE p == n * s
             p1 == n * (s + 1)
  <2>1. p \in Nat /\ p1 \in Nat
    BY <1>1, <1>11
  <2>2. Begin(s, 0) = p + Sum(0) /\ Begin(s, m) = p + Sum(m) /\ Begin(s + 1, 0) = p1 + Sum(0)
    BY <1>5
  <2> HIDE DEF p, p1
  <2>3. Begin(s, 0) = p /\ Begin(s, m) = p + n /\ Begin(s + 1, 0) = p1
    BY <1>9, <2>1, <2>2
  <2> QED BY <2>3 DEF p, p1
<1>14. ASSUME NEW s \in Nat, NEW g \in 0 .. m - 1
       PROVE  Begin(s, g + 1) = Begin(s, g) + SegmentLength(g)
  <2> DEFINE p == n * s
  <2>1. p \in Nat /\ Sum(g) \in Nat /\ SegmentLength(g) \in Nat
    BY <1>1, <1>7, <1>8, <1>11
  <2>2. Sum(g + 1) = Sum(g) + SegmentLength(g)
    BY <1>6, <1>7
  <2>3. Begin(s, g + 1) = p + Sum(g + 1) /\ Begin(s, g) = p + Sum(g)
    BY <1>5
  <2> HIDE DEF p
  <2> QED BY <2>1, <2>2, <2>3
<1>15. ASSUME NEW s \in Nat, NEW g \in 0 .. m, NEW h \in 0 .. m, g <= h
       PROVE  Begin(s, g) <= Begin(s, h)
  <2> DEFINE p == n * s
  <2>1. p \in Nat /\ Sum(g) \in Nat /\ Sum(h) \in Nat /\ Sum(g) <= Sum(h)
    BY <1>8, <1>10, <1>11, <1>15
  <2>2. Begin(s, g) = p + Sum(g) /\ Begin(s, h) = p + Sum(h)
    BY <1>5
  <2> HIDE DEF p
  <2> QED BY <2>1, <2>2
<1>16. \A s \in Nat : Begin(s, 0) = n * s /\ Begin(s, m) = Begin(s + 1, 0)
  BY <1>11, <1>13
<1> QED BY <1>5, <1>7, <1>12, <1>14, <1>15, <1>16 DEF n, m

\* Segments follow each other, and so do their places among the means.
LEMMA SegmentsInOrder ==
  ASSUME Typed, HasValues, NEW s \in Nat, NEW g \in Segments, NEW z \in Nat, NEW h \in Segments,
         s < z \/ (s = z /\ g < h)
  PROVE  /\ Begin(s, g + 1) <= Begin(z, h)
         /\ config.sax_length * s + g < config.sax_length * z + h
<1> DEFINE n == config.series_length
           m == config.sax_length
<1>1. n \in Nat /\ m \in Nat \ {0} /\ g \in 0 .. m - 1 /\ h \in 0 .. m - 1
  BY NumberFacts DEF HasValues, Segments
<1>2. /\ Begin(s, g + 1) \in Nat /\ Begin(s, m) \in Nat /\ Begin(z, 0) \in Nat /\ Begin(z, h) \in Nat
      /\ Begin(s, g + 1) <= Begin(s, m) /\ Begin(z, 0) <= Begin(z, h)
      /\ g < h => Begin(s, g + 1) <= Begin(s, h)
      /\ Begin(s, m) = n * (s + 1) /\ Begin(z, 0) = n * z
  <2>1. g + 1 \in 0 .. m /\ m \in 0 .. m /\ 0 \in 0 .. m /\ h \in 0 .. m /\ g + 1 <= m /\ 0 <= h
        /\ s + 1 \in Nat /\ (g < h => g + 1 <= h)
    BY <1>1
  <2>2. /\ \A x \in Nat, y \in 0 .. m : Begin(x, y) \in Nat
        /\ \A x \in Nat : Begin(x, 0) = n * x /\ Begin(x, m) = Begin(x + 1, 0)
        /\ \A x \in Nat : \A y, w \in 0 .. m : y <= w => Begin(x, y) <= Begin(x, w)
    BY BeginFacts
  <2> HIDE DEF n, m
  <2> QED BY <2>1, <2>2
<1>3. CASE s < z
  <2> HIDE DEF n, m
  <2>1. n * (s + 1) <= n * z /\ m * (s + 1) <= m * z
        /\ n * z \in Nat /\ m * z \in Nat /\ n * (s + 1) \in Nat /\ m * (s + 1) \in Nat
    <3>1. s + 1 \in Nat /\ s + 1 <= z
      BY <1>3
    <3> QED BY <1>1, <3>1, ScaledLeq
  <2>2. Begin(s, g + 1) <= Begin(z, h)
    <3> DEFINE x == Begin(s, m)
               y == Begin(z, 0)
    <3>1. x <= y
      BY <1>2, <2>1
    <3>2. Begin(s, g + 1) <= x /\ y <= Begin(z, h) /\ x \in Nat /\ y \in Nat
      BY <1>2
    <3> HIDE DEF x, y
    <3> QED BY <1>2, <3>1, <3>2
  <2>3. m * (s + 1) = m * s + m /\ m * s \in Nat
    BY <1>1
  <2>4. m * s + g < m * z + h
    <3> DEFINE x == m * s
               y == m * z
    <3>1. x \in Nat /\ y \in Nat /\ x + m <= y
      BY <2>1, <2>3
    <3> HIDE DEF x, y
    <3>2. x + g < y + h
      BY <1>1, <3>1
    <3> QED BY <3>2 DEF x, y
  <2> QED BY <2>2, <2>4 DEF m
<1>4. CASE s = z /\ g < h
  <2> HIDE DEF n
  <2>1. m * s \in Nat
    BY <1>1
  <2>2. m * s + g < m * z + h
    <3> DEFINE x == m * s
    <3>1. x \in Nat
      BY <2>1
    <3> HIDE DEF x
    <3>2. x + g < x + h
      BY <1>1, <1>4, <3>1
    <3> QED BY <1>4, <3>2 DEF x
  <2> QED BY <1>2, <1>4, <2>2
<1> QED BY <1>3, <1>4

----------------------------------------------------------------------------
(* Means *)

\* What the segments of a series depend on.
LEMMA MeansFrame ==
  ASSUME UNCHANGED <<config, set>>
  PROVE  /\ Series' = Series /\ Segments' = Segments /\ Size' = Size
         /\ HasValues' = HasValues /\ Computed' = Computed
         /\ \A g : SegmentLength(g)' = SegmentLength(g)
         /\ \A s, g : Begin(s, g)' = Begin(s, g) /\ MeanOf(s, g)' = MeanOf(s, g)
BY DEF Series, Segments, Size, HasValues, Computed, SegmentLength, Begin, MeanOf,
       segment_lengths

\* The places of two means are never the same, nor outside of paas.
LEMMA Places ==
  ASSUME Typed, HasValues, NEW s \in Series, NEW g \in Segments
  PROVE  /\ config.sax_length * s + g \in 0 .. Size * config.sax_length - 1
         /\ \A z \in Series, h \in Segments :
              config.sax_length * s + g = config.sax_length * z + h => s = z /\ g = h
<1> DEFINE m == config.sax_length
<1>1. m \in Nat \ {0} /\ Size \in Nat /\ s \in Nat /\ s + 1 <= Size /\ g \in 0 .. m - 1
  BY NumberFacts DEF HasValues, Segments, Series
<1>2. m * s + g \in 0 .. Size * m - 1
  <2> HIDE DEF m
  <2>1. m * (s + 1) <= m * Size /\ m * Size \in Nat /\ m * Size = Size * m
    BY <1>1, ScaledLeq
  <2>2. m * (s + 1) = m * s + m /\ m * s \in Nat
    BY <1>1
  <2> DEFINE x == m * s
             y == Size * m
  <2>3. x \in Nat /\ y \in Nat /\ x + m <= y
    BY <2>1, <2>2
  <2> HIDE DEF x, y
  <2>4. x + g \in 0 .. y - 1
    BY <1>1, <2>3
  <2> QED BY <2>4 DEF x, y
<1>3. ASSUME NEW z \in Series, NEW h \in Segments, m * s + g = m * z + h, ~(s = z /\ g = h)
      PROVE  FALSE
  <2>1. z \in Nat /\ h \in Nat /\ g \in Nat
    BY <1>1 DEF Series, Segments
  <2>2. m * s + g \in Int /\ m * z + h \in Int
    <3>1. m * s \in Nat /\ m * z \in Nat
      BY <1>1, <2>1
    <3> QED BY <2>1, <3>1
  <2>3. CASE s < z \/ (s = z /\ g < h)
    <3>1. m * s + g < m * z + h
      BY <1>1, <2>1, <2>3, SegmentsInOrder
    <3> QED BY <1>3, <2>2, <3>1
  <2>4. CASE z < s \/ (z = s /\ h < g)
    <3>1. m * z + h < m * s + g
      BY <1>1, <2>1, <2>4, SegmentsInOrder
    <3> QED BY <1>3, <2>2, <3>1
  <2> QED BY <1>1, <1>3, <2>1, <2>3, <2>4
<1> QED BY <1>2, <1>3

\* The next end of a segment behind a value of one is its own; other segments end
\* before or later.
LEMMA NextEnd ==
  ASSUME Typed, HasValues, NEW s \in Nat, NEW g \in Segments, NEW c \in Nat, c < SegmentLength(g),
         NEW z \in Nat, NEW h \in Segments, Begin(s, g) + c < Begin(z, h + 1), ~(s = z /\ g = h)
  PROVE  Begin(s, g + 1) < Begin(z, h + 1)
<1>1. /\ g \in Nat /\ h \in Nat /\ Begin(s, g) \in Nat /\ Begin(z, h) \in Nat
      /\ Begin(z, h + 1) \in Nat /\ Begin(s, g + 1) \in Nat
      /\ Begin(s, g + 1) = Begin(s, g) + SegmentLength(g) /\ SegmentLength(g) \in Nat
      /\ Begin(z, h + 1) = Begin(z, h) + SegmentLength(h) /\ SegmentLength(h) \in Nat \ {0}
  <2>1. /\ config.sax_length \in Nat /\ g \in 0 .. config.sax_length - 1
        /\ h \in 0 .. config.sax_length - 1
    BY NumberFacts DEF Segments
  <2>2. /\ g \in 0 .. config.sax_length /\ g + 1 \in 0 .. config.sax_length /\ g \in Nat
        /\ h \in 0 .. config.sax_length /\ h + 1 \in 0 .. config.sax_length /\ h \in Nat
    BY <2>1
  <2> QED BY <2>2, BeginFacts
<1>2. CASE s < z \/ (s = z /\ g < h)
  <2>1. Begin(s, g + 1) <= Begin(z, h)
    BY <1>2, SegmentsInOrder
  <2> QED BY <1>1, <2>1
<1>3. CASE z < s \/ (z = s /\ h < g)
  <2>1. Begin(z, h + 1) <= Begin(s, g)
    BY <1>3, SegmentsInOrder
  <2> QED BY <1>1, <2>1
<1> QED BY <1>1, <1>2, <1>3

\* What a thread that adds up knows: its series is one of the set as long as its
\* block is not at its end.
LEMMA ValueFacts ==
  ASSUME Typed, HasValues, NEW t \in Threads, AtValue(t), at[t] < stop[t]
  PROVE  \E s \in Series, g \in Segments, c \in Nat :
           /\ c < SegmentLength(g) /\ at[t] = Begin(s, g) + c
           /\ sum[t] = [paa |-> config.sax_length * s + g, segment |-> g,
                        from |-> Begin(s, g), counter |-> c]
<1>1. PICK s \in 0 .. Size, g \in Segments, c \in 0 .. config.series_length :
             /\ c < SegmentLength(g) /\ at[t] = Begin(s, g) + c
             /\ sum[t] = [paa |-> config.sax_length * s + g, segment |-> g,
                          from |-> Begin(s, g), counter |-> c]
  BY DEF AtValue
<1>2. PICK e \in 0 .. Size : stop[t] = config.series_length * e
  BY DEF AtValue
<1> DEFINE n == config.series_length
<1>3. n \in Nat /\ Size \in Nat /\ s \in Nat /\ e \in Nat /\ e <= Size /\ c \in Nat
  BY NumberFacts
<1>4. n * s <= at[t] /\ n * s \in Nat
  <2>1. g \in 0 .. config.sax_length /\ 0 \in 0 .. config.sax_length /\ 0 <= g
    BY NumberFacts DEF Segments
  <2>2. Begin(s, 0) = n * s /\ Begin(s, 0) <= Begin(s, g) /\ Begin(s, g) \in Nat /\ Begin(s, 0) \in Nat
    BY <1>3, <2>1, BeginFacts
  <2> DEFINE x == n * s
  <2>3. x <= Begin(s, g) /\ x \in Nat
    BY <2>2
  <2> HIDE DEF x
  <2>4. x <= at[t]
    BY <1>1, <1>3, <2>2, <2>3
  <2> QED BY <2>3, <2>4 DEF x
<1>5. s < e
  <2> SUFFICES ASSUME e <= s PROVE FALSE
    BY <1>3
  <2> HIDE DEF n
  <2>1. n * e <= n * s /\ n * e \in Nat
    BY <1>3, ScaledLeq
  <2>2. stop[t] = n * e
    BY <1>2 DEF n
  <2>3. at[t] \in Nat
    BY DEF Typed
  <2> DEFINE x == n * s
             y == n * e
  <2>4. x <= at[t] /\ x \in Nat /\ y \in Nat /\ y <= x /\ at[t] < y
    BY <1>4, <2>1, <2>2
  <2> HIDE DEF x, y
  <2> QED BY <2>3, <2>4
<1>6. s \in Series
  BY <1>3, <1>5 DEF Series
<1> QED BY <1>1, <1>3, <1>6

\* A mean is computed with the last value of its segment, and then the thread is at
\* the first value of the next.
LEMMA AddValueStep ==
  ASSUME Typed, HasValues, MeansDone, NEW t \in Threads, AddValue(t), DOMAIN sum = Threads
  PROVE  MeansDone'
<1>1. /\ phase = "meansRun" /\ pc[t] = "work" /\ at[t] < stop[t]
      /\ UNCHANGED <<config, set, phase, counter, pc, stop>>
      /\ at' = [at EXCEPT ![t] = at[t] + 1]
  BY DEF AddValue, constant, configuration
<1>2. AtValue(t)
  BY <1>1 DEF MeansDone
<1>3. PICK s \in Series, g \in Segments, c \in Nat :
           /\ c < SegmentLength(g) /\ at[t] = Begin(s, g) + c
           /\ sum[t] = [paa |-> config.sax_length * s + g, segment |-> g,
                        from |-> Begin(s, g), counter |-> c]
  BY <1>1, <1>2, ValueFacts
<1> DEFINE m == config.sax_length
<1>4. /\ s \in Nat /\ g \in 0 .. m - 1 /\ m \in Nat \ {0} /\ Begin(s, g) \in Nat
      /\ SegmentLength(g) \in Nat \ {0} /\ Begin(s, g + 1) = Begin(s, g) + SegmentLength(g)
      /\ at[t] \in Nat /\ Size \in Nat /\ config.series_length \in Nat
  <2>1. /\ m \in Nat /\ m # 0 /\ g \in 0 .. m - 1 /\ g \in 0 .. m /\ s \in Nat /\ Size \in Nat
        /\ config.series_length \in Nat
    BY NumberFacts DEF HasValues, Segments, Series
  <2> HIDE DEF m
  <2>2. /\ \A x \in Nat, y \in 0 .. m : Begin(x, y) \in Nat
        /\ \A x \in Nat, y \in Segments : Begin(x, y + 1) = Begin(x, y) + SegmentLength(y)
        /\ \A y \in Segments : SegmentLength(y) \in Nat \ {0}
    BY BeginFacts DEF m
  <2>3. at[t] \in Nat
    BY DEF Typed
  <2> QED BY <2>1, <2>2, <2>3
<1>5. /\ Series' = Series /\ Segments' = Segments /\ Size' = Size
      /\ \A x : SegmentLength(x)' = SegmentLength(x)
      /\ \A x, y : Begin(x, y)' = Begin(x, y) /\ MeanOf(x, y)' = MeanOf(x, y)
  BY <1>1, MeansFrame
<1>6. /\ at'[t] = at[t] + 1 /\ \A u \in Threads \ {t} : at'[u] = at[u] /\ sum'[u] = sum[u]
      /\ \/ /\ c + 1 = SegmentLength(g)
            /\ paas' = [paas EXCEPT ![m * s + g] =
                          [from |-> Begin(s, g), to |-> at[t], length |-> SegmentLength(g)]]
            /\ sum'[t] = [paa |-> m * s + g + 1, segment |-> (g + 1) % m,
                          from |-> at[t] + 1, counter |-> 0]
         \/ /\ c + 1 # SegmentLength(g) /\ paas' = paas
            /\ sum'[t] = [paa |-> m * s + g, segment |-> g, from |-> Begin(s, g), counter |-> c + 1]
  <2>1. at'[t] = at[t] + 1 /\ \A u \in Threads \ {t} : at'[u] = at[u]
    BY <1>1 DEF Typed
  <2>2. sum[t].segment = g /\ sum[t].counter = c /\ sum[t].paa = m * s + g /\ sum[t].from = Begin(s, g)
    BY <1>3
  <2>3. CASE c + 1 = SegmentLength(g)
    <3>1. /\ paas' = [paas EXCEPT ![m * s + g] =
                          [from |-> Begin(s, g), to |-> at[t], length |-> SegmentLength(g)]]
          /\ sum' = [sum EXCEPT ![t] = [paa |-> m * s + g + 1, segment |-> (g + 1) % m,
                                        from |-> at[t] + 1, counter |-> 0]]
      BY <2>2, <2>3 DEF AddValue
    <3> QED BY <2>1, <2>3, <3>1
  <2>4. CASE c + 1 # SegmentLength(g)
    <3>1. paas' = paas /\ sum' = [sum EXCEPT ![t].counter = c + 1]
      BY <2>2, <2>4 DEF AddValue
    <3>2. sum'[t] = [sum[t] EXCEPT !.counter = c + 1] /\ \A u \in Threads \ {t} : sum'[u] = sum[u]
      BY <3>1
    <3>3. sum'[t] = [paa |-> m * s + g, segment |-> g, from |-> Begin(s, g), counter |-> c + 1]
      BY <1>3, <3>2
    <3> QED BY <2>1, <2>4, <3>1, <3>2, <3>3
  <2> QED BY <2>3, <2>4
<1>7. at'[t] = at[t] + 1 /\ at[t] = Begin(s, g) + c /\ c < SegmentLength(g) /\ at'[t] \in Nat
  <2>1. at'[t] = at[t] + 1 /\ at[t] = Begin(s, g) + c /\ c < SegmentLength(g)
    BY <1>3, <1>6
  <2> QED BY <1>4, <2>1
<1>8. DOMAIN paas = 0 .. Size * config.sax_length - 1 /\ DOMAIN paas' = DOMAIN paas
  BY <1>1, <1>6 DEF MeansDone
<1>9. AtValue(t)'
  <2>1. (\E e \in 0 .. Size : stop[t] = config.series_length * e)'
    BY <1>1, <1>2, <1>5 DEF AtValue
  <2>2. \E z \in 0 .. Size, h \in Segments, d \in 0 .. config.series_length :
          /\ d < SegmentLength(h) /\ at'[t] = Begin(z, h) + d
          /\ sum'[t] = [paa |-> m * z + h, segment |-> h, from |-> Begin(z, h), counter |-> d]
    <3>0. s \in 0 .. Size /\ s + 1 \in 0 .. Size
      BY <1>4 DEF Series
    <3>1. CASE c + 1 # SegmentLength(g)
      <4>1. c + 1 \in Nat /\ c + 1 < SegmentLength(g) /\ at'[t] = Begin(s, g) + (c + 1)
        <5>1. Begin(s, g) \in Nat /\ SegmentLength(g) \in Nat
          BY <1>4
        <5> QED BY <1>7, <3>1, <5>1
      <4>2. c + 1 \in 0 .. config.series_length
        <5>1. SegmentLength(g) <= config.series_length
          <6>1. /\ \A y \in Segments : SegmentLength(y) \in Nat
                /\ Begin(s, g + 1) <= Begin(s, m) /\ Begin(s, 0) <= Begin(s, g)
                /\ Begin(s, 0) = config.series_length * s
                /\ Begin(s, m) = config.series_length * (s + 1)
                /\ Begin(s, g + 1) \in Nat
            <7>1. g + 1 \in 0 .. m /\ m \in 0 .. m /\ 0 \in 0 .. m /\ g \in 0 .. m
                  /\ g + 1 <= m /\ 0 <= g /\ s + 1 \in Nat
              BY <1>4
            <7>2. /\ \A x \in Nat, y \in 0 .. m : Begin(x, y) \in Nat
                  /\ \A y \in Segments : SegmentLength(y) \in Nat \ {0}
                  /\ \A x \in Nat : /\ Begin(x, 0) = config.series_length * x
                                    /\ Begin(x, m) = Begin(x + 1, 0)
                  /\ \A x \in Nat : \A y, w \in 0 .. m : y <= w => Begin(x, y) <= Begin(x, w)
              BY BeginFacts
            <7> HIDE DEF m
            <7> QED BY <1>4, <7>1, <7>2
          <6> DEFINE x == config.series_length * s
                     y == config.series_length * (s + 1)
          <6>2. x \in Nat /\ y = x + config.series_length
            BY <1>4
          <6>3. Begin(s, g + 1) <= y /\ x <= Begin(s, g)
            BY <6>1
          <6> HIDE DEF x, y
          <6> QED BY <1>4, <6>1, <6>2, <6>3
        <5> QED BY <1>4, <4>1, <5>1
      <4>3. sum'[t] = [paa |-> m * s + g, segment |-> g, from |-> Begin(s, g), counter |-> c + 1]
        BY <1>6, <3>1
      <4> QED BY <3>0, <4>1, <4>2, <4>3
    <3>2. CASE c + 1 = SegmentLength(g) /\ g + 1 < m
      <4>1. g + 1 \in Segments /\ (g + 1) % m = g + 1
        BY <1>4, <3>2 DEF Segments
      <4>2. at'[t] = Begin(s, g + 1) + 0 /\ at[t] + 1 = Begin(s, g + 1)
        BY <1>3, <1>4, <1>6, <3>2
      <4>3. m * s + g + 1 = m * s + (g + 1)
        <5>1. m * s \in Nat /\ g \in Nat
          BY <1>4
        <5> QED BY <5>1
      <4>4. 0 < SegmentLength(g + 1) /\ 0 \in 0 .. config.series_length
        BY <1>4, <4>1, BeginFacts
      <4>5. sum'[t] = [paa |-> m * s + (g + 1), segment |-> g + 1, from |-> Begin(s, g + 1),
                       counter |-> 0]
        BY <1>6, <3>2, <4>1, <4>2, <4>3
      <4> QED BY <3>0, <4>1, <4>2, <4>4, <4>5
    <3>3. CASE c + 1 = SegmentLength(g) /\ g + 1 = m
      <4>1. 0 \in Segments /\ (g + 1) % m = 0 /\ s + 1 \in Nat
        BY <1>4, <3>3 DEF Segments
      <4>2. Begin(s, g + 1) = Begin(s + 1, 0) /\ Begin(s, g + 1) \in Nat
        <5>1. Begin(s, m) = Begin(s + 1, 0)
          BY <1>4, BeginFacts
        <5> QED BY <1>4, <3>3, <5>1
      <4>3. at'[t] = Begin(s + 1, 0) + 0 /\ at[t] + 1 = Begin(s + 1, 0)
        BY <1>3, <1>4, <1>6, <3>3, <4>2
      <4>4. m * s + g + 1 = m * (s + 1) + 0
        <5>1. m * s \in Nat /\ m * (s + 1) = m * s + m /\ g \in Nat
          BY <1>4
        <5> DEFINE x == m * s
                   y == m * (s + 1)
        <5>2. x \in Nat /\ y = x + m
          BY <5>1
        <5> HIDE DEF x, y
        <5>3. x + g + 1 = y + 0
          BY <1>4, <3>3, <5>2
        <5> QED BY <5>3 DEF x, y
      <4>5. 0 < SegmentLength(0) /\ 0 \in 0 .. config.series_length
        BY <1>4, <4>1, BeginFacts
      <4>6. sum'[t] = [paa |-> m * (s + 1) + 0, segment |-> 0, from |-> Begin(s + 1, 0),
                       counter |-> 0]
        BY <1>6, <3>3, <4>1, <4>3, <4>4
      <4> QED BY <3>0, <4>1, <4>3, <4>5, <4>6
    <3>4. g + 1 < m \/ g + 1 = m
      BY <1>4
    <3> HIDE DEF m
    <3> QED BY <3>1, <3>2, <3>3, <3>4
  <2> QED BY <1>1, <1>5, <2>1, <2>2 DEF AtValue
<1>10. ASSUME NEW u \in Threads, pc'[u] = "work" PROVE AtValue(u)'
  <2>1. CASE u = t
    BY <1>9, <2>1
  <2>2. CASE u # t
    <3>1. AtValue(u)
      BY <1>1, <1>10 DEF MeansDone
    <3>2. at'[u] = at[u] /\ sum'[u] = sum[u] /\ stop'[u] = stop[u]
      BY <1>1, <1>6, <2>2
    <3> QED BY <1>1, <1>5, <3>1, <3>2 DEF AtValue
  <2> QED BY <2>1, <2>2
<1>11. ASSUME NEW z \in Series, NEW h \in Segments
       PROVE  paas'[m * z + h] = MeanOf(z, h) \/ ToCompute(z, h)'
  <2>1. z \in Nat /\ h \in Nat
    BY <1>4 DEF Series, Segments
  <2>2. CASE paas[m * z + h] = MeanOf(z, h)
    <3>1. CASE paas' = paas
      BY <2>2, <3>1
    <3>2. CASE c + 1 = SegmentLength(g)
      <4>1. [from |-> Begin(s, g), to |-> at[t], length |-> SegmentLength(g)] = MeanOf(s, g)
        <5>1. at[t] = Begin(s, g + 1) - 1
          BY <1>3, <1>4, <3>2
        <5> QED BY <5>1 DEF MeanOf
      <4>2. m * z + h \in DOMAIN paas /\ (m * s + g = m * z + h => s = z /\ g = h)
        BY <1>8, Places
      <4>3. paas' = [paas EXCEPT ![m * s + g] = MeanOf(s, g)]
        BY <1>6, <3>2, <4>1
      <4> HIDE DEF m
      <4> QED BY <2>2, <4>2, <4>3
    <3> QED BY <1>6, <3>1, <3>2
  <2>3. CASE ToCompute(z, h)
    <3>1. CASE z >= counter
      BY <1>1, <3>1 DEF ToCompute
    <3>2. ASSUME NEW u \in Threads, pc[u] = "work", at[u] < Begin(z, h + 1), Begin(z, h + 1) <= stop[u],
                 u # t
          PROVE  ToCompute(z, h)'
      BY <1>1, <1>5, <1>6, <3>2 DEF ToCompute
    <3>3. ASSUME pc[t] = "work", at[t] < Begin(z, h + 1), Begin(z, h + 1) <= stop[t],
                 ~(s = z /\ g = h)
          PROVE  ToCompute(z, h)'
      <4>1. Begin(s, g + 1) < Begin(z, h + 1)
        BY <1>3, <1>4, <2>1, <3>3, NextEnd
      <4>2. at'[t] <= Begin(s, g + 1)
        BY <1>4, <1>7
      <4>3. Begin(z, h + 1) \in Nat /\ at'[t] \in Nat /\ Begin(s, g + 1) \in Nat
        <5>1. h + 1 \in 0 .. config.sax_length /\ g + 1 \in 0 .. config.sax_length
          BY <1>4 DEF Segments
        <5> QED BY <1>4, <1>7, <2>1, <5>1, BeginFacts
      <4>4. at'[t] < Begin(z, h + 1)
        BY <4>1, <4>2, <4>3
      <4> QED BY <1>1, <1>5, <3>3, <4>4 DEF ToCompute
    <3>4. CASE s = z /\ g = h /\ c + 1 = SegmentLength(g)
      <4>1. [from |-> Begin(s, g), to |-> at[t], length |-> SegmentLength(g)] = MeanOf(s, g)
        <5>1. at[t] = Begin(s, g + 1) - 1
          BY <1>3, <1>4, <3>4
        <5> QED BY <5>1 DEF MeanOf
      <4>2. m * s + g \in DOMAIN paas
        BY <1>8, Places
      <4>3. paas' = [paas EXCEPT ![m * s + g] = MeanOf(s, g)]
        BY <1>6, <3>4, <4>1
      <4> HIDE DEF m
      <4> QED BY <3>4, <4>2, <4>3
    <3>5. CASE s = z /\ g = h /\ c + 1 # SegmentLength(g)
      <4>1. at'[t] < Begin(s, g + 1)
        BY <1>4, <1>7, <3>5
      <4>2. ASSUME pc[t] = "work", Begin(z, h + 1) <= stop[t] PROVE ToCompute(z, h)'
        BY <1>1, <1>5, <3>5, <4>1, <4>2 DEF ToCompute
      <4> QED BY <2>3, <3>1, <3>2, <4>2 DEF ToCompute
    <3> QED BY <2>3, <3>1, <3>2, <3>3, <3>4, <3>5 DEF ToCompute
  <2> QED BY <1>1, <2>2, <2>3 DEF MeansDone
<1>12. DOMAIN paas' = 0 .. Size' * config'.sax_length - 1
  BY <1>1, <1>5, <1>8
<1>13. \A z \in Series', h \in Segments' :
         paas'[config'.sax_length * z + h] = MeanOf(z, h)' \/ ToCompute(z, h)'
  BY <1>1, <1>5, <1>11
<1> QED BY <1>10, <1>12, <1>13 DEF MeansDone

\* A block begins with the first value of a series.
LEMMA ClaimMeans ==
  ASSUME Typed, HasValues, MeansDone, NEW t \in Threads, Claim(t), DOMAIN sum = Threads,
         phase \in Runs
  PROVE  MeansDone'
<1>1. /\ UNCHANGED <<config, set, phase, paas>> /\ pc[t] = "claim" /\ counter \in Nat
      /\ \A u \in Threads \ {t} : pc'[u] = pc[u] /\ at'[u] = at[u] /\ stop'[u] = stop[u]
                                  /\ sum'[u] = sum[u]
  BY DEF Claim, StartMeans, StartItems, constant, configuration, results, Typed
<1>2. CASE phase # "meansRun"
  BY <1>1, <1>2 DEF MeansDone, Size, Runs
<1>3. CASE phase = "meansRun"
  <2> DEFINE n == config.series_length
             m == config.sax_length
  <2>1. /\ Series' = Series /\ Segments' = Segments /\ Size' = Size
        /\ \A x : SegmentLength(x)' = SegmentLength(x)
        /\ \A x, y : Begin(x, y)' = Begin(x, y) /\ MeanOf(x, y)' = MeanOf(x, y)
    BY <1>1, MeansFrame
  <2>2. n \in Nat /\ m \in Nat \ {0} /\ Size \in Nat /\ Items = Size /\ Scale = n
        /\ BlockSize \in Nat \ {0}
    BY <1>3, NumberFacts DEF HasValues, Items, Scale
  <2>3. /\ counter' = counter + BlockSize /\ counter' \in Nat
        /\ counter < Size =>
             /\ pc'[t] = "work" /\ at'[t] = n * counter /\ stop'[t] = n * BlockStop(counter)
             /\ sum'[t] = [paa |-> m * counter, segment |-> 0, from |-> n * counter, counter |-> 0]
        /\ ~(counter < Size) => pc'[t] # "work"
    <3>1. counter' = counter + BlockSize
      BY DEF Claim
    <3>2. ASSUME counter < Size
          PROVE  /\ pc'[t] = "work" /\ at'[t] = n * counter /\ stop'[t] = n * BlockStop(counter)
                 /\ sum'[t] = [paa |-> m * counter, segment |-> 0, from |-> n * counter,
                               counter |-> 0]
      <4>1. pc' = [pc EXCEPT ![t] = "work"] /\ StartMeans(t, counter)
        BY <1>3, <2>2, <3>2 DEF Claim
      <4> QED BY <4>1 DEF StartMeans, Typed
    <3>3. ASSUME ~(counter < Size) PROVE pc'[t] # "work"
      <4>1. pc' = [pc EXCEPT ![t] = "idle"]
        BY <2>2, <3>3 DEF Claim
      <4> QED BY <4>1 DEF Typed
    <3>4. counter' \in Nat
      BY <1>1, <2>2, <3>1
    <3> QED BY <3>1, <3>2, <3>3, <3>4
  <2>4. /\ BlockStop(counter) \in 0 .. Size
        /\ \A i \in 0 .. Size - 1 : i < counter' => i < BlockStop(counter)
    <3>1. BlockStop(counter) \in {counter + BlockSize, Size} /\ BlockStop(counter) <= Size
      BY <1>1, <2>2, MinOfTwo DEF BlockStop
    <3>2. counter + BlockSize \in Nat
      BY <1>1, <2>2
    <3> QED BY <2>2, <2>3, <3>1, <3>2
  <2>5. ASSUME NEW u \in Threads, pc'[u] = "work" PROVE AtValue(u)'
    <3>1. CASE u # t
      <4>1. AtValue(u)
        BY <1>1, <1>3, <2>5, <3>1 DEF MeansDone
      <4>2. at'[u] = at[u] /\ sum'[u] = sum[u] /\ stop'[u] = stop[u]
        BY <1>1, <3>1
      <4> QED BY <1>1, <2>1, <4>1, <4>2 DEF AtValue
    <3>2. CASE u = t
      <4>1. /\ at'[t] = n * counter /\ stop'[t] = n * BlockStop(counter)
            /\ sum'[t] = [paa |-> m * counter, segment |-> 0, from |-> n * counter, counter |-> 0]
        BY <2>3, <2>5, <3>2
      <4>2. 0 \in Segments /\ 0 \in 0 .. n
        BY <2>2 DEF Segments
      <4>3. 0 < SegmentLength(0) /\ Begin(counter, 0) = n * counter /\ Begin(counter, 0) \in Nat
        <5>1. SegmentLength(0) \in Nat \ {0} /\ Begin(counter, 0) = n * counter
          BY <1>1, <4>2, BeginFacts
        <5>2. Begin(counter, 0) \in Nat
          <6>1. 0 \in 0 .. config.sax_length /\ counter \in Nat
            BY <1>1, <2>2
          <6> QED BY <6>1, BeginFacts
        <5> QED BY <5>1, <5>2
      <4>4. at'[t] = Begin(counter, 0) + 0
            /\ sum'[t] = [paa |-> m * counter + 0, segment |-> 0, from |-> Begin(counter, 0),
                          counter |-> 0]
        <5>1. m * counter + 0 = m * counter
          BY <1>1, <2>2
        <5> QED BY <4>1, <4>3, <5>1
      <4>5. \E s \in 0 .. Size, g \in Segments, c \in 0 .. n :
              /\ c < SegmentLength(g) /\ at'[t] = Begin(s, g) + c
              /\ sum'[t] = [paa |-> m * s + g, segment |-> g, from |-> Begin(s, g), counter |-> c]
        <5>1. counter \in 0 .. Size
          BY <1>1, <2>2, <2>3, <2>5, <3>2
        <5> HIDE DEF n, m
        <5> QED BY <4>2, <4>3, <4>4, <5>1
      <4>6. \E e \in 0 .. Size : stop'[t] = n * e
        BY <2>4, <4>1
      <4> QED BY <1>1, <2>1, <3>2, <4>5, <4>6 DEF AtValue
    <3> QED BY <3>1, <3>2
  <2>6. ASSUME NEW s \in Series, NEW g \in Segments
        PROVE  paas[m * s + g] = MeanOf(s, g) \/ ToCompute(s, g)'
    <3>1. CASE paas[m * s + g] = MeanOf(s, g)
      BY <3>1
    <3>2. ASSUME NEW u \in Threads, pc[u] = "work", at[u] < Begin(s, g + 1), Begin(s, g + 1) <= stop[u]
          PROVE  ToCompute(s, g)'
      <4>1. u # t
        BY <1>1, <3>2
      <4> QED BY <1>1, <2>1, <3>2, <4>1 DEF ToCompute
    <3>3. CASE s >= counter
      <4>1. s \in Nat /\ s < Size /\ counter < Size /\ s \in 0 .. Size - 1
        BY <1>1, <2>2, <3>3 DEF Series
      <4>2. CASE s >= counter'
        BY <4>2 DEF ToCompute
      <4>3. CASE s < counter'
        <5>1. s + 1 <= BlockStop(counter) /\ BlockStop(counter) \in Nat /\ s + 1 \in Nat
          BY <2>2, <2>4, <4>1, <4>3
        <5>2. n * (s + 1) <= n * BlockStop(counter) /\ n * counter <= n * s
              /\ n * counter \in Nat /\ n * s \in Nat /\ n * (s + 1) \in Nat
              /\ n * BlockStop(counter) \in Nat
          <6> HIDE DEF n
          <6> QED BY <1>1, <2>2, <3>3, <4>1, <5>1, ScaledLeq
        <5>3. /\ Begin(s, g) < Begin(s, g + 1) /\ Begin(s, 0) <= Begin(s, g)
              /\ Begin(s, g + 1) <= Begin(s, m) /\ Begin(s, 0) = n * s /\ Begin(s, m) = n * (s + 1)
              /\ Begin(s, g) \in Nat /\ Begin(s, g + 1) \in Nat
          <6>1. g + 1 \in 0 .. m /\ m \in 0 .. m /\ 0 \in 0 .. m /\ g \in 0 .. m
                /\ g + 1 <= m /\ 0 <= g /\ s + 1 \in Nat
            BY <2>2, <4>1 DEF Segments
          <6>2. /\ \A x \in Nat, y \in 0 .. m : Begin(x, y) \in Nat
                /\ \A y \in Segments : SegmentLength(y) \in Nat \ {0}
                /\ \A x \in Nat, y \in Segments : Begin(x, y + 1) = Begin(x, y) + SegmentLength(y)
                /\ \A x \in Nat : Begin(x, 0) = n * x /\ Begin(x, m) = Begin(x + 1, 0)
                /\ \A x \in Nat : \A y, w \in 0 .. m : y <= w => Begin(x, y) <= Begin(x, w)
            BY BeginFacts
          <6> HIDE DEF n, m
          <6>3. Begin(s, g + 1) = Begin(s, g) + SegmentLength(g) /\ SegmentLength(g) \in Nat \ {0}
                /\ Begin(s, g) \in Nat
            BY <4>1, <6>1, <6>2
          <6> QED BY <4>1, <6>1, <6>2, <6>3
        <5> DEFINE a == n * counter
                   b == n * s
                   d == n * (s + 1)
                   e == n * BlockStop(counter)
        <5>4. a \in Nat /\ b \in Nat /\ d \in Nat /\ e \in Nat /\ d <= e /\ a <= b
              /\ b <= Begin(s, g) /\ Begin(s, g + 1) <= d
          BY <5>2, <5>3
        <5>5. pc'[t] = "work" /\ at'[t] = a /\ stop'[t] = e
          BY <2>3, <4>1
        <5> HIDE DEF a, b, d, e
        <5>6. at'[t] < Begin(s, g + 1) /\ Begin(s, g + 1) <= stop'[t]
          BY <5>3, <5>4, <5>5
        <5> QED BY <2>1, <5>5, <5>6 DEF ToCompute
      <4> QED BY <2>3, <4>1, <4>2, <4>3
    <3> QED BY <1>3, <3>1, <3>2, <3>3 DEF MeansDone, ToCompute
  <2>7. \A s \in Series', g \in Segments' :
          paas'[config'.sax_length * s + g] = MeanOf(s, g)' \/ ToCompute(s, g)'
    BY <1>1, <2>1, <2>6
  <2>8. DOMAIN paas' = 0 .. Size' * config'.sax_length - 1
    BY <1>1, <1>3, <2>1 DEF MeansDone
  <2> QED BY <2>5, <2>7, <2>8 DEF MeansDone
<1> QED BY <1>2, <1>3

\* At the end of its block a thread has computed the means of all its segments.
LEMMA BlockDoneMeans ==
  ASSUME Typed, HasValues, MeansDone, NEW t \in Threads, BlockDone(t)
  PROVE  MeansDone'
<1>1. /\ UNCHANGED <<config, set, phase, paas, counter, at, stop, sum>>
      /\ at[t] = stop[t] /\ pc'[t] = "claim" /\ \A u \in Threads \ {t} : pc'[u] = pc[u]
  BY DEF BlockDone, constant, configuration, results, Typed
<1>2. /\ Series' = Series /\ Segments' = Segments /\ Size' = Size
      /\ \A x : SegmentLength(x)' = SegmentLength(x)
      /\ \A x, y : Begin(x, y)' = Begin(x, y) /\ MeanOf(x, y)' = MeanOf(x, y)
  BY <1>1, MeansFrame
<1>3. ASSUME phase = "meansRun", NEW u \in Threads, pc'[u] = "work" PROVE AtValue(u)'
  <2>1. u # t /\ AtValue(u)
    BY <1>1, <1>3 DEF MeansDone
  <2> QED BY <1>1, <1>2, <2>1 DEF AtValue
<1>4. ASSUME NEW s \in Series, NEW g \in Segments, ToCompute(s, g)
      PROVE  ToCompute(s, g)'
  <2>1. Begin(s, g + 1) \in Nat
    <3>1. s \in Nat /\ g + 1 \in 0 .. config.sax_length
      BY NumberFacts DEF Series, Segments
    <3> QED BY <3>1, BeginFacts
  <2>2. at[t] \in Nat /\ stop[t] \in Nat
    BY DEF Typed
  <2>3. ~(at[t] < Begin(s, g + 1) /\ Begin(s, g + 1) <= stop[t])
    BY <1>1, <2>1, <2>2
  <2> QED BY <1>1, <1>2, <1>4, <2>3 DEF ToCompute
<1>5. phase = "meansRun" =>
        \A s \in Series', g \in Segments' :
          paas'[config'.sax_length * s + g] = MeanOf(s, g)' \/ ToCompute(s, g)'
  BY <1>1, <1>2, <1>4 DEF MeansDone
<1>6. phase \in {"means", "meansRun"} => DOMAIN paas' = 0 .. Size' * config'.sax_length - 1
  BY <1>1, <1>2 DEF MeansDone
<1> QED BY <1>1, <1>3, <1>5, <1>6 DEF MeansDone

\* Later phases leave the means alone.
LEMMA MeansKept ==
  ASSUME MeansOfSegments, UNCHANGED <<config, set, paas>>,
         phase \in {"options", "aborted", "configured", "means", "meansRun"} =>
           phase' \in {"options", "aborted", "configured", "means", "meansRun"}
  PROVE  MeansOfSegments'
<1>1. /\ Series' = Series /\ Segments' = Segments /\ Computed' = Computed
      /\ \A x, y : MeanOf(x, y)' = MeanOf(x, y)
  BY MeansFrame
<1> QED BY <1>1 DEF MeansOfSegments

LEMMA MeansWork ==
  ASSUME IInv, MeansInv, NEW t \in Threads, Work(t)
  PROVE  MeansInv'
<1>1. UNCHANGED <<config, set, phase>> /\ phase \in Runs /\ Typed
  BY WorkFrame DEF IInv, BlocksClaimed
<1>2. DOMAIN sum' = Threads
  BY DEF MeansInv, Work, Claim, StartMeans, StartItems, BlockDone, AddValue, ExtractBreakpoints,
         FindWord
<1>3. HasValues' = HasValues
  BY <1>1, MeansFrame
<1>4. ASSUME HasValues PROVE MeansDone' /\ MeansOfSegments'
  <2>1. MeansDone /\ MeansOfSegments /\ DOMAIN sum = Threads
    BY <1>4 DEF MeansInv
  <2>2. CASE Claim(t)
    <3>1. paas' = paas
      BY <2>2 DEF Claim, results
    <3> QED BY <1>1, <1>4, <2>1, <2>2, <3>1, ClaimMeans, MeansKept
  <2>3. CASE BlockDone(t)
    <3>1. paas' = paas
      BY <2>3 DEF BlockDone, results
    <3> QED BY <1>1, <1>4, <2>1, <2>3, <3>1, BlockDoneMeans, MeansKept
  <2>4. CASE AddValue(t)
    <3>1. phase = "meansRun"
      BY <2>4 DEF AddValue
    <3>2. MeansOfSegments'
      BY <1>1, <3>1 DEF MeansOfSegments
    <3> QED BY <1>1, <1>4, <2>1, <2>4, <3>2, AddValueStep
  <2>5. CASE ExtractBreakpoints(t) \/ FindWord(t)
    <3>1. paas' = paas /\ phase \notin {"means", "meansRun"}
      BY <2>5 DEF ExtractBreakpoints, FindWord
    <3>2. MeansDone'
      BY <1>1, <3>1 DEF MeansDone
    <3> QED BY <1>1, <2>1, <3>1, <3>2, MeansKept
  <2> QED BY <2>2, <2>3, <2>4, <2>5 DEF Work
<1> QED BY <1>2, <1>3, <1>4 DEF MeansInv

\* When the threads that aggregate are joined every mean is computed.
LEMMA MeansJoin ==
  ASSUME IInv, MeansInv, Join
  PROVE  MeansInv'
<1>1. /\ UNCHANGED <<config, set, counter, pc, at, stop, sum, paas>>
      /\ \A t \in Threads : pc[t] = "idle"
      /\ phase \in Runs /\ phase' \in {"quantiles", "words", "indexed", "prepared"}
  BY DEF Join, Joined, constant, configuration, results, Runs
<1>2. HasValues' = HasValues /\ DOMAIN sum' = Threads /\ MeansDone'
  <2>1. HasValues' = HasValues
    BY <1>1, MeansFrame
  <2> QED BY <1>1, <2>1 DEF MeansInv, MeansDone
<1>3. ASSUME HasValues PROVE MeansOfSegments'
  <2>1. MeansDone /\ MeansOfSegments
    BY <1>3 DEF MeansInv
  <2>2. CASE phase = "meansRun"
    <3>1. counter >= Size /\ counter \in Nat /\ Size \in Nat
      BY <1>1, <2>2, NumberFacts, PreparationAssumption
         DEF IInv, Typed, BlocksClaimed, Threads, Items
    <3>2. ASSUME NEW s \in Series, NEW g \in Segments
          PROVE  paas[config.sax_length * s + g] = MeanOf(s, g)
      <4>1. ~(s >= counter)
        BY <3>1 DEF Series
      <4>2. ~ToCompute(s, g)
        BY <1>1, <4>1 DEF ToCompute
      <4> QED BY <2>1, <2>2, <4>2 DEF MeansDone
    <3>3. /\ Series' = Series /\ Segments' = Segments
          /\ \A x, y : MeanOf(x, y)' = MeanOf(x, y)
      BY <1>1, MeansFrame
    <3> QED BY <1>1, <3>2, <3>3 DEF MeansOfSegments
  <2>3. CASE phase # "meansRun"
    <3>1. phase \notin {"options", "aborted", "configured", "means", "meansRun"}
      BY <1>1, <2>3 DEF Runs
    <3> QED BY <1>1, <2>1, <3>1, MeansKept
  <2> QED BY <2>2, <2>3
<1> QED BY <1>2, <1>3 DEF MeansInv

\* Creating threads and reading files.
LEMMA MeansMain ==
  ASSUME IInv, MeansInv,
         \/ Configure \/ InitializeIndex \/ InitializeQuery
         \/ PiecewiseAggregate \/ GetAdhocBreakpoints8 \/ GetNormalBreakpoints8
         \/ Summarizations2SAX16
  PROVE  MeansInv'
<1>1. CASE Configure
  <2>1. phase' \in {"options", "aborted", "configured"} /\ sum' = sum
    BY <1>1 DEF Configure, InitializeConfig, ParseOption, Accept, Abort
  <2> QED BY <2>1 DEF MeansInv, MeansDone, MeansOfSegments
<1>2. CASE InitializeIndex \/ InitializeQuery
  <2>1. /\ UNCHANGED <<config, sum>> /\ Size' \in Nat
        /\ \/ /\ phase' = "means"
              /\ DOMAIN paas' = 0 .. Size' * config'.sax_length - 1
           \/ phase' \in {"quantiles", "words"} /\ ~Computed'
    <3>1. CASE InitializeIndex
      <4>1. set' = "database"
        BY <3>1 DEF InitializeIndex, IInv, BlocksDone
      <4>2. UNCHANGED <<config, sum>> /\ Load(config.database_size, config.database_summarization_filepath, "quantiles")
        BY <3>1 DEF InitializeIndex, Load, configuration
      <4>3. Size' = config.database_size /\ config.database_size \in Nat
            /\ Computed' = (config.database_summarization_filepath = "NULL")
        BY <4>1, <4>2 DEF Size, Computed, IInv, Typed, Numbers
      <4> QED BY <4>2, <4>3 DEF Load
    <3>2. CASE InitializeQuery
      <4>1. set' = "queries"
        BY <3>2 DEF InitializeQuery
      <4>2. UNCHANGED <<config, sum>> /\ Load(config.query_size, config.query_summarization_filepath, "words")
        BY <3>2 DEF InitializeQuery, Load, configuration
      <4>3. Size' = config.query_size /\ config.query_size \in Nat
            /\ Computed' = (config.query_summarization_filepath = "NULL")
        BY <4>1, <4>2 DEF Size, Computed, IInv, Typed, Numbers
      <4> QED BY <4>2, <4>3 DEF Load
    <3> QED BY <1>2, <3>1, <3>2
  <2>2. MeansDone' /\ MeansOfSegments'
    BY <2>1 DEF MeansDone, MeansOfSegments
  <2> QED BY <2>1, <2>2 DEF MeansInv
<1>3. CASE PiecewiseAggregate
  <2>1. /\ UNCHANGED <<config, set, sum, paas>> /\ phase = "means" /\ phase' = "meansRun"
        /\ counter' = 0 /\ pc' = Running(config.max_threads)
    BY <1>3 DEF PiecewiseAggregate, Create, constant, configuration, results
  <2>2. HasValues' = HasValues /\ Size' = Size
    BY <2>1, MeansFrame
  <2>3. \A t \in Threads : pc'[t] # "work"
    BY <2>1 DEF Running
  <2>4. \A s \in Series' : \A g : ToCompute(s, g)'
    <3>1. \A s \in Series' : s >= 0
      BY <2>2, NumberFacts DEF Series, IInv
    <3> QED BY <2>1, <3>1 DEF ToCompute
  <2>5. HasValues => MeansDone' /\ MeansOfSegments'
    BY <2>1, <2>2, <2>3, <2>4 DEF MeansInv, MeansDone, MeansOfSegments
  <2> QED BY <2>1, <2>2, <2>5 DEF MeansInv
<1>4. CASE GetAdhocBreakpoints8 \/ GetNormalBreakpoints8 \/ Summarizations2SAX16
  <2>1. /\ UNCHANGED <<config, set, sum, paas>> /\ phase \in {"quantiles", "words"}
        /\ phase' \in {"quantilesRun", "words", "wordsRun"}
    BY <1>4 DEF GetAdhocBreakpoints8, GetNormalBreakpoints8, Summarizations2SAX16, Create, constant,
                configuration, results
  <2>2. HasValues' = HasValues /\ MeansDone'
    BY <2>1, MeansFrame DEF MeansDone
  <2>3. HasValues => MeansOfSegments'
    BY <2>1, MeansKept DEF MeansInv
  <2> QED BY <2>1, <2>2, <2>3 DEF MeansInv
<1> QED BY <1>1, <1>2, <1>3, <1>4

\* With at least one value per segment, the mean of every segment of every series and
\* query is that of its own values, whatever the number of threads, the size of their
\* blocks and the lengths the division leaves to the segments (piecewiseAggregateThread,
\* which counts the values of a segment and knows neither series nor blocks).
THEOREM MeansAreOfSegments == Spec => [](HasValues => MeansOfSegments)
<1>1. Init => MeansInv
  BY DEF Init, ConfigurationInit, MeansInv, MeansDone, MeansOfSegments
<1>2. IInv /\ MeansInv /\ [Next]_vars => MeansInv'
  <2> SUFFICES ASSUME IInv, MeansInv, [Next]_vars PROVE MeansInv'
    OBVIOUS
  <2>1. CASE UNCHANGED vars
    <3>1. /\ Series' = Series /\ Segments' = Segments /\ Size' = Size /\ HasValues' = HasValues
          /\ \A x : SegmentLength(x)' = SegmentLength(x)
          /\ \A x, y : Begin(x, y)' = Begin(x, y) /\ MeanOf(x, y)' = MeanOf(x, y)
      BY <2>1, MeansFrame DEF vars, configuration
    <3>2. UNCHANGED <<config, phase, set, counter, pc, at, stop, sum, paas>>
      BY <2>1 DEF vars, configuration
    <3>3. \A t \in Threads : AtValue(t)' = AtValue(t)
      BY <3>1, <3>2 DEF AtValue
    <3>4. \A s, g : ToCompute(s, g)' = ToCompute(s, g)
      BY <3>1, <3>2 DEF ToCompute
    <3>5. MeansDone' = MeansDone
      BY <3>1, <3>2, <3>3, <3>4 DEF MeansDone
    <3>6. MeansOfSegments => MeansOfSegments'
      BY <3>2, MeansKept
    <3> QED BY <3>1, <3>2, <3>5, <3>6 DEF MeansInv
  <2>2. CASE Main
    BY <2>2, MeansMain, MeansJoin DEF Main
  <2>3. CASE \E t \in Threads : Work(t)
    BY <2>3, MeansWork
  <2> QED BY <2>1, <2>2, <2>3 DEF Next, Terminated
<1>3. MeansInv => (HasValues => MeansOfSegments)
  BY DEF MeansInv
<1> QED BY <1>1, <1>2, <1>3, IInvHolds, PTL DEF Spec
=============================================================================
