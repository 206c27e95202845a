---------------------------- MODULE Preparation ----------------------------
(***************************************************************************)
(* initializeIndex (src/src/index/index.c) from the values to the words,   *)
(* and initializeQuery (src/src/query/query.c), which does the same for    *)
(* the queries: piecewiseAggregate (src/src/paa/paa.c),                    *)
(* getAdhocBreakpoints8 or getNormalBreakpoints8                           *)
(* (src/src/sax/breakpoints.c), and summarizations2SAX16                   *)
(* (src/src/sax/sax.c).  Each creates threads that share work out by a     *)
(* fetch-and-add counter, and joins them.  A value is represented by its   *)
(* place in the file, a mean by the interval of places added up and the    *)
(* length divided by, breakpoints by the column of means they are          *)
(* quantiles of, and a symbol by the mean and breakpoints it is searched   *)
(* with.  What main does between the two (IndexBuild, Finalize) leaves     *)
(* means and breakpoints alone.                                            *)
(***************************************************************************)
EXTENDS Configuration, Sums

CONSTANT MaxThreads       \* bounds config->max_threads

ASSUME PreparationAssumption == MaxThreads \in Nat \ {0}

VARIABLES
  set,          \* whose values are prepared: those of the database or of the queries
  counter,      \* shared_processed_counter of the phase
  pc,           \* per thread: idle, about to claim, at work
  at, stop,     \* the value, segment or series it is at and the end of its block
  sum,          \* what piecewiseAggregateThread keeps between two values
  paas, saxs,   \* summarizations and saxs of the set
  breakpoints   \* of the index

vars == <<configuration, phase, set, counter, pc, at, stop, sum, paas, breakpoints, saxs>>
results == <<paas, breakpoints, saxs>>
constant == <<configuration, set>>

Size     == IF set = "queries" THEN config.query_size ELSE config.database_size
Series   == 0 .. Size - 1
Segments == 0 .. config.sax_length - 1
Threads  == 1 .. MaxThreads
Unset    == [unset |-> TRUE]

\* segment_lengths, as piecewiseAggregate fills it: the first segments take what
\* is left over by the division.
SegmentLength_NothingLeftOver(g) == config.series_length \div config.sax_length
SegmentLength(g) ==
  config.series_length \div config.sax_length
  + (IF g < config.series_length % config.sax_length THEN 1 ELSE 0)

Running(threads) == [t \in Threads |-> IF t <= threads THEN "claim" ELSE "idle"]

Init ==
  /\ ConfigurationInit
  /\ set = "database" /\ counter = 0
  /\ pc = [t \in Threads |-> "idle"]
  /\ at = [t \in Threads |-> 0] /\ stop = [t \in Threads |-> 0]
  /\ sum = [t \in Threads |-> [paa |-> 0, segment |-> 0, from |-> 0, counter |-> 0]]
  /\ paas = << >> /\ breakpoints = << >> /\ saxs = << >>

-----------------------------------------------------------------------------
(* What all threads do: fetch and add, cut the last block, leave at the end. *)

BlockSize_NotOneMore ==
  CASE phase = "meansRun"     -> Size \div (4 * config.max_threads)
    [] phase = "quantilesRun" -> 1
    [] phase = "wordsRun"     -> Size \div (2 * config.max_threads)
BlockSize ==
  CASE phase = "meansRun"     -> 1 + Size \div (4 * config.max_threads)
    [] phase = "quantilesRun" -> 1
    [] phase = "wordsRun"     -> 1 + Size \div (2 * config.max_threads)

Items == IF phase = "quantilesRun" THEN config.sax_length ELSE Size

BlockStop(start) == Min({start + BlockSize, Items})

\* A block of piecewiseAggregateThread is a range of values, with its sums at zero.
StartMeans(t, start) ==
  /\ at' = [at EXCEPT ![t] = config.series_length * start]
  /\ stop' = [stop EXCEPT ![t] = config.series_length * BlockStop(start)]
  /\ sum' = [sum EXCEPT ![t] = [paa |-> config.sax_length * start, segment |-> 0,
                                from |-> config.series_length * start, counter |-> 0]]

StartItems(t, start) ==
  /\ at' = [at EXCEPT ![t] = start]
  /\ stop' = [stop EXCEPT ![t] = BlockStop(start)]
  /\ UNCHANGED sum

Claim_AddsOne(t) ==
  /\ pc[t] = "claim"
  /\ counter' = counter + 1
  /\ IF counter < Items
     THEN /\ pc' = [pc EXCEPT ![t] = "work"]
          /\ IF phase = "meansRun" THEN StartMeans(t, counter) ELSE StartItems(t, counter)
     ELSE /\ pc' = [pc EXCEPT ![t] = "idle"]
          /\ UNCHANGED <<at, stop, sum>>
  /\ UNCHANGED <<constant, phase, results>>
Claim(t) ==
  /\ pc[t] = "claim"
  /\ counter' = counter + BlockSize
  /\ IF counter < Items
     THEN /\ pc' = [pc EXCEPT ![t] = "work"]
          /\ IF phase = "meansRun" THEN StartMeans(t, counter) ELSE StartItems(t, counter)
     ELSE /\ pc' = [pc EXCEPT ![t] = "idle"]
          /\ UNCHANGED <<at, stop, sum>>
  /\ UNCHANGED <<constant, phase, results>>

BlockDone(t) ==
  /\ pc[t] = "work" /\ at[t] = stop[t]
  /\ pc' = [pc EXCEPT ![t] = "claim"]
  /\ UNCHANGED <<constant, phase, counter, at, stop, sum, results>>

-----------------------------------------------------------------------------
(* What they do to a value, a segment, a series. *)

\* One value of piecewiseAggregateThread.  It knows no series, only how many
\* values the current segment still needs.
AddValue(t) ==
  /\ phase = "meansRun" /\ pc[t] = "work" /\ at[t] < stop[t]
  /\ at' = [at EXCEPT ![t] = at[t] + 1]
  /\ LET length == SegmentLength(sum[t].segment)
     IN  IF sum[t].counter + 1 = length
         THEN /\ paas' = [paas EXCEPT ![sum[t].paa] =
                            [from |-> sum[t].from, to |-> at[t], length |-> length]]
              /\ sum' = [sum EXCEPT ![t] =
                           [paa |-> sum[t].paa + 1,
                            segment |-> (sum[t].segment + 1) % config.sax_length,
                            from |-> at[t] + 1, counter |-> 0]]
         ELSE /\ sum' = [sum EXCEPT ![t].counter = sum[t].counter + 1]
              /\ UNCHANGED paas
  /\ UNCHANGED <<constant, phase, counter, pc, stop, breakpoints, saxs>>

\* The values_per_segment that getAdhocBreakpoints8Thread sorts.
Column(g) == [column |-> [s \in Series |-> paas[config.sax_length * s + g]]]

ExtractBreakpoints(t) ==
  /\ phase = "quantilesRun" /\ pc[t] = "work" /\ at[t] < stop[t]
  /\ breakpoints' = [breakpoints EXCEPT ![at[t]] = Column(at[t])]
  /\ at' = [at EXCEPT ![t] = at[t] + 1]
  /\ UNCHANGED <<constant, phase, counter, pc, stop, sum, paas, saxs>>

\* One series of summarizations2SAX16Thread.
WordOf(s) == [g \in Segments |-> [mean |-> paas[config.sax_length * s + g], of |-> breakpoints[g]]]

FindWord(t) ==
  /\ phase = "wordsRun" /\ pc[t] = "work" /\ at[t] < stop[t]
  /\ saxs' = [saxs EXCEPT ![at[t]] = WordOf(at[t])]
  /\ at' = [at EXCEPT ![t] = at[t] + 1]
  /\ UNCHANGED <<constant, phase, counter, pc, stop, sum, paas, breakpoints>>

-----------------------------------------------------------------------------
(* initializeIndex and initializeQuery: create the threads of a phase, join them, go on. *)

\* Summarizations are read from a file, if there is one, or computed.
Load(size, filepath, after) ==
  /\ phase' = IF filepath = "NULL" THEN "means" ELSE after
  /\ paas' = [p \in 0 .. size * config.sax_length - 1 |->
                IF filepath = "NULL" THEN Unset ELSE [file |-> p]]
  /\ saxs' = [s \in 0 .. size - 1 |-> [g \in Segments |-> Unset]]
  /\ UNCHANGED <<configuration, counter, pc, at, stop, sum>>

InitializeIndex ==
  /\ phase = "configured"
  /\ Load(config.database_size, config.database_summarization_filepath, "quantiles")
  /\ breakpoints' = [g \in Segments |-> Unset]
  /\ UNCHANGED set

\* Queries get their words by the breakpoints of the index.
InitializeQuery ==
  /\ phase = "indexed"
  /\ set' = "queries"
  /\ Load(config.query_size, config.query_summarization_filepath, "words")
  /\ UNCHANGED breakpoints

Create_CounterKept(before, running, threads) ==
  /\ phase = before
  /\ phase' = running
  /\ counter' = counter
  /\ pc' = Running(threads)
  /\ UNCHANGED <<constant, at, stop, sum, results>>
Create(before, running, threads) ==
  /\ phase = before
  /\ phase' = running
  /\ counter' = 0
  /\ pc' = Running(threads)
  /\ UNCHANGED <<constant, at, stop, sum, results>>

PiecewiseAggregate == Create("means", "meansRun", config.max_threads)

\* No more threads than segments.
GetAdhocBreakpoints8 ==
  /\ config.use_adhoc_breakpoints
  /\ Create("quantiles", "quantilesRun", Min({config.max_threads, config.sax_length}))

GetNormalBreakpoints8 ==
  /\ ~config.use_adhoc_breakpoints
  /\ phase = "quantiles"
  /\ phase' = "words"
  /\ breakpoints' = [g \in Segments |-> [normal |-> TRUE]]
  /\ UNCHANGED <<constant, counter, pc, at, stop, sum, paas, saxs>>

Summarizations2SAX16 == Create("words", "wordsRun", config.max_threads)

Joined == \A t \in Threads : pc[t] = "idle"

Join ==
  /\ Joined
  /\ \/ phase = "meansRun"     /\ phase' = IF set = "queries" THEN "words" ELSE "quantiles"
     \/ phase = "quantilesRun" /\ phase' = "words"
     \/ phase = "wordsRun"     /\ phase' = IF set = "queries" THEN "prepared" ELSE "indexed"
  /\ UNCHANGED <<constant, counter, pc, at, stop, sum, results>>

Configure ==
  /\ InitializeConfig
  /\ UNCHANGED <<set, counter, pc, at, stop, sum, results>>

Main == \/ Configure \/ InitializeIndex \/ InitializeQuery \/ Join
        \/ PiecewiseAggregate \/ GetAdhocBreakpoints8 \/ GetNormalBreakpoints8
        \/ Summarizations2SAX16

Work(t) == Claim(t) \/ BlockDone(t) \/ AddValue(t) \/ ExtractBreakpoints(t) \/ FindWord(t)

Terminated == phase \in {"prepared", "aborted"} /\ UNCHANGED vars

Next == Main \/ (\E t \in Threads : Work(t)) \/ Terminated

Spec == Init /\ [][Next]_vars /\ WF_vars(Main) /\ \A t \in Threads : WF_vars(Work(t))

-----------------------------------------------------------------------------
segment_lengths == [g \in Segments |-> SegmentLength(g)]

\* Where a segment of a series begins: behind all segments before it.
Begin(s, g) == config.series_length * s + SumOver(segment_lengths, 0 .. g - 1)

MeanOf(s, g) == [from |-> Begin(s, g), to |-> Begin(s, g + 1) - 1, length |-> SegmentLength(g)]

\* Of a set of series or queries, if the means are computed.
Computed ==
  (IF set = "queries" THEN config.query_summarization_filepath
                      ELSE config.database_summarization_filepath) = "NULL"

\* Once the threads that aggregate are joined, every mean is that of exactly its
\* own segment of its own series, also where segments have unequal lengths and a
\* block begins in the middle of the file.
MeansOfSegments ==
  phase \notin {"options", "aborted", "configured", "means", "meansRun"} /\ Computed =>
    \A s \in Series, g \in Segments :
      paas[config.sax_length * s + g] = MeanOf(s, g)

\* Two threads never have a value, segment or series in common to work on.
BlocksApart ==
  \A t, u \in Threads :
    t # u /\ pc[t] = "work" /\ pc[u] = "work" => stop[t] <= at[u] \/ stop[u] <= at[t]

\* Nothing is read before its phase has written it: breakpoints were extracted from
\* the means of the database that are there in the end, and each word, of a series
\* or a query, was found with its means and those breakpoints.
NothingReadEarly ==
  /\ phase \in {"words", "wordsRun", "indexed"} /\ set = "database" =>
       \A g \in Segments :
         breakpoints[g] = IF config.use_adhoc_breakpoints THEN Column(g) ELSE [normal |-> TRUE]
  /\ phase \in {"indexed", "prepared"} => \A s \in Series : saxs[s] = WordOf(s)

\* All threads leave and are joined, unless the configuration is not acceptable.
Termination == <>(phase \in {"prepared", "aborted"})

-----------------------------------------------------------------------------
(* The inductive invariant behind the theorems of PreparationProofs *)

Runs    == {"meansRun", "quantilesRun", "wordsRun"}
Numbers == {"database_size", "query_size", "series_length", "sax_length", "cpu_cores",
            "skipped_cores"}

Typed ==
  /\ DOMAIN config = DOMAIN Defaults /\ \A field \in Numbers : config[field] \in Nat
  /\ arguments \in Seq(Options)
  /\ phase \notin {"options", "aborted"} => config.max_threads \in Nat \ {0}
  /\ set \in {"database", "queries"} /\ counter \in Nat
  /\ pc \in [Threads -> {"idle", "claim", "work"}]
  /\ at \in [Threads -> Nat] /\ stop \in [Threads -> Nat]

\* How far at and stop go per item of the counter.
Scale == IF phase = "meansRun" THEN config.series_length ELSE 1

\* Blocks end where others may begin, and no thread ends before all are claimed.
BlocksClaimed ==
  /\ phase \notin Runs => \A t \in Threads : pc[t] = "idle"
  /\ phase \in Runs => pc[1] # "idle" \/ counter >= Items
  /\ \A t \in Threads : pc[t] = "work" => at[t] <= stop[t] /\ stop[t] <= Scale * counter

\* An item that is not claimed yet, or still in a block at work.
Open(i) == i >= counter \/ \E t \in Threads : pc[t] = "work" /\ at[t] <= i /\ i < stop[t]

BlocksDone ==
  /\ phase \notin {"options", "aborted", "configured"} =>
       DOMAIN breakpoints = Segments /\ DOMAIN saxs = Series
  /\ phase = "quantilesRun" =>
       config.use_adhoc_breakpoints /\ \A g \in Segments : breakpoints[g] = Column(g) \/ Open(g)
  /\ phase = "wordsRun" => \A s \in Series : saxs[s] = WordOf(s) \/ Open(s)
  /\ phase \in {"options", "configured", "quantiles", "quantilesRun"} => set = "database"

IInv == Typed /\ BlocksClaimed /\ BlocksApart /\ BlocksDone /\ NothingReadEarly

\* A segment without values would never be completed, and the ones behind it would
\* take its place.
HasValues == config.sax_length \in 1 .. config.series_length

\* A thread that aggregates has added up some values of one segment, and its block
\* ends with a series.
AtValue(t) ==
  /\ \E s \in 0 .. Size, g \in Segments, c \in 0 .. config.series_length :
       /\ c < SegmentLength(g) /\ at[t] = Begin(s, g) + c
       /\ sum[t] = [paa |-> config.sax_length * s + g, segment |-> g,
                    from |-> Begin(s, g), counter |-> c]
  /\ \E e \in 0 .. Size : stop[t] = config.series_length * e

\* A mean is computed with the last value of its segment.
ToCompute(s, g) ==
  \/ s >= counter
  \/ \E t \in Threads : pc[t] = "work" /\ at[t] < Begin(s, g + 1) /\ Begin(s, g + 1) <= stop[t]

MeansDone ==
  /\ phase \in {"means", "meansRun"} => DOMAIN paas = 0 .. Size * config.sax_length - 1
  /\ phase = "meansRun" =>
       /\ \A t \in Threads : pc[t] = "work" => AtValue(t)
       /\ \A s \in Series, g \in Segments :
            paas[config.sax_length * s + g] = MeanOf(s, g) \/ ToCompute(s, g)

MeansInv == DOMAIN sum = Threads /\ (HasValues => MeansDone /\ MeansOfSegments)

=============================================================================
