--------------------------- MODULE Configuration ---------------------------
(***************************************************************************)
(* initializeConfig and initializeThreads (src/src/utils/config.c): the    *)
(* defaults, the options one after another, what is asserted of the        *)
(* result, and the processors the program binds itself to.  Reading a      *)
(* number from its text is not modelled, nor that it may be none.          *)
(***************************************************************************)
EXTENDS Integers, Sequences, FiniteSets

CONSTANTS Options,        \* what may be given: the field an option sets, its value
          CommandLines    \* sequences of options

\* Options without an argument set their field to TRUE, --not_lower_bounding to FALSE.
Flags == {"use_adhoc_breakpoints", "exact_search", "sort_leaves", "split_by_summarizations",
          "leaf_compactness", "lower_bounding"}

Filepaths == {"database_filepath", "database_summarization_filepath", "query_filepath",
              "query_summarization_filepath", "log_filepath"}

\* What malloc left in max_threads is not read before it is set.
Defaults ==
  [database_filepath |-> "NULL", database_summarization_filepath |-> "NULL",
   query_filepath |-> "NULL", query_summarization_filepath |-> "NULL",
   log_filepath |-> "./isax.log",
   series_length |-> 256, database_size |-> 0, query_size |-> 0,
   initial_leaf_size |-> 1024, leaf_size |-> 8000, index_block_size |-> 20000,
   sax_cardinality |-> 8, sax_length |-> 16, scale_factor |-> [of |-> -1, by |-> 1],
   use_adhoc_breakpoints |-> FALSE, exact_search |-> FALSE, sort_leaves |-> FALSE,
   split_by_summarizations |-> FALSE, k |-> 1,
   cpu_cores |-> 1, numa_cores |-> 1, numa_id |-> 0, skipped_cores |-> 0, max_threads |-> 0,
   series_limitations |-> 0, leaf_compactness |-> FALSE, lower_bounding |-> TRUE]

ASSUME ConfigurationAssumption ==
  /\ CommandLines \subseteq Seq(Options)
  /\ \A option \in Options :
       /\ option.field \in DOMAIN Defaults \ {"max_threads"}
       /\ option.field \in Flags => option.value = (option.field # "lower_bounding")
       /\ option.field \notin Flags \cup Filepaths \cup {"scale_factor"} => option.value \in Nat

VARIABLES
  arguments,       \* the options that are left
  config,
  processors,      \* the mask of pthread_setaffinity_np
  phase            \* where the program is

configuration == <<arguments, config, processors>>

ConfigurationInit ==
  /\ arguments \in CommandLines
  /\ config = Defaults
  /\ processors = {}
  /\ phase = "options"

\* A field that is given more than once has the value given last.
ParseOption ==
  /\ phase = "options" /\ arguments # << >>
  /\ config' = [config EXCEPT ![Head(arguments).field] = Head(arguments).value]
  /\ arguments' = Tail(arguments)
  /\ UNCHANGED <<processors, phase>>

NotGiven(factor) == factor = Defaults.scale_factor

\* The assertions.  The one on sax_length is true of every number.
Acceptable ==
  /\ config.series_length % 8 = 0 /\ config.series_length > 0
  /\ config.sax_length >= 8 \/ config.sax_length <= 16
  /\ config.sax_cardinality = 8
  /\ config.database_size > 0 /\ config.query_size > 0 /\ config.index_block_size > 0
  /\ config.leaf_size > 0 /\ config.initial_leaf_size > 0
  /\ config.initial_leaf_size <= config.leaf_size
  /\ config.k >= 0 /\ config.k <= 1024
  /\ NotGiven(config.scale_factor) \/ config.scale_factor.of > 0
  /\ config.cpu_cores > 0 /\ config.numa_id \in {0, 1}
  /\ \/ config.numa_cores = 2 /\ config.skipped_cores + config.cpu_cores <= 32
     \/ config.numa_cores = 1 /\ config.skipped_cores + config.cpu_cores <= 16

\* Processors of two memory nodes take turns: one node has every second number.
Step_Swapped == config.numa_cores
Step == 3 - config.numa_cores

initializeThreads ==
  /\ processors' = {config.numa_id + (config.skipped_cores + i) * Step :
                      i \in 0 .. config.cpu_cores - 1}
  /\ config' = [config EXCEPT
                  !.max_threads = config.cpu_cores,
                  !.scale_factor = IF NotGiven(@)
                                   THEN [of |-> config.series_length, by |-> config.sax_length]
                                   ELSE @]

Accept ==
  /\ phase = "options" /\ arguments = << >> /\ Acceptable
  /\ initializeThreads
  /\ phase' = "configured"
  /\ UNCHANGED arguments

\* An assertion fails and the process aborts.
Abort ==
  /\ phase = "options" /\ arguments = << >> /\ ~Acceptable
  /\ phase' = "aborted"
  /\ UNCHANGED configuration

InitializeConfig == ParseOption \/ Accept \/ Abort

-----------------------------------------------------------------------------
\* Every accepted configuration has a processor of its own for each of its threads;
\* on one memory node they are all of that node, below the 32 that the assertions
\* count with.  With two, numa_id 1 shifts them all, and 32 is one too many.
ThreadsPlaced ==
  phase \notin {"options", "aborted"} =>
    /\ Cardinality(processors) = config.max_threads
    /\ config.numa_cores = 1 => \A p \in processors : p % 2 = config.numa_id
    /\ \A p \in processors :
         p \in 0 .. 31 \/ (p = 32 /\ config.numa_cores = 2 /\ config.numa_id = 1)

=============================================================================
