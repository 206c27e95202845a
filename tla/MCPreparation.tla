--------------------------- MODULE MCPreparation ---------------------------
(* Command lines for TLC. *)
EXTENDS Preparation

Option(f, v) == <<[field |-> f, value |-> v]>>

\* Seven series and two queries of eight values in three segments.
Sizes == Option("database_size", 7) \o Option("query_size", 2)
         \o Option("series_length", 8) \o Option("sax_length", 3)

\* Means loaded or computed, both breakpoints, one thread or two.
Working ==
  {Sizes \o d \o q \o a \o Option("cpu_cores", n) :
     d \in {<< >>, Option("database_summarization_filepath", "d")},
     q \in {<< >>, Option("query_summarization_filepath", "q")},
     a \in {<< >>, Option("use_adhoc_breakpoints", TRUE)},
     n \in 1 .. MaxThreads}

\* Where threads may run, up to the limits of each memory node and beyond.
Placed ==
  {Sizes \o Option("database_summarization_filepath", "d")
         \o Option("query_summarization_filepath", "q")
         \o Option("cpu_cores", MaxThreads) \o Option("numa_cores", n)
         \o Option("numa_id", i) \o Option("skipped_cores", s) :
     n \in 0 .. 3, i \in 0 .. 1, s \in {1, 14, 15, 30, 31}}

\* Others that an assertion does not let pass, and an option given twice.
Odd ==
  {Sizes \o o : o \in {Option("series_length", 12), Option("query_size", 0), Option("k", 1025),
                       Option("initial_leaf_size", 8001), Option("sax_cardinality", 4),
                       Option("series_length", 12) \o Option("series_length", 8)}}

MCCommandLines == Working \cup Placed \cup Odd
MCOptions == UNION {{line[i] : i \in DOMAIN line} : line \in MCCommandLines}

=============================================================================
