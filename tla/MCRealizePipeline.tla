-------------------------- MODULE MCRealizePipeline --------------------------
EXTENDS RealizePipeline

\* One core does more tiles than cb_io has pages, so the ring wraps; the
\* other does one.
MCT0 == [k \in Cores |-> IF k = CHOOSE x \in Cores : TRUE THEN 0 ELSE 3]
MCCount == [k \in Cores |-> IF k = CHOOSE x \in Cores : TRUE THEN 3 ELSE 1]
=============================================================================
