--------------------------------- MODULE MCHnsw ---------------------------------
EXTENDS Hnsw

\* Vectors are places on a line.
MCEmbedding == {1, 2}
MCDist == [v \in MCEmbedding |-> [w \in MCEmbedding |-> IF v < w THEN w - v ELSE v - w]]
================================================================================
