------------------------------ MODULE MCDedup ------------------------------
(* Dedup with two reader threads that see two tags and room for one, so    *)
(* that eviction, purging and late clock readings meet.                    *)
EXTENDS Dedup
=============================================================================
