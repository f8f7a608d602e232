----------------------------- MODULE MCBenchmark -----------------------------
(***************************************************************************)
(* Instances of Benchmark for TLC: two threads and another client.         *)
(***************************************************************************)
EXTENDS Benchmark
=============================================================================
