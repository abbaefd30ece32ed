---------------------------- MODULE MCRecompute -----------------------------
(* Two concurrent requests, room for two recompute threads, one pm2 loop.  *)
EXTENDS Recompute, TLC

=============================================================================
